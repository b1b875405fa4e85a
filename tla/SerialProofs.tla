---------------------------- MODULE SerialProofs ----------------------------
(***************************************************************************)
(* What holds between two DDL statements if clients are Serial: a table    *)
(* that a DDL statement changes is left alone by every other statement.    *)
(*                                                                         *)
(* The schema objects are shared and edited in place, so that a table is   *)
(* left alone does not follow from the names in the statements: it has to  *)
(* be shown that no connection holds an object of another's table.  Named  *)
(* says so: an object carries the name of the table it is held for, except *)
(* between the steps of a rename.                                          *)
(***************************************************************************)
EXTENDS CatalogProofs, SequenceTheorems

Changes(c) == conn[c].stmt # None /\ IsDDL(conn[c].stmt)
Reach(c) == IF conn[c].stmt = None THEN {} ELSE TablesOf(conn[c].stmt)

\* Clients do not overlap DDL on a table with other work on it.
Apart == \A c, d \in Conns : c # d /\ Changes(c) => Reach(c) \cap Reach(d) = {}

DataPCs == {"applyDefaults", "insertMany", "updateMany", "deleteMany"}
CounterPCs == {"findCounter", "setCounter", "deleteCounter"}

\* Where a handler waits for Get, Save and Delete.
CallPCs(at) ==
  CASE at \in {"lookup", "find", "fill"} ->
         {"start", "load", "migrate", "applyDefaults", "updateMany"}
    [] at \in {"upsert", "publish"} -> {"createIndexes", "dropOld", "finish"}
    [] at \in {"evict", "erase"} -> {"dropCounter", "findCounter"}
    [] OTHER -> PCs

\* What is left of a statement's options is a suffix of them.
IsSuffix(rest, opts) ==
  /\ Len(rest) <= Len(opts)
  /\ \A k \in 1..Len(rest) : rest[k] = opts[Len(opts) - Len(rest) + k]

RestFits(c) == IsSuffix(conn[c].rest, conn[c].stmt.opts)

\* A connection works on the tables of its statement only, and only DDL
\* statements change schemas.
Stays(c) ==
  /\ conn[c].pc = "idle" => conn[c] = Idle /\ call[c] = NoCall
  /\ conn[c].pc # "idle" => RestFits(c) /\ (conn[c].pc \in DataPCs <=> ~IsDDL(conn[c].stmt))
  /\ conn[c].pc = "dropDatabase" => conn[c].stmt.kind = "dropDatabase"
  /\ conn[c].pc = "start" => conn[c].stmt.kind = "alter"
  /\ conn[c].tab # None => conn[c].tab \in Reach(c)
  /\ call[c].tab \in {None, conn[c].tab}
  /\ call[c].at = "returned" => call[c].tab = None
  /\ conn[c].pc \in CallPCs(call[c].at)
  /\ call[c].at \in {"upsert", "publish", "evict", "erase"} => Changes(c)
  /\ conn[c].ptr # None => Changes(c) /\ conn[c].stmt.kind \in {"alter", "index"}
  /\ conn[c].pc \in RenamePCs => Opt(c).to # conn[c].tab

\* The old name of a renamed table has lost its cache entry, or never had one.
Vacated(c) ==
  \/ conn[c].pc \in {"setCounter", "deleteCounter"}
  \/ conn[c].pc = "findCounter" /\ ~At(c, "evict")
  \/ conn[c].pc = "migrate" /\ call[c].at \in {"find", "fill"}
  \/ conn[c].pc = "migrate" /\ Returned(c) /\ call[c].ptr = None

\* A connection's objects are those of the table at hand, or of the name this
\* table is moving to.
HoldsNamed(c) ==
  /\ call[c].ptr # None =>
       heap[call[c].ptr].name = IF conn[c].pc = "dropOld" THEN Opt(c).to ELSE conn[c].tab
  /\ conn[c].pc \in CounterPCs => call[c].ptr = None
  /\ conn[c].ptr # None =>
       \/ heap[conn[c].ptr].name = conn[c].tab
       \/ /\ conn[c].pc \in CounterPCs \cup {"dropOld"}
          /\ heap[conn[c].ptr].name = Opt(c).to
  /\ Vacated(c) => cache[conn[c].tab] = None

\* The object has its new name and is still cached under the old one.
Moving(c) == conn[c].pc = "dropOld" \/ (conn[c].pc = "findCounter" /\ At(c, "evict"))

CacheNamed(t) ==
  cache[t] # None =>
    \/ heap[cache[t]].name = t
    \/ \E c \in Conns : /\ Moving(c) /\ t = conn[c].tab
                        /\ heap[cache[t]].name = Opt(c).to

Named ==
  /\ Apart
  /\ \A c \in Conns : Stays(c) /\ HoldsNamed(c)
  /\ \A t \in Tables : CacheNamed(t)

----------------------------------------------------------------------------
(* What a step of one connection leaves alone.                             *)

Owned(c) == {call[c].ptr, conn[c].ptr} \ {None}

\* A step of c changes its own handler, its own tables, new objects and, if it
\* changes schemas, the objects it holds.
Keeps(c) ==
  /\ \A d \in Conns \ {c} : conn'[d] = conn[d] /\ call'[d] = call[d]
  /\ \A t \in Tables \ Reach(c) :
       /\ cache'[t] = cache[t] /\ docs'[t] = docs[t] /\ (t \in colls' <=> t \in colls)
       /\ rows'[t] = rows[t] /\ phys'[t] = phys[t] /\ seq'[t] = seq[t]
  /\ \A p \in Ptrs :
       heap'[p] = heap[p] \/ p \in Fresh \/ (Changes(c) /\ p \in Owned(c))
  /\ ~Changes(c) => docs' = docs /\ phys' = phys
  /\ conn'[c].stmt \in {None, conn[c].stmt}

LEMMA Typed ==
  ASSUME TypeInv
  PROVE  /\ heap \in [Ptrs -> {None} \cup TableSchema]
         /\ cache \in [Tables -> {None} \cup Ptrs]
         /\ docs \in [Tables -> {None} \cup Listing]
         /\ call \in [Conns -> Call] /\ conn \in [Conns -> Handler]
         /\ \A c \in Conns :
              /\ conn[c] \in Handler /\ call[c] \in Call
              /\ HandlerFits(conn[c]) /\ CallFits(call[c])
              /\ call[c].ptr \in {None} \cup Ptrs /\ conn[c].ptr \in {None} \cup Ptrs
              /\ conn[c].tab \in {None} \cup Tables
              /\ conn[c].pc # "idle" => conn[c].stmt # None
BY NoneIsDistinct DEF TypeInv, TypeOK, StoreTypeOK, Shape, Call, Handler, HandlerFits

\* The first of the options left is one of the statement's; the others are still
\* a suffix.
LEMMA SuffixHead ==
  ASSUME NEW S, NEW s \in Seq(S), NEW r \in Seq(S), r # <<>>, IsSuffix(r, s)
  PROVE  /\ Len(s) - Len(r) + 1 \in DOMAIN s
         /\ Head(r) = s[Len(s) - Len(r) + 1]
         /\ IsSuffix(Tail(r), s)
<1>1. Len(r) \in Nat \ {0} /\ Len(s) \in Nat /\ Head(r) = r[1] /\ Len(r) <= Len(s)
  BY DEF IsSuffix
<1>2. r[1] = s[Len(s) - Len(r) + 1]
  BY <1>1 DEF IsSuffix
<1>3. Len(Tail(r)) = Len(r) - 1 /\ \A k \in 1..(Len(r) - 1) : Tail(r)[k] = r[k + 1]
  BY <1>1
<1>4. \A k \in 1..(Len(r) - 1) : r[k + 1] = s[Len(s) - Len(r) + (k + 1)]
  BY <1>1 DEF IsSuffix
<1>5. IsSuffix(Tail(r), s)
  BY <1>1, <1>3, <1>4 DEF IsSuffix
<1> QED BY <1>1, <1>2, <1>5

LEMMA WholeIsSuffix ==
  ASSUME NEW S, NEW s \in Seq(S)
  PROVE  IsSuffix(s, s)
BY DEF IsSuffix

\* The tables a step takes from its options are tables of the statement.
LEMMA Reaching ==
  ASSUME TypeInv, NEW c \in Conns, Stays(c), conn[c].pc # "idle", conn[c].rest # <<>>
  PROVE  /\ Opt(c).op = "rename" => {From(c), Opt(c).to} \subseteq Reach(c)
         /\ Opt(c).op = "dropTable" => Opt(c).tab \in Reach(c)
<1> DEFINE s == conn[c].stmt
           h == conn[c]
           j == Len(s.opts) - Len(h.rest) + 1
<1>1. /\ h \in Handler /\ s \in Workload /\ s # None /\ RestFits(c) /\ OptionsFit(h)
      /\ h.tab # None => h.tab \in Reach(c)
  BY Typed DEF Stays, Handler, HandlerFits
<1>2. s.opts \in Seq(Option) /\ h.rest \in Seq(Option)
  BY <1>1, StatementShape DEF Handler
<1>3. j \in DOMAIN s.opts /\ Opt(c) = s.opts[j]
  BY <1>1, <1>2, SuffixHead DEF RestFits, Opt
<1>4. \/ s.kind = "alter" /\ h.tab \in Tables /\ h.rest \in Seq(AlterOption)
      \/ s.kind = "index" /\ h.tab \in Tables /\ h.rest \in Seq(IndexOption)
      \/ s.kind = "rename" /\ h.rest \in Seq(RenamePair)
      \/ s.kind = "drop" /\ h.rest \in Seq(DropName)
  BY <1>1 DEF OptionsFit
<1>5. Reach(c) = TablesOf(s)
  BY <1>1 DEF Reach
<1> HIDE DEF s, j
<1>6. CASE s.kind = "alter"
  <2>1. Opt(c).op = "rename" => Opt(c).to \in TablesOf(s)
    BY <1>3, <1>6, Zenon DEF TablesOf
  <2>2. Opt(c).op # "dropTable"
    BY <1>2, <1>4, <1>6 DEF AlterOption, Opt
  <2>3. From(c) = h.tab /\ h.tab \in Reach(c)
    BY <1>1, <1>4, <1>6, NoneIsDistinct DEF From, s
  <2> QED BY <1>5, <2>1, <2>2, <2>3
<1>7. CASE s.kind = "index"
  <2>1. Opt(c) \in IndexOption
    BY <1>4, <1>7 DEF Opt
  <2> QED BY <2>1 DEF IndexOption
<1>8. CASE s.kind = "rename"
  <2>1. Opt(c) \in RenamePair
    BY <1>4, <1>8 DEF Opt
  <2>2. Opt(c).op = "rename"
    BY <2>1 DEF RenamePair
  <2>3. {Opt(c).from, Opt(c).to} \subseteq TablesOf(s)
    BY <1>3, <1>8, <2>2 DEF TablesOf
  <2> QED BY <1>5, <1>8, <2>2, <2>3 DEF From, s
<1>9. CASE s.kind = "drop"
  <2>1. Opt(c) \in DropName
    BY <1>4, <1>9 DEF Opt
  <2>2. Opt(c).op = "dropTable"
    BY <2>1 DEF DropName
  <2>3. Opt(c).tab \in TablesOf(s)
    BY <1>3, <1>9, <2>2 DEF TablesOf
  <2> QED BY <1>5, <2>2, <2>3
<1> QED BY <1>4, <1>6, <1>7, <1>8, <1>9

\* The objects a connection holds are those of tables of its statement.
LEMMA HeldNames ==
  ASSUME TypeInv, NEW c \in Conns, Stays(c), HoldsNamed(c)
  PROVE  \A p \in Owned(c) : p \in Ptrs /\ heap[p] \in TableSchema /\ heap[p].name \in Reach(c)
<1> SUFFICES ASSUME NEW p \in Owned(c)
             PROVE  p \in Ptrs /\ heap[p] \in TableSchema /\ heap[p].name \in Reach(c)
  OBVIOUS
<1>1. p \in Ptrs /\ heap[p] \in TableSchema /\ heap[p].name \in Tables
  <2>1. p \in Ptrs /\ heap[p] # None
    BY Typed DEF Owned, CallFits, HandlerFits
  <2>2. heap[p] \in TableSchema
    BY <2>1, Typed
  <2> QED BY <2>1, <2>2 DEF TableSchema
<1>2. conn[c].pc # "idle"
  BY DEF Stays, Idle, NoCall, Owned
<1>3. conn[c].pc \in RenamePCs => Opt(c).to \in Reach(c)
  BY <1>2, Typed, Reaching DEF HandlerFits, Opt
<1>4. heap[p].name = conn[c].tab \/ (conn[c].pc \in RenamePCs /\ heap[p].name = Opt(c).to)
  BY DEF HoldsNamed, Owned, RenamePCs, CounterPCs
<1> QED BY <1>1, <1>3, <1>4, NoneIsDistinct DEF Stays

\* An object that is changed is nobody else's.
LEMMA Undisturbed ==
  ASSUME TypeInv, Named, NEW c \in Conns, Keeps(c)
  PROVE  /\ \A d \in Conns \ {c} : \A p \in Owned(d) : heap'[p] = heap[p]
         /\ \A t \in Tables : cache[t] # None /\ (t \notin Reach(c) \/ ~Changes(c))
                               => heap'[cache[t]] = heap[cache[t]]
<1>1. ASSUME NEW d \in Conns \ {c}, NEW p \in Owned(d) PROVE heap'[p] = heap[p]
  <2>1. p \in Ptrs /\ p \notin Fresh /\ heap[p].name \in Reach(d)
    BY <1>1, HeldNames DEF Named, Owned, Fresh
  <2>2. Changes(c) => p \notin Owned(c)
    BY <1>1, <2>1, HeldNames DEF Named, Apart
  <2> QED BY <2>1, <2>2 DEF Keeps
<1>2. ASSUME NEW t \in Tables, cache[t] # None, t \notin Reach(c) \/ ~Changes(c)
      PROVE  heap'[cache[t]] = heap[cache[t]]
  <2>1. cache[t] \in Ptrs /\ cache[t] \notin Fresh
    BY <1>2, Typed DEF Fresh
  <2>2. ASSUME Changes(c), cache[t] \in Owned(c) PROVE FALSE
    <3>1. heap[cache[t]].name \in Reach(c) /\ t \notin Reach(c)
      BY <1>2, <2>2, HeldNames DEF Named
    <3>2. PICK d \in Conns : Moving(d) /\ t = conn[d].tab /\ heap[cache[t]].name = Opt(d).to
      BY <1>2, <3>1 DEF Named, CacheNamed
    <3>3. conn[d].pc \in RenamePCs /\ conn[d].pc # "idle"
      BY <3>2 DEF Moving, RenamePCs
    <3>4. Opt(d).to \in Reach(d) /\ t \in Reach(d)
      BY <1>2, <3>2, <3>3, Typed, Reaching, NoneIsDistinct DEF HandlerFits, Opt, Named, Stays
    <3>5. d # c
      BY <3>1, <3>4
    <3> QED BY <2>2, <3>1, <3>2, <3>4, <3>5 DEF Named, Apart
  <2> QED BY <2>1, <2>2 DEF Keeps
<1> QED BY <1>1, <1>2

\* So a step of c leaves Named as it is for all other connections and tables.
LEMMA NamedFrame ==
  ASSUME TypeInv, Named, NEW c \in Conns, Keeps(c)
  PROVE  /\ Apart'
         /\ \A d \in Conns \ {c} : (Stays(d) /\ HoldsNamed(d))'
         /\ \A t \in Tables \ Reach(c) : CacheNamed(t)'
<1>1. /\ \A d \in Conns \ {c} : Reach(d)' = Reach(d) /\ (Changes(d)' <=> Changes(d))
      /\ Reach(c)' \subseteq Reach(c) /\ (Changes(c)' => Changes(c))
  BY DEF Keeps, Reach, Changes
<1>2. Apart'
  BY <1>1 DEF Named, Apart
<1>3. ASSUME NEW d \in Conns \ {c} PROVE Stays(d)' /\ HoldsNamed(d)'
  <2>1. conn'[d] = conn[d] /\ call'[d] = call[d] /\ Stays(d) /\ HoldsNamed(d)
    BY DEF Keeps, Named
  <2>2. Opt(d)' = Opt(d)
    BY <2>1 DEF Opt
  <2>3. Stays(d)'
    BY <1>1, <2>1, <2>2 DEF Stays, RestFits
  <2>4. /\ call[d].ptr # None => heap'[call[d].ptr] = heap[call[d].ptr]
        /\ conn[d].ptr # None => heap'[conn[d].ptr] = heap[conn[d].ptr]
    BY Undisturbed DEF Owned
  <2>5. Vacated(d) => cache'[conn[d].tab] = cache[conn[d].tab]
    <3> SUFFICES ASSUME Vacated(d) PROVE cache'[conn[d].tab] = cache[conn[d].tab]
      OBVIOUS
    <3>1. conn[d].pc \in RenamePCs
      BY DEF Vacated, RenamePCs
    <3>2. conn[d].tab \in Tables /\ conn[d].tab \in Reach(d) /\ Changes(d)
      BY <2>1, <3>1, Typed DEF HandlerFits, OneTablePCs, Stays, Changes, RenamePCs, DataPCs
    <3> QED BY <3>2 DEF Keeps, Named, Apart
  <2>6. HoldsNamed(d)'
    BY <2>1, <2>2, <2>4, <2>5 DEF HoldsNamed, Vacated, At, Returned
  <2> QED BY <2>3, <2>6
<1>4. ASSUME NEW t \in Tables \ Reach(c) PROVE CacheNamed(t)'
  <2>1. cache'[t] = cache[t] /\ (cache[t] # None => heap'[cache[t]] = heap[cache[t]])
    BY Undisturbed DEF Keeps
  <2>2. ASSUME NEW d \in Conns, Moving(d), t = conn[d].tab
        PROVE  Moving(d)' /\ t = conn'[d].tab /\ Opt(d)' = Opt(d)
    <3>1. d # c
      BY <2>2, NoneIsDistinct DEF Named, Stays
    <3>2. conn'[d] = conn[d] /\ call'[d] = call[d]
      BY <3>1 DEF Keeps
    <3> QED BY <2>2, <3>2 DEF Moving, At, Opt
  <2> QED BY <2>1, <2>2 DEF Named, CacheNamed
<1> QED BY <1>2, <1>3, <1>4

\* Where the steps of a connection take it; c's table is one of its statement's.
LEMMA OwnTable ==
  ASSUME TypeInv, NEW c \in Conns, Stays(c), conn[c].tab # None
  PROVE  conn[c].tab \in Tables /\ conn[c].tab \in Reach(c)
BY Typed DEF Stays

LEMMA CallKeeps ==
  ASSUME TypeInv, Named, NEW c \in Conns, CallStep(c)
  PROVE  Keeps(c)
<1>1. UNCHANGED <<conn, colls, rows, phys, seq>>
  BY DEF CallStep
<1>2. \A d \in Conns \ {c} : call'[d] = call[d]
  BY Typed DEF CallStep, StoreStep, Lookup, FindMissing, FindDocument, Fill, Upsert, Publish,
     Evict, Erase, Return
<1>3. call[c].tab # None => call[c].tab \in Reach(c)
  BY DEF Named, Stays
<1>4. call[c].ptr # None => heap[call[c].ptr].name \in Reach(c)
  BY HeldNames DEF Named, Owned
<1>5. call[c].at \in {"upsert", "publish", "evict", "erase"} => Changes(c)
  BY DEF Named, Stays
<1>6. CASE Lookup(c) \/ FindMissing(c)
  BY <1>1, <1>2, <1>6 DEF Lookup, FindMissing, Keeps
<1>7. CASE \E p \in Fresh : FindDocument(c, p)
  BY <1>1, <1>2, <1>7, Typed DEF FindDocument, Keeps
<1>8. CASE Fill(c) \/ Evict(c)
  <2>1. call[c].tab \in Reach(c)
    BY <1>3, <1>8, Typed DEF Fill, Evict, At, CallFits
  <2>2. /\ UNCHANGED <<heap, docs>>
        /\ \E p : cache' = [cache EXCEPT ![call[c].tab] = p]
    BY <1>8 DEF Fill, Evict
  <2>3. \A t \in Tables \ Reach(c) : cache'[t] = cache[t]
    BY <2>1, <2>2, Typed
  <2> QED BY <1>1, <1>2, <2>2, <2>3 DEF Keeps
<1>9. CASE Erase(c)
  <2>1. call[c].tab \in Reach(c) /\ Changes(c)
    BY <1>3, <1>5, <1>9, Typed DEF Erase, At, CallFits
  <2>2. \A t \in Tables \ Reach(c) : docs'[t] = docs[t]
    BY <1>9, <2>1, Typed DEF Erase
  <2> QED BY <1>1, <1>2, <1>9, <2>1, <2>2 DEF Keeps, Erase
<1>10. CASE Upsert(c)
  <2>1. heap[call[c].ptr].name \in Reach(c) /\ Changes(c)
    BY <1>4, <1>5, <1>10, Typed DEF Upsert, At, CallFits
  <2>2. \A t \in Tables \ Reach(c) : docs'[t] = docs[t]
    BY <1>10, <2>1, Typed DEF Upsert
  <2> QED BY <1>1, <1>2, <1>10, <2>1, <2>2 DEF Keeps, Upsert
<1>11. CASE Publish(c)
  <2>1. heap[call[c].ptr].name \in Reach(c)
    BY <1>4, <1>11, Typed DEF Publish, At, CallFits
  <2>2. \A t \in Tables \ Reach(c) : cache'[t] = cache[t]
    BY <1>11, <2>1, Typed DEF Publish
  <2> QED BY <1>1, <1>2, <1>11, <2>2 DEF Keeps, Publish
<1> QED BY <1>6, <1>7, <1>8, <1>9, <1>10, <1>11 DEF CallStep, StoreStep

\* What is left of a handler's state when it goes on in one of the usual ways.
LEMMA GoesOn ==
  ASSUME TypeInv, NEW c \in Conns, NEW pc, Goto(c, pc)
  PROVE  /\ conn'[c].pc = pc /\ conn'[c].stmt = conn[c].stmt /\ conn'[c].rest = conn[c].rest
         /\ conn'[c].tab = conn[c].tab /\ conn'[c].ptr = conn[c].ptr
         /\ conn'[c].id = conn[c].id /\ conn'[c].nr = conn[c].nr
BY Typed DEF Goto, Handler

LEMMA Ends ==
  ASSUME TypeInv, NEW c \in Conns, Finish(c)
  PROVE  /\ conn'[c] = Idle /\ call'[c] = NoCall
         /\ conn'[c].pc = "idle" /\ conn'[c].stmt = None /\ conn'[c].rest = <<>>
         /\ conn'[c].tab = None /\ conn'[c].ptr = None
         /\ call'[c].at = "returned" /\ call'[c].tab = None /\ call'[c].ptr = None
<1>1. conn'[c] = Idle /\ call'[c] = NoCall
  BY Typed DEF Finish
<1> QED BY <1>1 DEF Idle, NoCall

LEMMA GoesToNext ==
  ASSUME TypeInv, NEW c \in Conns, conn' = [conn EXCEPT ![c] = NextOption(c)]
  PROVE  /\ conn'[c].pc = "option" /\ conn'[c].stmt = conn[c].stmt
         /\ conn'[c].rest = Tail(conn[c].rest)
         /\ conn'[c].tab = conn[c].tab /\ conn'[c].ptr = conn[c].ptr
<1>1. conn'[c] = NextOption(c) /\ conn[c] \in Handler
  BY Typed
<1>2. /\ NextOption(c).pc = "option" /\ NextOption(c).stmt = conn[c].stmt
      /\ NextOption(c).rest = Tail(conn[c].rest)
      /\ NextOption(c).tab = conn[c].tab /\ NextOption(c).ptr = conn[c].ptr
  BY <1>1 DEF NextOption, Handler
<1> QED BY <1>1, <1>2, Zenon

LEMMA LoadsOn ==
  ASSUME TypeInv, NEW c \in Conns, NEW p, Loads(c, p)
  PROVE  /\ conn'[c].stmt = conn[c].stmt /\ conn'[c].tab = conn[c].tab
         /\ IF p = None THEN /\ conn'[c].pc = "option" /\ conn'[c].rest = Tail(conn[c].rest)
                             /\ conn'[c].ptr = conn[c].ptr
                        ELSE /\ conn'[c].pc = "store" /\ conn'[c].rest = conn[c].rest
                             /\ conn'[c].ptr = p /\ conn'[c].seen = heap[p].items
<1>1. CASE p = None
  BY <1>1, GoesToNext DEF Loads
<1>2. CASE p # None
  BY <1>2, Typed DEF Loads, Handler
<1> QED BY <1>1, <1>2

LEMMA EndsRename ==
  ASSUME TypeInv, NEW c \in Conns, Renamed(c)
  PROVE  /\ conn'[c].pc = "option" /\ conn'[c].stmt = conn[c].stmt
         /\ conn'[c].rest = Tail(conn[c].rest)
         /\ conn'[c].tab = Opt(c).to /\ conn'[c].ptr = conn[c].ptr
<1>1. conn[c] \in Handler /\ conn'[c] = [NextOption(c) EXCEPT !.tab = Opt(c).to, !.id = 0]
  BY Typed DEF Renamed
<1> QED BY <1>1 DEF NextOption, Handler

\* A handler's step, by what it changes: nothing but its own state; rows,
\* indexes and counters of its tables; or an object it holds.
LEMMA HandleKeeps ==
  ASSUME TypeInv, Named, NEW c \in Conns, Handle(c)
  PROVE  Keeps(c)
<1>t. /\ Stays(c) /\ conn \in [Conns -> Handler] /\ call \in [Conns -> Call]
      /\ conn[c] \in Handler /\ HandlerFits(conn[c])
  BY Typed DEF Named
<1>r. \A pc : Running(c, pc) => pc = conn[c].pc
  BY DEF Running
<1>o. \A op : AtOption(c, op) => conn[c].pc = "option" /\ conn[c].rest # <<>> /\ Opt(c).op = op
  BY DEF AtOption, Running, Opt
<1>c. conn[c].pc \notin DataPCs \cup {"idle"} => Changes(c)
  BY <1>t DEF Stays, Changes, HandlerFits
<1>n. NextOption(c).stmt = conn[c].stmt
  BY <1>t DEF NextOption, Handler
<1>s. \A d \in Conns \ {c} : conn'[d] = conn[d] /\ call'[d] = call[d]
  BY <1>t DEF Handle, CheckExists, CreateFails, CreateCollection, CreateIndexes, TruncateDrop,
     TruncateCreate, DropWholeDatabase, Start, AddColumn, ModifyColumn, DropColumn, AddIndex,
     DropKey, IndexStatement, Load, Store, EndOptions, Finished, DropCollection, DropCounter,
     RenameFails, RenameCollection, MigrateSchema, DropOldSchema, FindCounter, SetCounter,
     DeleteCounter, NextAutoIncrement, NoAutoIncrement, InsertMany, UpdateMany, DeleteMany,
     Finish, Goto, Begins, Loads, Renamed
<1>m. conn'[c].stmt \in {None, conn[c].stmt}
  <2>1. \A pc : Goto(c, pc) => conn'[c].stmt = conn[c].stmt
    BY GoesOn
  <2>2. Finish(c) => conn'[c].stmt = None
    BY Ends
  <2>3. \A p : Loads(c, p) => conn'[c].stmt = conn[c].stmt
    BY LoadsOn
  <2>4. conn' = [conn EXCEPT ![c] = NextOption(c)] => conn'[c].stmt = conn[c].stmt
    BY GoesToNext
  <2>5. Renamed(c) => conn'[c].stmt = conn[c].stmt
    BY EndsRename
  <2>6. Start(c) \/ DropCollection(c) \/ RenameCollection(c) \/ FindCounter(c)
        \/ NextAutoIncrement(c) \/ NoAutoIncrement(c) => conn'[c].stmt = conn[c].stmt
    BY <1>t, <2>5 DEF Start, DropCollection, RenameCollection, FindCounter, NextAutoIncrement,
       NoAutoIncrement, Handler
  <2> QED
    BY <2>1, <2>2, <2>3, <2>4, <2>5, <2>6 DEF Handle, CheckExists, CreateFails, CreateCollection, CreateIndexes, TruncateDrop,
     TruncateCreate, DropWholeDatabase, AddColumn, ModifyColumn, DropColumn, AddIndex,
     DropKey, IndexStatement, Load, Store, EndOptions, Finished, DropCounter,
     RenameFails, MigrateSchema, DropOldSchema, SetCounter,
     DeleteCounter, InsertMany, UpdateMany, DeleteMany
<1>i. conn[c].pc \in OneTablePCs => conn[c].tab \in Tables /\ conn[c].tab \in Reach(c)
  BY <1>t, OwnTable, NoneIsDistinct DEF HandlerFits
<1>u. UNCHANGED cache /\ (UNCHANGED docs \/ DropWholeDatabase(c))
  BY DEF Handle, CheckExists, CreateFails, CreateCollection, CreateIndexes, TruncateDrop,
     TruncateCreate, DropWholeDatabase, Start, AddColumn, ModifyColumn, DropColumn, AddIndex,
     DropKey, IndexStatement, Load, Store, EndOptions, Finished, DropCollection, DropCounter,
     RenameFails, RenameCollection, MigrateSchema, DropOldSchema, FindCounter, SetCounter,
     DeleteCounter, NextAutoIncrement, NoAutoIncrement, InsertMany, UpdateMany, DeleteMany,
     mongoVars, collVars
<1>h. \A p \in Ptrs : heap'[p] = heap[p] \/ p \in Fresh \/ (Changes(c) /\ p \in Owned(c))
  <2>1. CASE UNCHANGED heap
    BY <2>1
  <2>2. CASE \E p \in Fresh : CreateCollection(c, p)
    BY <2>2, Typed DEF CreateCollection
  <2>3. CASE Store(c)
    <3>1. conn[c].pc = "store" /\ conn[c].ptr # None
      BY <1>t, <2>3 DEF Store, Running, HandlerFits
    <3>2. Changes(c) /\ conn[c].ptr \in Owned(c)
      BY <1>c, <3>1 DEF DataPCs, Owned
    <3> QED BY <2>3, <3>2, Typed DEF Store
  <2>4. CASE MigrateSchema(c)
    <3>1. Changes(c)
      BY <1>c, <2>4 DEF MigrateSchema, Running, DataPCs
    <3> QED BY <2>4, <3>1, Typed DEF MigrateSchema, Owned
  <2>5. CASE Renamed(c) /\ conn[c].pc \in CounterPCs
    <3>1. Changes(c)
      BY <1>c, <2>5 DEF CounterPCs, DataPCs
    <3> QED BY <2>5, <3>1, Typed DEF Renamed, Owned
  <2>6. UNCHANGED heap \/ (\E p \in Fresh : CreateCollection(c, p)) \/ Store(c) \/ MigrateSchema(c)
        \/ (Renamed(c) /\ conn[c].pc \in CounterPCs)
    BY DEF Handle, CheckExists, CreateFails, CreateIndexes, TruncateDrop,
       TruncateCreate, DropWholeDatabase, Start, AddColumn, ModifyColumn, DropColumn, AddIndex,
       DropKey, IndexStatement, Load, EndOptions, Finished, DropCollection, DropCounter,
       RenameFails, RenameCollection, DropOldSchema, FindCounter, SetCounter,
       DeleteCounter, NextAutoIncrement, NoAutoIncrement, InsertMany, UpdateMany, DeleteMany,
       Running, CounterPCs
  <2> QED BY <2>1, <2>2, <2>3, <2>4, <2>5, <2>6
<1> DEFINE Elsewhere == \A t \in Tables \ Reach(c) :
                          /\ docs'[t] = docs[t] /\ (t \in colls' <=> t \in colls)
                          /\ rows'[t] = rows[t] /\ phys'[t] = phys[t] /\ seq'[t] = seq[t]
<1>f. /\ rows \in [Tables -> SUBSET Row] /\ phys \in [Tables -> SUBSET Indexes]
      /\ seq \in [Tables -> Nat]
  BY DEF TypeInv, TypeOK
<1> SUFFICES Elsewhere /\ (~Changes(c) => docs' = docs /\ phys' = phys)
  BY <1>s, <1>m, <1>u, <1>h, Zenon DEF Keeps
<1>1. CASE UNCHANGED mongoVars
  BY <1>1 DEF mongoVars
<1>2. CASE DropWholeDatabase(c)
  <2>1. Reach(c) = Tables /\ Changes(c)
    BY <1>t, <1>c, <1>2 DEF DropWholeDatabase, Running, Stays, Reach, TablesOf, HandlerFits, DataPCs
  <2> QED BY <2>1
<1> DEFINE OnlyAt(x) == /\ docs' = docs
                        /\ \A u \in Tables \ {x} :
                             /\ u \in colls' <=> u \in colls
                             /\ rows'[u] = rows[u] /\ phys'[u] = phys[u]
                             /\ seq'[u] = seq[u]
<1>3. ASSUME NEW x \in Tables, x \in Reach(c), OnlyAt(x), Changes(c) \/ phys' = phys
      PROVE  Elsewhere /\ (~Changes(c) => docs' = docs /\ phys' = phys)
  BY <1>3
<1> DEFINE t == conn[c].tab
<1> HIDE DEF Elsewhere
<1>4. CASE (\E p \in Fresh : CreateCollection(c, p)) \/ CreateIndexes(c) \/ TruncateDrop(c)
           \/ TruncateCreate(c) \/ DropCounter(c) \/ DeleteCounter(c)
  <2>1. Changes(c) /\ t \in Tables /\ t \in Reach(c)
    BY <1>c, <1>i, <1>4 DEF CreateCollection, CreateIndexes, TruncateDrop, TruncateCreate,
       DropCounter, DeleteCounter, Running, DataPCs, OneTablePCs, RenamePCs
  <2>2. OnlyAt(t)
    BY <1>f, <1>4, <2>1 DEF CreateCollection, CreateIndexes, TruncateDrop, TruncateCreate,
       DropCounter, DeleteCounter, Indexed, Dropped, collVars
  <2> HIDE DEF OnlyAt, t
  <2> QED BY <1>3, <2>1, <2>2
<1>5. CASE DropColumn(c) \/ AddIndex(c) \/ DropKey(c) \/ IndexStatement(c)
  <2>0. conn[c].pc = "option" /\ conn[c].rest # <<>>
        /\ Opt(c).op \in {"drop", "addIndex", "dropIndex", "createIndex", "removeIndex"}
    BY <1>o, <1>5 DEF DropColumn, AddIndex, DropKey, IndexStatement
  <2>1. Changes(c) /\ t \in Tables /\ t \in Reach(c)
    BY <1>c, <1>t, <2>0, OptionAtHand, OwnTable, NoneIsDistinct DEF DataPCs
  <2>2. OnlyAt(t)
    BY <1>f, <1>5, <2>1 DEF DropColumn, AddIndex, DropKey, IndexStatement, Indexed, Unindexed,
       collVars, mongoVars
  <2> HIDE DEF OnlyAt, t
  <2> QED BY <1>3, <2>1, <2>2
<1>6. CASE DropCollection(c)
  <2>0. conn[c].pc = "option" /\ conn[c].rest # <<>> /\ Opt(c).op = "dropTable"
    BY <1>o, <1>6 DEF DropCollection
  <2>1. Changes(c) /\ Opt(c).tab \in Tables /\ Opt(c).tab \in Reach(c)
    BY <1>c, <1>t, <2>0, OptionAtHand, Reaching DEF DataPCs
  <2>2. OnlyAt(Opt(c).tab)
    BY <1>f, <1>6, <2>1 DEF DropCollection, Dropped
  <2> QED BY <1>3, <2>1, <2>2
<1>7. CASE RenameCollection(c)
  <2>0. conn[c].pc = "option" /\ conn[c].rest # <<>> /\ Opt(c).op = "rename"
    BY <1>o, <1>7 DEF RenameCollection
  <2>1. Changes(c) /\ Opt(c).to \in Reach(c) /\ From(c) \in Reach(c)
    BY <1>c, <1>t, <2>0, OptionAtHand, Reaching DEF DataPCs
  <2> QED BY <1>f, <1>7, <2>1 DEF RenameCollection, Elsewhere
<1>8. CASE SetCounter(c)
  <2>1. Changes(c) /\ Opt(c).to \in Tables /\ Opt(c).to \in Reach(c)
    <3>1. conn[c].pc = "setCounter"
      BY <1>8 DEF SetCounter, Running
    <3>2. conn[c].rest # <<>> /\ Opt(c).op = "rename"
      BY <1>t, <3>1 DEF HandlerFits, RenamePCs, Opt
    <3> QED BY <1>c, <1>t, <3>1, <3>2, OptionAtHand, Reaching DEF DataPCs
  <2> QED BY <1>3, <1>8, <1>f, <2>1 DEF SetCounter, collVars
<1>9. CASE NextAutoIncrement(c)
  <2> DEFINE n == heap[call[c].ptr].name
  <2>1. call[c].ptr \in Owned(c)
    BY <1>9 DEF NextAutoIncrement, NeedsId, Owned
  <2>2. n \in Tables /\ n \in Reach(c)
    BY <2>1, HeldNames DEF Named, TableSchema
  <2>3. /\ UNCHANGED <<docs, colls, rows, phys>>
        /\ seq' = [seq EXCEPT ![n] = @ + 1]
    BY <1>9 DEF NextAutoIncrement, collVars
  <2> HIDE DEF n
  <2> QED BY <1>3, <1>f, <2>2, <2>3
<1>10. CASE InsertMany(c) \/ DeleteMany(c)
  <2>1. t \in Tables /\ t \in Reach(c)
    BY <1>i, <1>10 DEF InsertMany, DeleteMany, Running, OneTablePCs
  <2>2. OnlyAt(t) /\ phys' = phys
    BY <1>f, <1>10, <2>1 DEF InsertMany, DeleteMany
  <2> HIDE DEF OnlyAt, t
  <2> QED BY <1>3, <2>1, <2>2
<1> QED
  BY <1>1, <1>2, <1>4, <1>5, <1>6, <1>7, <1>8, <1>9, <1>10 DEF Handle, CheckExists, CreateFails, Start, AddColumn, ModifyColumn,
     Load, Store, EndOptions, Finished, RenameFails, MigrateSchema, DropOldSchema, FindCounter,
     NoAutoIncrement, UpdateMany

----------------------------------------------------------------------------
(* Named is an invariant.  With the lemmas above, what is left to show of   *)
(* a step of c is about c and its tables only.                             *)

\* CacheNamed, for a table of c.
OwnNamed(c, t) ==
  cache[t] # None =>
    \/ heap[cache[t]].name = t
    \/ /\ Moving(c) /\ t = conn[c].tab
       /\ heap[cache[t]].name = Opt(c).to

NamedFor(c) ==
  Stays(c) /\ HoldsNamed(c) /\ \A t \in Tables : t \in Reach(c) => OwnNamed(c, t)

\* Nobody else is renaming a table that c works on.
LEMMA OwnCached ==
  ASSUME TypeInv, Named, NEW c \in Conns
  PROVE  NamedFor(c)
<1> SUFFICES ASSUME NEW t \in Tables, t \in Reach(c), cache[t] # None, heap[cache[t]].name # t
             PROVE  Moving(c) /\ t = conn[c].tab /\ heap[cache[t]].name = Opt(c).to
  BY DEF Named, NamedFor, OwnNamed
<1>1. PICK d \in Conns : Moving(d) /\ t = conn[d].tab /\ heap[cache[t]].name = Opt(d).to
  BY DEF Named, CacheNamed
<1>2. d # c => FALSE
  <2>1. t \in Reach(d) /\ Changes(d)
    BY <1>1, Typed, NoneIsDistinct DEF Named, Stays, Moving, DataPCs, Changes, HandlerFits
  <2> QED BY <2>1 DEF Named, Apart
<1> QED BY <1>1, <1>2

LEMMA NamedNext ==
  ASSUME TypeInv, Named, NEW c \in Conns, Keeps(c), Stays(c)', HoldsNamed(c)',
         \A t \in Tables : t \in Reach(c) => OwnNamed(c, t)'
  PROVE  Named'
<1>1. /\ Apart'
      /\ \A d \in Conns \ {c} : (Stays(d) /\ HoldsNamed(d))'
      /\ \A t \in Tables \ Reach(c) : CacheNamed(t)'
  BY NamedFrame
<1>2. \A t \in Tables : t \in Reach(c) => CacheNamed(t)'
  BY DEF OwnNamed, CacheNamed
<1> QED BY <1>1, <1>2 DEF Named

\* Objects in use keep their names.
NamesKept == \A p \in Ptrs \ Fresh : heap'[p].name = heap[p].name

LEMMA InUse ==
  ASSUME TypeInv
  PROVE  /\ \A t \in Tables : cache[t] # None => cache[t] \in Ptrs \ Fresh
         /\ \A c \in Conns : call[c].ptr # None => call[c].ptr \in Ptrs \ Fresh
         /\ \A c \in Conns : conn[c].ptr # None => conn[c].ptr \in Ptrs \ Fresh
BY Typed DEF Fresh

\* If no name changes, neither do the names in the cache.
LEMMA CacheStays ==
  ASSUME TypeInv, Named, NEW c \in Conns, cache' = cache, NamesKept, ~Moving(c)
  PROVE  \A t \in Tables : t \in Reach(c) => OwnNamed(c, t)'
<1> SUFFICES ASSUME NEW t \in Tables, t \in Reach(c), cache[t] # None
             PROVE  heap'[cache[t]].name = t
  BY DEF OwnNamed
<1>1. heap[cache[t]].name = t
  BY OwnCached DEF NamedFor, OwnNamed
<1> QED BY <1>1, InUse DEF NamesKept

\* A step outside renameCollection that does not take up another table.
LEMMA OrdinaryStep ==
  ASSUME TypeInv, Named, NEW c \in Conns, cache' = cache, NamesKept,
         conn[c].pc \notin RenamePCs \cup {"idle"},
         conn'[c].pc \in PCs \ (RenamePCs \cup {"idle", "dropDatabase", "start"}),
         conn'[c].pc \in DataPCs <=> conn[c].pc \in DataPCs,
         conn'[c].stmt = conn[c].stmt, conn'[c].tab = conn[c].tab,
         \/ conn'[c].rest = conn[c].rest
         \/ conn[c].rest # <<>> /\ conn'[c].rest = Tail(conn[c].rest),
         \/ conn'[c].ptr = conn[c].ptr
         \/ conn'[c].ptr = call[c].ptr /\ conn[c].stmt.kind \in {"alter", "index"},
         call'[c].ptr \in {None, call[c].ptr, conn[c].ptr},
         call'[c].tab \in {None, conn[c].tab},
         call'[c].at = "returned" => call'[c].tab = None,
         conn'[c].pc \in CallPCs(call'[c].at),
         call'[c].at \in {"upsert", "publish", "evict", "erase"} => Changes(c)
  PROVE  Stays(c)' /\ HoldsNamed(c)'
<1>t. /\ Stays(c) /\ HoldsNamed(c) /\ conn[c] \in Handler /\ conn[c].stmt \in Workload
      /\ HandlerFits(conn[c])
  BY Typed DEF Named, Handler, HandlerFits
<1>1. Changes(c)' = Changes(c) /\ Reach(c)' = Reach(c)
  BY DEF Changes, Reach
<1>2. RestFits(c)'
  <2>1. IsSuffix(conn[c].rest, conn[c].stmt.opts) /\ conn[c].stmt.opts \in Seq(Option)
        /\ conn[c].rest \in Seq(Option)
    BY <1>t, StatementShape DEF Stays, RestFits, Handler
  <2> QED BY <2>1, SuffixHead DEF RestFits
<1>3. conn[c].stmt.kind \in {"alter", "index"} => Changes(c)
  BY <1>t, WorkloadAssumption DEF Changes, IsDDL
<1>4. Stays(c)'
  BY <1>t, <1>1, <1>2, <1>3 DEF Stays, RenamePCs
<1>5. /\ conn[c].pc # "dropOld" /\ conn'[c].pc # "dropOld"
      /\ conn[c].pc \notin CounterPCs /\ conn'[c].pc \notin CounterPCs
      /\ conn'[c].pc # "migrate"
  BY DEF RenamePCs, CounterPCs
<1>6. /\ call[c].ptr # None => heap'[call[c].ptr].name = conn[c].tab
      /\ conn[c].ptr # None => heap'[conn[c].ptr].name = conn[c].tab
  BY <1>t, <1>5, InUse DEF HoldsNamed, NamesKept
<1>7. ~Vacated(c)'
  BY <1>5 DEF Vacated, CounterPCs
<1>8. HoldsNamed(c)'
  BY <1>5, <1>6, <1>7 DEF HoldsNamed
<1> QED BY <1>4, <1>8

LEMMA IdleNamed ==
  ASSUME NEW c \in Conns, conn'[c] = Idle, call'[c] = NoCall
  PROVE  Stays(c)' /\ HoldsNamed(c)'
BY DEF Idle, NoCall, Stays, HoldsNamed, Vacated, RenamePCs, CounterPCs, At, Returned, DataPCs,
   CallPCs, PCs

\* What a step of c has to show.
NamedStep(c) ==
  /\ Stays(c)' /\ HoldsNamed(c)'
  /\ \A t \in Tables : t \in Reach(c) => OwnNamed(c, t)'

LEMMA FinishNamed ==
  ASSUME TypeInv, Named, NEW c \in Conns, Finish(c), UNCHANGED <<heap, cache>>,
         conn[c].pc \notin RenamePCs
  PROVE  NamedStep(c)
<1>1. Stays(c)' /\ HoldsNamed(c)'
  BY Ends, IdleNamed
<1>2. ~Moving(c) /\ NamesKept
  BY DEF Moving, RenamePCs, NamesKept
<1> QED BY <1>1, <1>2, CacheStays DEF NamedStep

LEMMA GotoNamed ==
  ASSUME TypeInv, Named, NEW c \in Conns, NEW pc, Goto(c, pc), UNCHANGED <<heap, cache, call>>,
         Returned(c), conn[c].pc \notin RenamePCs \cup {"idle"} \cup DataPCs,
         pc \in PCs \ (RenamePCs \cup {"idle", "dropDatabase", "start"} \cup DataPCs)
  PROVE  NamedStep(c)
<1>1. ~Moving(c) /\ NamesKept
  BY DEF Moving, RenamePCs, NamesKept
<1>2. /\ call'[c].tab = None /\ call'[c].at = "returned" /\ call'[c].ptr = call[c].ptr
      /\ CallPCs(call'[c].at) = PCs
  BY DEF Named, Stays, Returned, CallPCs
<1>3. Stays(c)' /\ HoldsNamed(c)'
  BY <1>1, <1>2, GoesOn, OrdinaryStep
<1> QED BY <1>1, <1>3, CacheStays DEF NamedStep

LEMMA NextNamed ==
  ASSUME TypeInv, Named, NEW c \in Conns, conn' = [conn EXCEPT ![c] = NextOption(c)],
         UNCHANGED <<cache, call>>, NamesKept, conn[c].rest # <<>>,
         Returned(c), conn[c].pc \notin RenamePCs \cup {"idle"} \cup DataPCs
  PROVE  NamedStep(c)
<1>1. ~Moving(c)
  BY DEF Moving, RenamePCs
<1>2. /\ call'[c].tab = None /\ call'[c].at = "returned" /\ call'[c].ptr = call[c].ptr
      /\ CallPCs(call'[c].at) = PCs
  BY DEF Named, Stays, Returned, CallPCs
<1>3. "option" \in PCs \ (RenamePCs \cup {"idle", "dropDatabase", "start"} \cup DataPCs)
  BY DEF PCs, RenamePCs, DataPCs
<1>4. Stays(c)' /\ HoldsNamed(c)'
  BY <1>1, <1>2, <1>3, GoesToNext, OrdinaryStep
<1> QED BY <1>1, <1>4, CacheStays DEF NamedStep

LEMMA LoadsNamed ==
  ASSUME TypeInv, Named, NEW c \in Conns, NEW p, Loads(c, p),
         \/ p = conn[c].ptr
         \/ p = call[c].ptr /\ conn[c].stmt.kind \in {"alter", "index"},
         UNCHANGED <<heap, cache, call>>, conn[c].rest # <<>>,
         Returned(c), conn[c].pc \notin RenamePCs \cup {"idle"} \cup DataPCs
  PROVE  NamedStep(c)
<1>1. ~Moving(c) /\ NamesKept
  BY DEF Moving, RenamePCs, NamesKept
<1>2. /\ call'[c].tab = None /\ call'[c].at = "returned" /\ call'[c].ptr = call[c].ptr
      /\ CallPCs(call'[c].at) = PCs
  BY DEF Named, Stays, Returned, CallPCs
<1>3. {"option", "store"} \subseteq PCs \ (RenamePCs \cup {"idle", "dropDatabase", "start"} \cup DataPCs)
  BY DEF PCs, RenamePCs, DataPCs
<1>4. /\ conn'[c].pc \in {"option", "store"}
      /\ conn'[c].stmt = conn[c].stmt /\ conn'[c].tab = conn[c].tab
      /\ conn'[c].rest \in {conn[c].rest, Tail(conn[c].rest)}
      /\ conn'[c].ptr \in {conn[c].ptr, p}
  BY LoadsOn
<1>5. Stays(c)' /\ HoldsNamed(c)'
  BY <1>1, <1>2, <1>3, <1>4, OrdinaryStep
<1> QED BY <1>1, <1>5, CacheStays DEF NamedStep

\* The end of renameCollection: what is cached for the new name is the schema,
\* and the schema variable of ALTER gets its name.
LEMMA RenamedNamed ==
  ASSUME TypeInv, Named, NEW c \in Conns, Renamed(c), UNCHANGED <<cache, call>>,
         Returned(c), conn[c].pc \in CounterPCs
  PROVE  NamedStep(c)
<1>t. /\ Stays(c) /\ HoldsNamed(c) /\ conn[c] \in Handler /\ HandlerFits(conn[c])
      /\ heap \in [Ptrs -> {None} \cup TableSchema] /\ conn[c].stmt \in Workload
  BY Typed DEF Named, Handler, HandlerFits, CounterPCs
<1> DEFINE to == Opt(c).to
           h == conn[c]
<1>1. /\ h.pc \in RenamePCs /\ h.rest # <<>> /\ Opt(c).op = "rename" /\ to \in Reach(c)
      /\ to # h.tab
  BY <1>t, Reaching DEF CounterPCs, RenamePCs, HandlerFits, Opt, Stays
<1>2. Vacated(c) /\ ~Moving(c) /\ cache[h.tab] = None
  BY <1>t DEF CounterPCs, Vacated, Moving, At, Returned, HoldsNamed
<1>3. /\ conn'[c].pc = "option" /\ conn'[c].stmt = h.stmt /\ conn'[c].rest = Tail(h.rest)
      /\ conn'[c].tab = to /\ conn'[c].ptr = h.ptr
  BY EndsRename
<1>4. h.ptr # None => h.ptr \in Ptrs \ Fresh /\ heap'[h.ptr].name = to
  <2>1. ASSUME h.ptr # None PROVE heap[h.ptr] \in TableSchema /\ h.ptr \in Ptrs
    BY <1>t, <2>1 DEF HandlerFits, Handler
  <2> QED BY <1>t, <2>1, InUse DEF Renamed, TableSchema
<1>5. \A p \in Ptrs : p # h.ptr => heap'[p] = heap[p]
  BY <1>t DEF Renamed
<1>6. call[c].ptr = None /\ call[c].tab = None /\ call[c].at = "returned"
  BY <1>t DEF HoldsNamed, Stays, Returned
<1>7. IsSuffix(Tail(h.rest), h.stmt.opts)
  <2>1. IsSuffix(h.rest, h.stmt.opts) /\ h.stmt.opts \in Seq(Option) /\ h.rest \in Seq(Option)
    BY <1>t, <1>1, StatementShape DEF Stays, RestFits, Handler, RenamePCs
  <2> QED BY <1>1, <2>1, SuffixHead
<1>8. Stays(c)'
  <2>1. Reach(c)' = Reach(c) /\ Changes(c)' = Changes(c)
    BY <1>3 DEF Reach, Changes
  <2>2. "option" \in PCs \ (RenamePCs \cup DataPCs \cup {"idle", "dropDatabase", "start"})
        /\ h.pc \notin DataPCs \cup {"idle"}
    BY <1>1 DEF PCs, RenamePCs, DataPCs
  <2> QED BY <1>t, <1>1, <1>3, <1>6, <1>7, <2>1, <2>2 DEF Stays, RestFits, CallPCs
<1>9. HoldsNamed(c)'
  BY <1>3, <1>4, <1>6 DEF HoldsNamed, CounterPCs, Vacated
<1>10. ASSUME NEW t \in Tables, t \in Reach(c) PROVE OwnNamed(c, t)'
  <2>1. SUFFICES ASSUME cache[t] # None PROVE heap'[cache[t]].name = t
    BY DEF OwnNamed
  <2>2. cache[t] \in Ptrs /\ heap[cache[t]].name = t
    BY <1>2, <1>10, <2>1, OwnCached, InUse DEF NamedFor, OwnNamed
  <2>3. CASE cache[t] = h.ptr
    <3>1. t \in {h.tab, to}
      BY <1>t, <2>1, <2>2, <2>3 DEF HoldsNamed
    <3> QED BY <1>2, <1>4, <2>1, <2>3, <3>1
  <2> QED BY <1>5, <2>2, <2>3
<1> QED BY <1>8, <1>9, <1>10 DEF NamedStep

LEMMA CallNamed ==
  ASSUME TypeInv, Named, NEW c \in Conns, CallStep(c)
  PROVE  NamedStep(c)
<1> DEFINE k == call[c]
           h == conn[c]
<1>t. /\ Stays(c) /\ HoldsNamed(c) /\ k \in Call /\ CallFits(k) /\ h \in Handler
      /\ HandlerFits(h) /\ call \in [Conns -> Call]
      /\ cache \in [Tables -> {None} \cup Ptrs] /\ heap \in [Ptrs -> {None} \cup TableSchema]
  BY Typed DEF Named
<1>c. conn' = conn
  BY DEF CallStep
<1>r. \A p : Return(c, p) => /\ call'[c].at = "returned" /\ call'[c].tab = None
                             /\ call'[c].ptr = p
  BY <1>t DEF Return, NoCall
<1>a. \A at : call' = [call EXCEPT ![c].at = at] =>
        call'[c].at = at /\ call'[c].tab = k.tab /\ call'[c].ptr = k.ptr
  BY <1>t DEF Call
\* The handler waits at the same place for the rest of the call.
<1>s. ASSUME k.at # "returned", call'[c].tab \in {None, k.tab},
             call'[c].at = "returned" => call'[c].tab = None,
             \/ call'[c].at = "returned"
             \/ {k.at, call'[c].at} \subseteq {"lookup", "find", "fill"}
             \/ {k.at, call'[c].at} \subseteq {"upsert", "publish"}
             \/ {k.at, call'[c].at} \subseteq {"evict", "erase"}
      PROVE  Stays(c)'
  <2>1. /\ Reach(c)' = Reach(c) /\ Changes(c)' = Changes(c) /\ RestFits(c)' = RestFits(c)
        /\ Opt(c)' = Opt(c)
    BY <1>c DEF Reach, Changes, RestFits, Opt
  <2>2. h.pc # "idle"
    BY <1>t, <1>s DEF Stays, NoCall
  <2>3. h.pc \in CallPCs(call'[c].at)
    BY <1>t, <1>s DEF Stays, CallPCs, Handler
  <2>4. call'[c].at \in {"upsert", "publish", "evict", "erase"} => Changes(c)
    BY <1>t, <1>s DEF Stays
  <2> QED BY <1>t, <1>c, <1>s, <2>1, <2>2, <2>3, <2>4 DEF Stays
<1>o. \A t \in Tables : t \in Reach(c) => OwnNamed(c, t)
  BY OwnCached DEF NamedFor
<1>n. NamesKept
  BY <1>t DEF CallStep, StoreStep, Lookup, FindMissing, FindDocument, Fill, Upsert, Publish, Evict,
     Erase, NamesKept
<1>u. /\ k.ptr # None => k.ptr \in Ptrs /\ heap'[k.ptr].name = heap[k.ptr].name
      /\ h.ptr # None => heap'[h.ptr].name = heap[h.ptr].name
  BY <1>n, InUse DEF NamesKept
\* HoldsNamed, but for the object of the call and the cache entry.
<1>h. ASSUME call'[c].ptr # None =>
               heap'[call'[c].ptr].name = IF h.pc = "dropOld" THEN Opt(c).to ELSE h.tab,
             h.pc \in CounterPCs => call'[c].ptr = None,
             Vacated(c)' => cache'[h.tab] = None
      PROVE  HoldsNamed(c)'
  BY <1>t, <1>c, <1>h, <1>u DEF HoldsNamed, Opt
<1>1. CASE Lookup(c)
  <2>0. /\ k.at = "lookup" /\ k.tab = h.tab /\ h.tab \in Tables /\ h.tab \in Reach(c)
        /\ h.pc \in {"start", "load", "migrate", "applyDefaults", "updateMany"}
    BY <1>t, <1>1, NoneIsDistinct DEF Lookup, At, Stays, CallPCs, CallFits, Call
  <2>1. ~Moving(c) /\ UNCHANGED cache
    BY <1>1, <2>0 DEF Moving, Lookup
  <2>2. CASE cache[k.tab] # None
    <3>1. /\ call'[c].at = "returned" /\ call'[c].tab = None /\ call'[c].ptr = cache[h.tab]
      BY <1>1, <1>r, <2>0, <2>2 DEF Lookup
    <3>2. heap'[cache[h.tab]].name = h.tab
      BY <1>n, <1>o, <2>0, <2>1, <2>2, InUse DEF OwnNamed, NamesKept
    <3>3. ~Vacated(c)'
      BY <1>c, <2>0, <2>2, <3>1 DEF Vacated, CounterPCs
    <3>4. Stays(c)' /\ HoldsNamed(c)'
      BY <1>s, <1>h, <2>0, <3>1, <3>2, <3>3 DEF CounterPCs
    <3> QED BY <1>n, <2>1, <3>4, CacheStays DEF NamedStep
  <2>3. CASE cache[k.tab] = None
    <3>1. call'[c].at = "find" /\ call'[c].tab = k.tab /\ call'[c].ptr = k.ptr
      BY <1>1, <1>a, <2>3 DEF Lookup
    <3>2. k.ptr # None => heap'[k.ptr].name = h.tab
      BY <1>t, <1>u, <2>0 DEF HoldsNamed
    <3>3. Stays(c)' /\ HoldsNamed(c)'
      BY <1>s, <1>h, <2>0, <2>1, <2>3, <3>1, <3>2 DEF CounterPCs
    <3> QED BY <1>n, <2>1, <3>3, CacheStays DEF NamedStep
  <2> QED BY <2>2, <2>3
<1>2. CASE FindMissing(c)
  <2>0. /\ k.at = "find"
        /\ h.pc \in {"start", "load", "migrate", "applyDefaults", "updateMany"}
    BY <1>t, <1>2 DEF FindMissing, At, Stays, CallPCs
  <2>1. ~Moving(c) /\ UNCHANGED cache
    BY <1>2, <2>0 DEF Moving, FindMissing
  <2>2. call'[c].at = "returned" /\ call'[c].tab = None /\ call'[c].ptr = None
    BY <1>2, <1>r DEF FindMissing
  <2>3. Vacated(c)' => cache[h.tab] = None
    BY <1>t, <1>c, <2>0 DEF Vacated, HoldsNamed, CounterPCs
  <2>4. Stays(c)' /\ HoldsNamed(c)'
    BY <1>s, <1>h, <2>0, <2>1, <2>2, <2>3
  <2> QED BY <1>n, <2>1, <2>4, CacheStays DEF NamedStep
<1>3. ASSUME NEW p \in Fresh, FindDocument(c, p) PROVE NamedStep(c)
  <2>0. /\ k.at = "find" /\ k.tab = h.tab /\ h.tab \in Tables
        /\ h.pc \in {"start", "load", "migrate", "applyDefaults", "updateMany"}
    BY <1>t, <1>3, NoneIsDistinct DEF FindDocument, At, Stays, CallPCs, CallFits, Call
  <2>1. ~Moving(c) /\ UNCHANGED cache
    BY <1>3, <2>0 DEF Moving, FindDocument
  <2>2. call'[c].at = "fill" /\ call'[c].tab = k.tab /\ call'[c].ptr = p
    BY <1>3, <1>t DEF FindDocument, Call
  <2>3. heap'[p].name = h.tab
    BY <1>3, <1>t, <2>0 DEF FindDocument, Fresh
  <2>4. Vacated(c)' => cache[h.tab] = None
    BY <1>t, <1>c, <2>0 DEF Vacated, HoldsNamed, CounterPCs
  <2>5. Stays(c)' /\ HoldsNamed(c)'
    BY <1>s, <1>h, <2>0, <2>1, <2>2, <2>3, <2>4 DEF CounterPCs
  <2> QED BY <1>n, <2>1, <2>5, CacheStays DEF NamedStep
<1>4. CASE Fill(c)
  <2>0. /\ k.at = "fill" /\ k.tab = h.tab /\ h.tab \in Tables /\ k.ptr # None
        /\ h.pc \in {"start", "load", "migrate", "applyDefaults", "updateMany"}
    BY <1>t, <1>4, NoneIsDistinct DEF Fill, At, Stays, CallPCs, CallFits, Call
  <2>1. ~Moving(c) /\ cache' = [cache EXCEPT ![h.tab] = k.ptr]
    BY <1>4, <2>0 DEF Moving, Fill
  <2>2. call'[c].at = "returned" /\ call'[c].tab = None /\ call'[c].ptr = k.ptr
    BY <1>4, <1>r DEF Fill
  <2>3. heap'[k.ptr].name = h.tab
    BY <1>t, <1>u, <2>0 DEF HoldsNamed
  <2>4. ~Vacated(c)'
    BY <1>c, <2>0, <2>2 DEF Vacated, CounterPCs
  <2>5. Stays(c)' /\ HoldsNamed(c)'
    BY <1>s, <1>h, <2>0, <2>2, <2>3, <2>4 DEF CounterPCs
  <2>6. ASSUME NEW t \in Tables, t \in Reach(c) PROVE OwnNamed(c, t)'
    <3>1. CASE t = h.tab
      BY <1>t, <2>1, <2>3, <3>1 DEF OwnNamed
    <3>2. CASE t # h.tab
      BY <1>t, <1>n, <1>o, <2>1, <2>6, <3>2, InUse DEF OwnNamed, NamesKept
    <3> QED BY <3>1, <3>2
  <2> QED BY <2>5, <2>6 DEF NamedStep
<1>5. CASE Upsert(c)
  <2>0. k.at = "upsert" /\ h.pc \in {"createIndexes", "dropOld", "finish"}
    BY <1>t, <1>5 DEF Upsert, At, Stays, CallPCs
  <2>1. call'[c].at = "publish" /\ call'[c].tab = k.tab /\ call'[c].ptr = k.ptr
    BY <1>5, <1>a DEF Upsert
  <2>2. ~Vacated(c)' /\ Moving(c)' = Moving(c) /\ Opt(c)' = Opt(c) /\ UNCHANGED <<cache, heap>>
    BY <1>5, <1>c, <2>0, <2>1 DEF Vacated, CounterPCs, Moving, At, Opt, Upsert
  <2>3. Stays(c)' /\ HoldsNamed(c)'
    BY <1>s, <1>h, <1>t, <2>0, <2>1, <2>2 DEF CounterPCs, HoldsNamed
  <2>4. ASSUME NEW t \in Tables, t \in Reach(c) PROVE OwnNamed(c, t)'
    BY <1>o, <1>c, <2>2, <2>4 DEF OwnNamed
  <2> QED BY <2>3, <2>4 DEF NamedStep
<1>6. CASE Publish(c)
  <2> DEFINE n == heap[k.ptr].name
  <2>0. k.at = "publish" /\ h.pc \in {"createIndexes", "dropOld", "finish"}
    BY <1>t, <1>6 DEF Publish, At, Stays, CallPCs
  <2>1. call'[c].at = "returned" /\ call'[c].tab = None /\ call'[c].ptr = k.ptr
    BY <1>6, <1>r DEF Publish
  <2>2. /\ ~Vacated(c)' /\ Moving(c)' = Moving(c) /\ Opt(c)' = Opt(c) /\ UNCHANGED heap
        /\ cache' = [cache EXCEPT ![n] = k.ptr]
    BY <1>6, <1>c, <2>0, <2>1 DEF Vacated, CounterPCs, Moving, At, Opt, Publish
  <2>3. Stays(c)' /\ HoldsNamed(c)'
    BY <1>s, <1>h, <1>t, <2>0, <2>1, <2>2 DEF CounterPCs, HoldsNamed
  <2>4. ASSUME NEW t \in Tables, t \in Reach(c) PROVE OwnNamed(c, t)'
    <3>1. CASE t = n
      BY <1>t, <2>2, <3>1 DEF OwnNamed
    <3>2. CASE t # n
      BY <1>t, <1>o, <1>c, <2>2, <2>4, <3>2 DEF OwnNamed
    <3> QED BY <3>1, <3>2
  <2> QED BY <2>3, <2>4 DEF NamedStep
<1>7. CASE Evict(c)
  <2>0. /\ k.at = "evict" /\ k.tab = h.tab /\ h.tab \in Tables
        /\ h.pc \in {"dropCounter", "findCounter"}
    BY <1>t, <1>7, NoneIsDistinct DEF Evict, At, Stays, CallPCs, CallFits, Call
  <2>1. call'[c].at = "erase" /\ call'[c].tab = k.tab /\ call'[c].ptr = k.ptr
    BY <1>7, <1>a DEF Evict
  <2>2. UNCHANGED heap /\ cache' = [cache EXCEPT ![h.tab] = None]
    BY <1>7, <2>0 DEF Evict
  <2>3. Stays(c)' /\ HoldsNamed(c)'
    BY <1>s, <1>h, <1>t, <2>0, <2>1, <2>2 DEF CounterPCs, HoldsNamed
  <2>4. ASSUME NEW t \in Tables, t \in Reach(c) PROVE OwnNamed(c, t)'
    <3>1. CASE t = h.tab
      BY <1>t, <2>2, <3>1 DEF OwnNamed
    <3>2. CASE t # h.tab
      BY <1>t, <1>o, <2>2, <2>4, <3>2 DEF OwnNamed
    <3> QED BY <3>1, <3>2
  <2> QED BY <2>3, <2>4 DEF NamedStep
<1>8. CASE Erase(c)
  <2>0. k.at = "erase" /\ h.pc \in {"dropCounter", "findCounter"}
    BY <1>t, <1>8 DEF Erase, At, Stays, CallPCs
  <2>1. call'[c].at = "returned" /\ call'[c].tab = None /\ call'[c].ptr = None
    BY <1>8, <1>r DEF Erase
  <2>2. UNCHANGED <<heap, cache>> /\ ~Moving(c)
    BY <1>8, <2>0 DEF Erase, Moving, At
  <2>3. Vacated(c)' => cache[h.tab] = None
    BY <1>t, <1>c, <2>0 DEF Vacated, HoldsNamed, CounterPCs, At
  <2>4. Stays(c)' /\ HoldsNamed(c)'
    BY <1>s, <1>h, <2>0, <2>1, <2>2, <2>3
  <2> QED BY <1>n, <2>2, <2>4, CacheStays DEF NamedStep
<1> QED BY <1>1, <1>2, <1>3, <1>4, <1>5, <1>6, <1>7, <1>8 DEF CallStep, StoreStep

LEMMA HandleNamed ==
  ASSUME TypeInv, Named, NEW c \in Conns, Handle(c)
  PROVE  NamedStep(c)
<1> DEFINE k == call[c]
           h == conn[c]
<1>t. /\ Stays(c) /\ HoldsNamed(c) /\ k \in Call /\ CallFits(k) /\ h \in Handler
      /\ HandlerFits(h) /\ conn \in [Conns -> Handler] /\ call \in [Conns -> Call]
      /\ heap \in [Ptrs -> {None} \cup TableSchema]
  BY Typed DEF Named
<1>p. /\ \A pc : Running(c, pc) => pc = h.pc /\ Returned(c)
      /\ \A op : AtOption(c, op) => /\ h.pc = "option" /\ Returned(c)
                                    /\ h.rest # <<>> /\ Opt(c).op = op
  BY DEF AtOption, Running, Opt
<1>b. \A op : Begins(c, op) => call'[c] = op
  BY <1>t DEF Begins
<1>g. \A t : GetOf(t).at = "lookup" /\ GetOf(t).tab = t /\ GetOf(t).ptr = None
  BY DEF GetOf
<1>v. \A p : SaveOf(p).at = "upsert" /\ SaveOf(p).tab = None /\ SaveOf(p).ptr = p
  BY DEF SaveOf
<1>d. \A t : DeleteOf(t).at = "evict" /\ DeleteOf(t).tab = t /\ DeleteOf(t).ptr = None
  BY DEF DeleteOf
<1>c. h.pc \notin DataPCs \cup {"idle"} => Changes(c)
  BY <1>t DEF Stays, Changes, HandlerFits
<1>0. "option" \notin RenamePCs \cup {"idle"} \cup DataPCs
  BY DEF RenamePCs, DataPCs
\* The statement ends.
<1>1. CASE /\ Finish(c)
           /\ \/ CheckExists(c) \/ CreateFails(c) \/ CreateIndexes(c) \/ TruncateCreate(c)
              \/ DropWholeDatabase(c) \/ EndOptions(c) \/ Finished(c) \/ RenameFails(c)
              \/ InsertMany(c) \/ UpdateMany(c) \/ DeleteMany(c)
  <2>1. h.pc \notin RenamePCs /\ UNCHANGED <<heap, cache>>
    BY <1>p, <1>1 DEF CheckExists, CreateFails, CreateIndexes, TruncateCreate, DropWholeDatabase,
       EndOptions, Finished, RenameFails, InsertMany, UpdateMany, DeleteMany, RenamePCs
  <2> QED BY <1>1, <2>1, FinishNamed
\* It goes on.
<1>2. CASE CheckExists(c) /\ ~Finish(c)
  <2>1. /\ h.pc = "check" /\ Returned(c) /\ Goto(c, "create") /\ UNCHANGED <<heap, cache, call>>
    BY <1>p, <1>2 DEF CheckExists
  <2> QED BY <2>1, GotoNamed DEF RenamePCs, DataPCs, PCs
<1>3. CASE TruncateDrop(c)
  <2>1. /\ h.pc = "truncate" /\ Returned(c) /\ Goto(c, "recreate") /\ UNCHANGED <<heap, cache, call>>
    BY <1>p, <1>3 DEF TruncateDrop
  <2> QED BY <2>1, GotoNamed DEF RenamePCs, DataPCs, PCs
<1>4. ASSUME NEW p \in Fresh, CreateCollection(c, p)
      PROVE  NamedStep(c)
  <2>0. /\ h.pc = "create" /\ Returned(c) /\ Goto(c, "createIndexes") /\ UNCHANGED cache
        /\ Changes(c) /\ h.tab # None /\ ~Moving(c)
    BY <1>c, <1>p, <1>t, <1>4 DEF CreateCollection, DataPCs, HandlerFits, OneTablePCs, Moving
  <2>1. CASE UNCHANGED <<heap, call>>
    BY <2>0, <2>1, GotoNamed DEF RenamePCs, DataPCs, PCs
  <2>2. CASE /\ heap' = [heap EXCEPT ![p] = [name |-> h.tab, items |-> Lists(h.stmt.items)]]
             /\ Begins(c, SaveOf(p))
    <3>1. NamesKept /\ heap'[p].name = h.tab /\ p \in Ptrs
      BY <1>t, <2>2 DEF NamesKept, Fresh
    <3>2. h.ptr # None => h.ptr \in Ptrs /\ heap'[h.ptr].name = h.tab
      BY <1>t, <2>0, <3>1, InUse DEF HoldsNamed, NamesKept, CounterPCs
    <3>3. call'[c].at = "upsert" /\ call'[c].tab = None /\ call'[c].ptr = p
      BY <1>b, <1>v, <2>2
    <3>4. /\ conn'[c].pc = "createIndexes" /\ conn'[c].stmt = h.stmt /\ conn'[c].rest = h.rest
          /\ conn'[c].tab = h.tab /\ conn'[c].ptr = h.ptr
      BY <2>0, GoesOn
    <3>5. Reach(c)' = Reach(c) /\ Changes(c)' = Changes(c) /\ RestFits(c)' = RestFits(c)
      BY <3>4 DEF Reach, Changes, RestFits
    <3>6. Stays(c)'
      BY <1>t, <2>0, <3>3, <3>4, <3>5 DEF Stays, CallPCs, DataPCs, RenamePCs
    <3>7. HoldsNamed(c)'
      BY <3>1, <3>2, <3>3, <3>4 DEF HoldsNamed, CounterPCs, Vacated
    <3> QED BY <2>0, <3>1, <3>6, <3>7, CacheStays DEF NamedStep
  <2> QED BY <1>4, <2>1, <2>2 DEF CreateCollection
<1>5. CASE AddColumn(c) \/ ModifyColumn(c) \/ DropColumn(c) \/ AddIndex(c) \/ DropKey(c)
  <2>1. h.pc = "option" /\ Returned(c) /\ h.rest # <<>>
    BY <1>p, <1>5 DEF AddColumn, ModifyColumn, DropColumn, AddIndex, DropKey
  <2>2. Loads(c, h.ptr) /\ UNCHANGED <<heap, cache, call>>
    BY <1>5 DEF AddColumn, ModifyColumn, DropColumn, AddIndex, DropKey
  <2> QED BY <1>0, <2>1, <2>2, LoadsNamed
<1>6. CASE Load(c)
  <2>1. h.pc = "load" /\ Returned(c) /\ Loads(c, k.ptr) /\ UNCHANGED <<heap, cache, call>>
    BY <1>p, <1>6 DEF Load
  <2>2. h.rest # <<>> /\ Opt(c).op \in {"createIndex", "removeIndex"} /\ OptionsFit(h)
    BY <1>t, <2>1 DEF HandlerFits, Opt
  <2>3. h.stmt.kind \in {"alter", "index"}
    <3>1. h.rest \in Seq(RenamePair) => Opt(c) \in RenamePair
      BY <2>2 DEF Opt
    <3>2. h.rest \in Seq(DropName) => Opt(c) \in DropName
      BY <2>2 DEF Opt
    <3> QED BY <2>2, <3>1, <3>2 DEF OptionsFit, RenamePair, DropName
  <2>4. h.pc \notin RenamePCs \cup {"idle"} \cup DataPCs
    BY <2>1 DEF RenamePCs, DataPCs
  <2> QED BY <2>1, <2>2, <2>3, <2>4, LoadsNamed
<1>7. CASE Start(c)
  <2>1. /\ h.pc = "start" /\ Returned(c) /\ UNCHANGED <<heap, cache, call>>
        /\ conn' = [conn EXCEPT ![c].pc = "option", ![c].ptr = call[c].ptr]
    BY <1>p, <1>7 DEF Start
  <2>2. /\ conn'[c].pc = "option" /\ conn'[c].stmt = h.stmt /\ conn'[c].rest = h.rest
        /\ conn'[c].tab = h.tab /\ conn'[c].ptr = k.ptr
    BY <1>t, <2>1 DEF Handler
  <2>3. h.stmt.kind = "alter" /\ k.tab = None /\ k.at = "returned" /\ CallPCs(k.at) = PCs
    BY <1>t, <2>1 DEF Stays, Returned, CallPCs
  <2>4. "option" \in PCs /\ "option" \notin {"dropDatabase", "start"}
        /\ h.pc \notin RenamePCs \cup {"idle"} \cup DataPCs
    BY <2>1 DEF PCs, RenamePCs, DataPCs
  <2>5. NamesKept /\ ~Moving(c)
    BY <2>1 DEF NamesKept, Moving
  <2>6. Stays(c)' /\ HoldsNamed(c)'
    BY <1>0, <2>1, <2>2, <2>3, <2>4, <2>5, OrdinaryStep
  <2> QED BY <2>1, <2>5, <2>6, CacheStays DEF NamedStep
<1>8. CASE \/ IndexStatement(c)
           \/ EndOptions(c) /\ ~Finish(c)
           \/ NextAutoIncrement(c) \/ NoAutoIncrement(c)
  <2>1. /\ \/ h.pc = "option" /\ conn'[c].pc \in {"load", "finish"}
           \/ h.pc = "applyDefaults" /\ conn'[c].pc = "insertMany"
        /\ conn'[c].stmt = h.stmt /\ conn'[c].rest = h.rest /\ conn'[c].tab = h.tab
        /\ conn'[c].ptr = h.ptr /\ Returned(c)
    <3>1. CASE IndexStatement(c)
      BY <1>p, <3>1, GoesOn DEF IndexStatement
    <3>2. CASE EndOptions(c) /\ ~Finish(c)
      BY <1>p, <3>2, GoesOn DEF EndOptions
    <3>3. CASE NextAutoIncrement(c) \/ NoAutoIncrement(c)
      BY <1>p, <1>t, <3>3 DEF NextAutoIncrement, NoAutoIncrement, Handler
    <3> QED BY <1>8, <3>1, <3>2, <3>3
  <2>2. UNCHANGED <<heap, cache>> /\ NamesKept /\ ~Moving(c)
    BY <1>8, <2>1 DEF IndexStatement, EndOptions, NextAutoIncrement, NoAutoIncrement, NamesKept,
       Moving
  <2>3. \/ /\ h.pc = "option" /\ conn'[c].pc = "load"
           /\ call'[c].at = "lookup" /\ call'[c].tab = h.tab /\ call'[c].ptr = None
        \/ /\ h.pc = "option" /\ conn'[c].pc = "finish"
           /\ call'[c].at = "upsert" /\ call'[c].tab = None /\ call'[c].ptr = h.ptr
        \/ h.pc = "applyDefaults" /\ call' = call
    <3>1. CASE IndexStatement(c)
      BY <1>p, <1>b, <1>g, <3>1, GoesOn DEF IndexStatement
    <3>2. CASE EndOptions(c) /\ ~Finish(c)
      BY <1>p, <1>b, <1>v, <3>2, GoesOn DEF EndOptions
    <3>3. CASE NextAutoIncrement(c) \/ NoAutoIncrement(c)
      BY <1>p, <3>3 DEF NextAutoIncrement, NoAutoIncrement
    <3> QED BY <1>8, <3>1, <3>2, <3>3
  <2>4. /\ h.pc \notin RenamePCs \cup {"idle"}
        /\ conn'[c].pc \in PCs \ (RenamePCs \cup {"idle", "dropDatabase", "start"})
        /\ conn'[c].pc \in DataPCs <=> h.pc \in DataPCs
    BY <2>1 DEF RenamePCs, PCs, DataPCs
  <2>5. k.tab = None /\ k.at = "returned"
    BY <1>t, <2>1 DEF Stays, Returned
  <2>6. /\ call'[c].ptr \in {None, k.ptr, h.ptr} /\ call'[c].tab \in {None, h.tab}
        /\ call'[c].at = "returned" => call'[c].tab = None
        /\ conn'[c].pc \in CallPCs(call'[c].at)
    BY <2>1, <2>3, <2>4, <2>5 DEF CallPCs
  <2>7. call'[c].at \in {"upsert", "publish", "evict", "erase"} => Changes(c)
    BY <1>0, <1>c, <2>3, <2>5
  <2>8. Stays(c)' /\ HoldsNamed(c)'
    BY <2>1, <2>2, <2>4, <2>6, <2>7, OrdinaryStep
  <2> QED BY <2>2, <2>8, CacheStays DEF NamedStep
<1>9. CASE Store(c) \/ DropCounter(c)
  <2>1. /\ h.pc \in {"store", "dropCounter"} /\ Returned(c) /\ h.rest # <<>>
        /\ conn' = [conn EXCEPT ![c] = NextOption(c)] /\ UNCHANGED <<cache, call>>
    BY <1>p, <1>t, <1>9 DEF Store, DropCounter, HandlerFits
  <2>2. NamesKept
    <3>1. CASE DropCounter(c)
      BY <3>1 DEF DropCounter, NamesKept
    <3>2. CASE Store(c)
      <4>1. h.ptr \in Ptrs /\ heap[h.ptr] \in TableSchema
        BY <1>p, <1>t, <3>2 DEF Store, HandlerFits, Handler
      <4>2. heap' = [heap EXCEPT ![h.ptr].items = Edited(h.seen, Opt(c).op, Opt(c).item)]
        BY <3>2 DEF Store
      <4> QED BY <1>t, <4>1, <4>2 DEF TableSchema, NamesKept
    <3> QED BY <1>9, <3>1, <3>2
  <2>3. h.pc \notin RenamePCs \cup {"idle"} \cup DataPCs
    BY <2>1 DEF RenamePCs, DataPCs
  <2> QED BY <2>1, <2>2, <2>3, NextNamed
<1>10. CASE DropCollection(c)
  <2>1. /\ h.pc = "option" /\ Returned(c) /\ h.rest # <<>> /\ Opt(c).op = "dropTable"
        /\ UNCHANGED <<heap, cache>> /\ Begins(c, DeleteOf(Opt(c).tab))
        /\ conn' = [conn EXCEPT ![c].pc = "dropCounter", ![c].tab = Opt(c).tab]
    BY <1>p, <1>10 DEF DropCollection
  <2>2. /\ conn'[c].pc = "dropCounter" /\ conn'[c].stmt = h.stmt /\ conn'[c].rest = h.rest
        /\ conn'[c].tab = Opt(c).tab /\ conn'[c].ptr = h.ptr
    BY <1>t, <2>1 DEF Handler
  <2>3. call'[c].at = "evict" /\ call'[c].tab = Opt(c).tab /\ call'[c].ptr = None
    BY <1>b, <1>d, <2>1
  <2>4. Opt(c).tab \in Reach(c) /\ Changes(c)
    BY <1>0, <1>c, <1>t, <2>1, Reaching
  <2>5. h.ptr = None
    <3>1. OptionsFit(h)
      BY <1>t DEF HandlerFits
    <3>2. h.rest \notin Seq(AlterOption) /\ h.rest \notin Seq(IndexOption)
      <4>1. Opt(c) \notin AlterOption \cup IndexOption
        BY <2>1 DEF AlterOption, IndexOption
      <4> QED BY <2>1, <4>1 DEF Opt
    <3>3. h.stmt.kind \notin {"alter", "index"}
      BY <2>1, <3>1, <3>2 DEF OptionsFit
    <3> QED BY <1>t, <3>3 DEF Stays
  <2>6. Reach(c)' = Reach(c) /\ Changes(c)' = Changes(c) /\ RestFits(c)' = RestFits(c)
    BY <2>2 DEF Reach, Changes, RestFits
  <2>7. Stays(c)'
    BY <1>t, <2>1, <2>2, <2>3, <2>4, <2>5, <2>6 DEF Stays, CallPCs, DataPCs, RenamePCs
  <2>8. HoldsNamed(c)'
    BY <2>2, <2>3, <2>5 DEF HoldsNamed, CounterPCs, Vacated
  <2>9. NamesKept /\ ~Moving(c)
    BY <2>1 DEF NamesKept, Moving
  <2> QED BY <2>1, <2>7, <2>8, <2>9, CacheStays DEF NamedStep
<1>11. CASE RenameCollection(c)
  <2>1. /\ h.pc = "option" /\ Returned(c) /\ h.rest # <<>> /\ Opt(c).op = "rename"
        /\ UNCHANGED <<heap, cache>> /\ Begins(c, GetOf(From(c))) /\ From(c) # Opt(c).to
        /\ conn' = [conn EXCEPT ![c].pc = "migrate", ![c].tab = From(c)]
    BY <1>p, <1>11 DEF RenameCollection
  <2>2. /\ conn'[c].pc = "migrate" /\ conn'[c].stmt = h.stmt /\ conn'[c].rest = h.rest
        /\ conn'[c].tab = From(c) /\ conn'[c].ptr = h.ptr /\ Opt(c)' = Opt(c)
    BY <1>t, <2>1 DEF Handler, Opt
  <2>3. call'[c].at = "lookup" /\ call'[c].tab = From(c) /\ call'[c].ptr = None
    BY <1>b, <1>g, <2>1
  <2>4. From(c) \in Reach(c) /\ Changes(c)
    BY <1>0, <1>c, <1>t, <2>1, Reaching
  <2>5. h.ptr # None => From(c) = h.tab
    <3>1. OptionsFit(h)
      BY <1>t DEF HandlerFits
    <3>2. h.rest \notin Seq(IndexOption)
      <4>1. Opt(c) \notin IndexOption
        BY <2>1 DEF IndexOption
      <4> QED BY <2>1, <4>1 DEF Opt
    <3>3. h.stmt.kind # "index"
      BY <2>1, <3>1, <3>2 DEF OptionsFit
    <3> QED BY <1>t, <3>3 DEF Stays, From
  <2>6. Reach(c)' = Reach(c) /\ Changes(c)' = Changes(c) /\ RestFits(c)' = RestFits(c)
    BY <2>2 DEF Reach, Changes, RestFits
  <2>7. Stays(c)'
    BY <1>t, <2>1, <2>2, <2>3, <2>4, <2>6 DEF Stays, CallPCs, DataPCs
  <2>8. HoldsNamed(c)'
    BY <1>t, <2>1, <2>2, <2>3, <2>5 DEF HoldsNamed, CounterPCs, Vacated, At, Returned
  <2>9. NamesKept /\ ~Moving(c)
    BY <2>1 DEF NamesKept, Moving
  <2> QED BY <2>1, <2>7, <2>8, <2>9, CacheStays DEF NamedStep
\* The rest of renameCollection.
<1>r. h.pc \in RenamePCs => /\ Opt(c).to \in Tables /\ Opt(c).to \in Reach(c) /\ Changes(c)
                            /\ h.pc \notin DataPCs \cup {"idle"}
                            /\ h.tab \in Tables
  <2> SUFFICES ASSUME h.pc \in RenamePCs
               PROVE  /\ Opt(c).to \in Tables /\ Opt(c).to \in Reach(c) /\ Changes(c)
                      /\ h.pc \notin DataPCs \cup {"idle"} /\ h.tab \in Tables
    OBVIOUS
  <2>1. h.pc \notin DataPCs \cup {"idle"}
    BY DEF RenamePCs, DataPCs
  <2>2. h.rest # <<>> /\ Opt(c).op = "rename" /\ h.tab \in Tables
    BY <1>t DEF HandlerFits, Opt, OneTablePCs, Handler
  <2> QED BY <1>c, <1>t, <2>1, <2>2, OptionAtHand, Reaching
<1>y. ASSUME conn'[c].stmt = h.stmt, conn'[c].rest = h.rest, conn'[c].tab = h.tab,
             conn'[c].ptr = h.ptr, h.pc \in RenamePCs, conn'[c].pc \in RenamePCs,
             call'[c].tab \in {None, h.tab}, conn'[c].pc \in CallPCs(call'[c].at),
             call'[c].at = "returned" => call'[c].tab = None
      PROVE  Stays(c)' /\ Opt(c)' = Opt(c)
  <2>1. /\ Reach(c)' = Reach(c) /\ Changes(c)' = Changes(c) /\ RestFits(c)' = RestFits(c)
        /\ Opt(c)' = Opt(c)
    BY <1>y DEF Reach, Changes, RestFits, Opt
  <2>2. conn'[c].pc \notin DataPCs \cup {"idle", "dropDatabase", "start"}
    BY <1>y DEF RenamePCs, DataPCs
  <2> QED BY <1>r, <1>t, <1>y, <2>1, <2>2 DEF Stays
<1>12. CASE MigrateSchema(c)
  <2>0. h.pc = "migrate" /\ h.pc \in RenamePCs /\ Returned(c) /\ UNCHANGED cache
        /\ ~Moving(c) /\ k.at = "returned" /\ k.tab = None
    BY <1>p, <1>t, <1>12 DEF MigrateSchema, RenamePCs, Moving, Stays, Returned
  <2>1. CASE k.ptr = None
    <3>1. Goto(c, "findCounter") /\ UNCHANGED <<heap, call>>
      BY <1>12, <2>1 DEF MigrateSchema
    <3>2. /\ conn'[c].pc = "findCounter" /\ conn'[c].stmt = h.stmt /\ conn'[c].rest = h.rest
          /\ conn'[c].tab = h.tab /\ conn'[c].ptr = h.ptr
      BY <3>1, GoesOn
    <3>3. Stays(c)' /\ Opt(c)' = Opt(c)
      BY <1>y, <2>0, <3>1, <3>2 DEF RenamePCs, CallPCs, PCs
    <3>4. HoldsNamed(c)'
      BY <1>t, <2>0, <2>1, <3>1, <3>2 DEF HoldsNamed, CounterPCs, Vacated, At, Returned
    <3>5. NamesKept
      BY <3>1 DEF NamesKept
    <3> QED BY <2>0, <3>3, <3>4, <3>5, CacheStays DEF NamedStep
  <2>2. CASE k.ptr # None
    <3> DEFINE to == Opt(c).to
    <3>1. /\ heap' = [heap EXCEPT ![k.ptr].name = to] /\ Goto(c, "dropOld")
          /\ Begins(c, SaveOf(k.ptr))
      BY <1>12, <2>2 DEF MigrateSchema
    <3>2. /\ conn'[c].pc = "dropOld" /\ conn'[c].stmt = h.stmt /\ conn'[c].rest = h.rest
          /\ conn'[c].tab = h.tab /\ conn'[c].ptr = h.ptr
      BY <3>1, GoesOn
    <3>3. call'[c].at = "upsert" /\ call'[c].tab = None /\ call'[c].ptr = k.ptr
      BY <1>b, <1>v, <3>1
    <3>4. Stays(c)' /\ Opt(c)' = Opt(c)
      BY <1>y, <2>0, <3>2, <3>3 DEF RenamePCs, CallPCs
    <3>5. heap'[k.ptr].name = to /\ \A p \in Ptrs : p # k.ptr => heap'[p] = heap[p]
      BY <1>t, <2>2, <3>1 DEF CallFits, Call, TableSchema
    <3>6. HoldsNamed(c)'
      BY <1>t, <2>0, <3>2, <3>3, <3>4, <3>5, InUse DEF HoldsNamed, CounterPCs, Vacated
    <3>7. ASSUME NEW t \in Tables, t \in Reach(c) PROVE OwnNamed(c, t)'
      <4>1. SUFFICES ASSUME cache[t] # None
                     PROVE  \/ heap'[cache[t]].name = t
                            \/ t = h.tab /\ heap'[cache[t]].name = to
        BY <2>0, <3>2, <3>4 DEF OwnNamed, Moving
      <4>2. cache[t] \in Ptrs /\ heap[cache[t]].name = t
        BY <2>0, <3>7, <4>1, OwnCached, InUse DEF NamedFor, OwnNamed
      <4>3. heap[k.ptr].name = h.tab
        BY <1>t, <2>0, <2>2 DEF HoldsNamed
      <4> QED BY <3>5, <4>2, <4>3
    <3> QED BY <3>4, <3>6, <3>7 DEF NamedStep
  <2> QED BY <2>1, <2>2
<1>13. CASE DropOldSchema(c)
  <2>1. /\ h.pc = "dropOld" /\ h.pc \in RenamePCs /\ Returned(c) /\ UNCHANGED <<heap, cache>>
        /\ Goto(c, "findCounter") /\ Begins(c, DeleteOf(h.tab))
    BY <1>p, <1>13 DEF DropOldSchema, RenamePCs
  <2>2. /\ conn'[c].pc = "findCounter" /\ conn'[c].stmt = h.stmt /\ conn'[c].rest = h.rest
        /\ conn'[c].tab = h.tab /\ conn'[c].ptr = h.ptr
    BY <2>1, GoesOn
  <2>3. call'[c].at = "evict" /\ call'[c].tab = h.tab /\ call'[c].ptr = None
    BY <1>b, <1>d, <2>1
  <2>4. Stays(c)' /\ Opt(c)' = Opt(c)
    BY <1>y, <2>1, <2>2, <2>3 DEF RenamePCs, CallPCs
  <2>5. HoldsNamed(c)'
    BY <1>t, <2>1, <2>2, <2>3, <2>4 DEF HoldsNamed, CounterPCs, Vacated, At
  <2>6. ASSUME NEW t \in Tables, t \in Reach(c) PROVE OwnNamed(c, t)'
    <3>1. Moving(c) /\ Moving(c)'
      BY <2>1, <2>2, <2>3 DEF Moving, At
    <3> QED BY <2>1, <2>2, <2>4, <2>6, <3>1, OwnCached DEF NamedFor, OwnNamed
  <2> QED BY <2>4, <2>5, <2>6 DEF NamedStep
<1>14. CASE SetCounter(c) \/ (FindCounter(c) /\ ~Renamed(c))
  <2>1. /\ h.pc \in CounterPCs /\ h.pc \in RenamePCs /\ Returned(c)
        /\ UNCHANGED <<heap, cache, call>>
    BY <1>p, <1>14 DEF SetCounter, FindCounter, CounterPCs, RenamePCs
  <2>2. /\ conn'[c].pc \in {"setCounter", "deleteCounter"} /\ conn'[c].stmt = h.stmt
        /\ conn'[c].rest = h.rest /\ conn'[c].tab = h.tab /\ conn'[c].ptr = h.ptr
    <3>1. CASE SetCounter(c)
      BY <3>1, GoesOn DEF SetCounter
    <3>2. CASE FindCounter(c) /\ ~Renamed(c)
      BY <1>t, <3>2 DEF FindCounter, Handler
    <3> QED BY <1>14, <3>1, <3>2
  <2>3. k.tab = None /\ k.at = "returned"
    BY <1>t, <2>1 DEF Stays, Returned
  <2>4. Stays(c)' /\ Opt(c)' = Opt(c)
    BY <1>y, <2>1, <2>2, <2>3 DEF RenamePCs, CallPCs, PCs
  <2>5. Vacated(c)
    BY <2>1 DEF Vacated, CounterPCs, At, Returned
  <2>6. HoldsNamed(c)'
    BY <1>t, <2>1, <2>2, <2>4, <2>5 DEF HoldsNamed, CounterPCs
  <2>7. NamesKept /\ ~Moving(c)
    BY <2>1 DEF NamesKept, Moving, CounterPCs, At, Returned
  <2> QED BY <2>1, <2>4, <2>6, <2>7, CacheStays DEF NamedStep
<1>15. CASE Renamed(c) /\ (FindCounter(c) \/ DeleteCounter(c))
  <2>1. h.pc \in CounterPCs /\ Returned(c) /\ UNCHANGED <<cache, call>>
    BY <1>p, <1>15 DEF FindCounter, DeleteCounter, CounterPCs
  <2> QED BY <1>15, <2>1, RenamedNamed
<1> QED
  BY <1>1, <1>2, <1>3, <1>4, <1>5, <1>6, <1>7, <1>8, <1>9, <1>10, <1>11, <1>12, <1>13, <1>14,
     <1>15 DEF Handle, CreateFails, CreateIndexes, TruncateCreate, DropWholeDatabase, Finished,
     RenameFails, InsertMany, UpdateMany, DeleteMany, DeleteCounter

\* A round trip that fails changes nothing but the handler's state.
LEMMA FaultKeeps ==
  ASSUME TypeInv, Named, NEW c \in Conns, Fault(c)
  PROVE  Keeps(c)
<1>t. /\ Stays(c) /\ HoldsNamed(c) /\ conn \in [Conns -> Handler] /\ call \in [Conns -> Call]
      /\ conn[c] \in Handler /\ HandlerFits(conn[c]) /\ heap \in [Ptrs -> {None} \cup TableSchema]
  BY Typed DEF Named
<1>1. /\ UNCHANGED <<cache, docs, colls, rows, phys, seq>>
      /\ \A d \in Conns \ {c} : conn'[d] = conn[d] /\ call'[d] = call[d]
  BY <1>t DEF Fault, HandlerFault, StoreFault, mongoVars, Return, Finish, Goto, Loads, Begins,
     Renamed
<1>2. \A p \in Ptrs : heap'[p] = heap[p] \/ (Changes(c) /\ p \in Owned(c))
  <2>1. CASE UNCHANGED heap
    BY <2>1
  <2>2. CASE conn[c].pc \in {"findCounter", "deleteCounter"} /\ Renamed(c)
    <3>1. Changes(c)
      BY <1>t, <2>2 DEF Stays, Changes, HandlerFits, DataPCs
    <3> QED BY <1>t, <2>2, <3>1 DEF Renamed, Owned
  <2> QED BY <2>1, <2>2 DEF Fault, HandlerFault, StoreFault
<1>3. conn'[c].stmt \in {None, conn[c].stmt}
  <2>1. \A pc : Goto(c, pc) => conn'[c].stmt = conn[c].stmt
    BY GoesOn
  <2>2. Finish(c) => conn'[c].stmt = None
    BY Ends
  <2>3. Loads(c, conn[c].ptr) => conn'[c].stmt = conn[c].stmt
    BY LoadsOn
  <2>4. conn' = [conn EXCEPT ![c] = NextOption(c)] => conn'[c].stmt = conn[c].stmt
    BY GoesToNext
  <2>5. Renamed(c) => conn'[c].stmt = conn[c].stmt
    BY EndsRename
  <2> QED BY <2>1, <2>2, <2>3, <2>4, <2>5 DEF Fault, HandlerFault
<1> QED BY <1>1, <1>2, <1>3 DEF Keeps

LEMMA FaultNamed ==
  ASSUME TypeInv, Named, NEW c \in Conns, Fault(c)
  PROVE  NamedStep(c)
<1> DEFINE k == call[c]
           h == conn[c]
<1>t. /\ Stays(c) /\ HoldsNamed(c) /\ k \in Call /\ h \in Handler /\ HandlerFits(h)
      /\ conn \in [Conns -> Handler] /\ call \in [Conns -> Call]
  BY Typed DEF Named
<1>0. UNCHANGED cache
  BY DEF Fault, HandlerFault, StoreFault
<1>o. \A op : AtOption(c, op) => h.pc = "option" /\ h.rest # <<>> /\ Opt(c).op = op
  BY DEF AtOption, Running, Opt
<1>n. {"option", "check"} \cap (RenamePCs \cup {"idle"} \cup DataPCs) = {}
  BY DEF RenamePCs, DataPCs
\* A call that fails returns nil, and the handler goes on.
<1>1. CASE StoreFault(c) /\ UNCHANGED <<colls, rows, phys, seq, conn>>
  <2>1. /\ call'[c].at = "returned" /\ call'[c].tab = None /\ call'[c].ptr = None
        /\ k.at \in {"find", "upsert", "erase"} /\ UNCHANGED <<heap, cache, conn>>
    BY <1>t, <1>1 DEF StoreFault, Return, NoCall
  <2>2. /\ Reach(c)' = Reach(c) /\ Changes(c)' = Changes(c) /\ RestFits(c)' = RestFits(c)
        /\ Opt(c)' = Opt(c)
    BY <2>1 DEF Reach, Changes, RestFits, Opt
  <2>3. h.pc # "idle"
    BY <1>t, <2>1 DEF Stays, NoCall
  <2>4. Stays(c)'
    BY <1>t, <2>1, <2>2, <2>3 DEF Stays, CallPCs, Handler
  <2>5. Vacated(c)' => Vacated(c)
    BY <1>t, <2>1 DEF Vacated, At, Returned, Stays, CallPCs
  <2>6. HoldsNamed(c)'
    BY <1>t, <2>1, <2>2, <2>5 DEF HoldsNamed
  <2>7. Moving(c)' <=> Moving(c)
    BY <2>1 DEF Moving, At
  <2>8. ASSUME NEW t \in Tables, t \in Reach(c) PROVE OwnNamed(c, t)'
    BY <2>1, <2>2, <2>7, <2>8, OwnCached DEF NamedFor, OwnNamed
  <2> QED BY <2>4, <2>6, <2>8 DEF NamedStep
<1>2. CASE HandlerFault(c)
  <2>0. Returned(c)
    BY <1>2 DEF HandlerFault
  <2>1. CASE /\ \/ h.pc \in AbortsOnError
                \/ h.pc = "applyDefaults" /\ NeedsId(c)
                \/ AtOption(c, "rename")
                \/ AtOption(c, "dropTable") /\ ~h.stmt.flag
             /\ Finish(c) /\ UNCHANGED heap
    <3>1. h.pc \notin RenamePCs
      BY <1>o, <2>1 DEF AbortsOnError, RenamePCs
    <3> QED BY <1>0, <2>1, <3>1, FinishNamed
  <2>2. CASE h.pc = "check" /\ Goto(c, "create") /\ UNCHANGED <<heap, call>>
    BY <1>0, <2>0, <2>2, GotoNamed DEF RenamePCs, DataPCs, PCs
  <2>3. CASE /\ \/ h.pc = "dropCounter"
                \/ AtOption(c, "dropTable") /\ h.stmt.flag
             /\ conn' = [conn EXCEPT ![c] = NextOption(c)]
             /\ UNCHANGED <<heap, call>>
    <3>1. h.rest # <<>> /\ h.pc \notin RenamePCs \cup {"idle"} \cup DataPCs
      BY <1>t, <1>o, <2>3 DEF HandlerFits, RenamePCs, DataPCs
    <3>2. NamesKept
      BY <2>3 DEF NamesKept
    <3> QED BY <1>0, <2>0, <2>3, <3>1, <3>2, NextNamed
  <2>4. CASE /\ \E op \in {"drop", "addIndex", "dropIndex"} : AtOption(c, op)
             /\ Loads(c, h.ptr) /\ UNCHANGED <<heap, call>>
    BY <1>0, <1>n, <1>o, <2>0, <2>4, LoadsNamed
  <2>5. CASE /\ \E op \in {"createIndex", "removeIndex"} : AtOption(c, op)
             /\ Goto(c, "load") /\ Begins(c, GetOf(h.tab)) /\ UNCHANGED heap
    <3>1. /\ conn'[c].pc = "load" /\ conn'[c].stmt = h.stmt /\ conn'[c].rest = h.rest
          /\ conn'[c].tab = h.tab /\ conn'[c].ptr = h.ptr /\ h.pc = "option"
      BY <1>o, <2>5, GoesOn
    <3>2. call'[c].at = "lookup" /\ call'[c].tab = h.tab /\ call'[c].ptr = None
      BY <1>t, <2>5 DEF Begins, GetOf
    <3>3. /\ "load" \in PCs \ (RenamePCs \cup {"idle", "dropDatabase", "start"})
          /\ "load" \notin DataPCs
      BY DEF PCs, RenamePCs, DataPCs
    <3>4. NamesKept /\ ~Moving(c)
      BY <2>5, <3>1 DEF NamesKept, Moving
    <3>5. "load" \in CallPCs("lookup")
      BY DEF CallPCs
    <3>6. Stays(c)' /\ HoldsNamed(c)'
      BY <1>0, <1>n, <3>1, <3>2, <3>3, <3>4, <3>5, OrdinaryStep
    <3> QED BY <1>0, <3>4, <3>6, CacheStays DEF NamedStep
  <2>6. CASE h.pc = "setCounter" /\ Goto(c, "deleteCounter") /\ UNCHANGED <<heap, call>>
    <3>1. /\ conn'[c].pc = "deleteCounter" /\ conn'[c].stmt = h.stmt /\ conn'[c].rest = h.rest
          /\ conn'[c].tab = h.tab /\ conn'[c].ptr = h.ptr
      BY <2>6, GoesOn
    <3>2. /\ Reach(c)' = Reach(c) /\ Changes(c)' = Changes(c) /\ RestFits(c)' = RestFits(c)
          /\ Opt(c)' = Opt(c)
      BY <3>1 DEF Reach, Changes, RestFits, Opt
    <3>3. k.tab = None /\ k.at = "returned" /\ UNCHANGED call
      BY <1>t, <2>0, <2>6 DEF Stays, Returned
    <3>4. Stays(c)'
      BY <1>t, <2>6, <3>1, <3>2, <3>3 DEF Stays, CallPCs, PCs, DataPCs, RenamePCs
    <3>5. HoldsNamed(c)'
      BY <1>t, <1>0, <2>6, <3>1, <3>2, <3>3 DEF HoldsNamed, CounterPCs, Vacated
    <3>6. NamesKept /\ ~Moving(c)
      BY <2>6 DEF NamesKept, Moving
    <3> QED BY <1>0, <3>4, <3>5, <3>6, CacheStays DEF NamedStep
  <2>7. CASE h.pc \in {"findCounter", "deleteCounter"} /\ Renamed(c) /\ UNCHANGED call
    BY <1>0, <2>0, <2>7, RenamedNamed DEF CounterPCs
  <2> QED BY <1>2, <2>1, <2>2, <2>3, <2>4, <2>5, <2>6, <2>7 DEF HandlerFault
<1> QED BY <1>1, <1>2 DEF Fault

\* The table and the calls a statement starts with are its own.
LEMMA BeginsOwn ==
  ASSUME NEW s \in Workload
  PROVE  /\ s.tab # None => s.tab \in TablesOf(s)
         /\ FirstStep(s) \in DataPCs <=> ~IsDDL(s)
         /\ FirstStep(s) = "dropDatabase" => s.kind = "dropDatabase"
         /\ FirstStep(s) = "start" => s.kind = "alter"
         /\ FirstStep(s) \notin {"finish", "insertMany", "createIndexes"}
         /\ FirstStep(s) \in CallPCs(FirstCall(s).at)
         /\ FirstCall(s).tab \in {None, s.tab} /\ FirstCall(s).ptr = None
         /\ FirstCall(s).at = "returned" => FirstCall(s).tab = None
         /\ FirstCall(s).at \notin {"upsert", "publish", "evict", "erase"}
<1>1. /\ s.kind \in {"create", "truncate", "update", "delete", "insert", "alter", "index",
                      "rename", "drop", "dropDatabase"}
      /\ s.kind \in {"rename", "drop", "dropDatabase"} => s.tab = None
  <2>1. ASSUME NEW ks, NEW ts, NEW fs, NEW os, NEW is, s \in StatementOf(ks, ts, fs, os, is)
        PROVE  s.kind \in ks /\ s.tab \in ts
    BY <2>1 DEF StatementOf
  <2>2. s \in Statement
    BY WorkloadAssumption
  <2>3. CASE s \in StatementOf({"create"}, Tables, BOOLEAN, {<<>>}, {0})
    BY <2>1, <2>3
  <2>4. CASE s \in StatementOf({"truncate", "update", "delete"}, Tables, {FALSE}, {<<>>}, {0})
    BY <2>1, <2>4
  <2>5. CASE s \in StatementOf({"insert"}, Tables, {FALSE}, {<<>>}, Nat)
    BY <2>1, <2>5
  <2>6. CASE s \in StatementOf({"alter"}, Tables, {FALSE}, Seq(AlterOption), {0})
    BY <2>1, <2>6
  <2>7. CASE s \in StatementOf({"index"}, Tables, {FALSE}, {<<o>> : o \in IndexOption}, {0})
    BY <2>1, <2>7
  <2>8. CASE s \in StatementOf({"rename"}, {None}, {FALSE}, Seq(RenamePair), {0})
    BY <2>1, <2>8
  <2>9. CASE s \in StatementOf({"drop"}, {None}, BOOLEAN, Seq(DropName), {0})
    BY <2>1, <2>9
  <2>10. CASE s \in StatementOf({"dropDatabase"}, {None}, {FALSE}, {<<>>}, {0})
    BY <2>1, <2>10
  <2> QED
    BY <2>2, <2>3, <2>4, <2>5, <2>6, <2>7, <2>8, <2>9, <2>10, Zenon DEF Statement
<1>2. s.tab # None => s.tab \in TablesOf(s)
  BY <1>1 DEF TablesOf
<1> QED BY <1>1, <1>2 DEF FirstStep, FirstCall, DataPCs, IsDDL, CallPCs, PCs, NoCall, GetOf

LEMMA BeginNamed ==
  ASSUME Serial, TypeInv, Named, NEW c \in Conns, NEW s \in Workload, Begin(c, s)
  PROVE  Named'
<1>t. /\ conn \in [Conns -> Handler] /\ call \in [Conns -> Call]
      /\ s # None /\ s.opts \in Seq(Option) /\ FirstStep(s) \notin RenamePCs
      /\ FirstStep(s) \notin {"idle"}
  BY Typed, StatementShape
<1>1. /\ conn[c].pc = "idle" /\ ~Overlaps(s)
      /\ UNCHANGED <<heap, cache>>
      /\ \A d \in Conns \ {c} : conn'[d] = conn[d] /\ call'[d] = call[d]
      /\ conn'[c].pc = FirstStep(s) /\ conn'[c].stmt = s /\ conn'[c].rest = s.opts
      /\ conn'[c].tab = s.tab /\ conn'[c].ptr = None
      /\ call'[c] = FirstCall(s)
  BY <1>t DEF Begin, Begins
<1>2. /\ \A d \in Conns \ {c} : /\ Reach(d)' = Reach(d) /\ (Changes(d)' <=> Changes(d))
                                /\ Opt(d)' = Opt(d) /\ (RestFits(d)' <=> RestFits(d))
      /\ Reach(c)' = TablesOf(s) /\ (Changes(c)' <=> IsDDL(s))
  BY <1>t, <1>1 DEF Reach, Changes, Opt, RestFits
<1>3. Apart'
  <2>1. ASSUME NEW d \in Conns \ {c}, Changes(d) \/ IsDDL(s)
        PROVE  Reach(d) \cap TablesOf(s) = {}
    BY <1>1, <2>1 DEF Overlaps, Reach, Changes
  <2> QED BY <1>2, <2>1 DEF Named, Apart
<1>4. ASSUME NEW d \in Conns \ {c} PROVE Stays(d)' /\ HoldsNamed(d)'
  <2>1. Stays(d)'
    BY <1>1, <1>2 DEF Named, Stays
  <2>2. HoldsNamed(d)'
    BY <1>1, <1>2 DEF Named, HoldsNamed, Vacated, At, Returned
  <2> QED BY <2>1, <2>2
<1>5. Stays(c)' /\ HoldsNamed(c)'
  <2>1. RestFits(c)'
    BY <1>t, <1>1, WholeIsSuffix DEF RestFits
  <2>2. Stays(c)'
    BY <1>t, <1>1, <1>2, <2>1, BeginsOwn DEF Stays
  <2>3. HoldsNamed(c)'
    BY <1>t, <1>1, BeginsOwn DEF HoldsNamed, Vacated, RenamePCs, CounterPCs
  <2> QED BY <2>2, <2>3
<1>6. ASSUME NEW t \in Tables PROVE CacheNamed(t)'
  <2>1. \A d \in Conns : Moving(d) => d # c /\ Moving(d)'
    BY <1>1 DEF Moving, At
  <2> QED BY <1>1, <1>2, <2>1 DEF Named, CacheNamed
<1> QED BY <1>3, <1>4, <1>5, <1>6 DEF Named

LEMMA StartNamed ==
  ASSUME conn = [c \in Conns |-> Idle], call = [c \in Conns |-> NoCall],
         cache = [t \in Tables |-> None]
  PROVE  Named
<1>1. \A c \in Conns : Stays(c) /\ HoldsNamed(c) /\ ~Changes(c)
  BY DEF Idle, NoCall, Stays, HoldsNamed, Vacated, RenamePCs, CounterPCs, At, Returned, DataPCs,
     CallPCs, PCs, Changes
<1> QED BY <1>1 DEF Named, Apart, CacheNamed

\* Apart means what Settled says: no other statement touches a table at hand.
LEMMA NamedAgrees ==
  ASSUME TypeInv, Named
  PROVE  NamesAgree
<1> SUFFICES ASSUME NEW t \in Tables, Settled(t), cache[t] # None
             PROVE  heap[cache[t]].name = t
  BY DEF NamesAgree
<1>1. ASSUME NEW c \in Conns, Moving(c), t = conn[c].tab PROVE FALSE
  <2>1. t \in Reach(c) /\ Changes(c)
    BY <1>1, Typed, NoneIsDistinct DEF Named, Stays, Moving, DataPCs, Changes, HandlerFits
  <2> QED BY <2>1 DEF Settled, Reach, Changes
<1> QED BY <1>1 DEF Named, CacheNamed

LEMMA NamedStutter ==
  ASSUME Named, UNCHANGED vars
  PROVE  Named'
BY DEF vars, Named, Apart, Changes, Reach, Stays, RestFits, Opt, HoldsNamed, Vacated, At,
   Returned, CacheNamed, Moving

LEMMA NamedKept ==
  ASSUME Serial, TypeInv, Named, [Next]_vars
  PROVE  Named'
<1>1. ASSUME NEW c \in Conns, NEW s \in Workload, Begin(c, s) PROVE Named'
  BY <1>1, BeginNamed
<1>2. ASSUME NEW c \in Conns, CallStep(c) PROVE Named'
  BY <1>2, CallKeeps, CallNamed, NamedNext DEF NamedStep
<1>3. ASSUME NEW c \in Conns, Handle(c) PROVE Named'
  BY <1>3, HandleKeeps, HandleNamed, NamedNext DEF NamedStep
<1>4. ASSUME NEW c \in Conns, Fault(c) PROVE Named'
  BY <1>4, FaultKeeps, FaultNamed, NamedNext DEF NamedStep
<1>5. CASE Restart
  <2>1. /\ conn' = [c \in Conns |-> Idle] /\ call' = [c \in Conns |-> NoCall]
        /\ cache' = [t \in Tables |-> None]
    BY <1>5 DEF Restart
  <2>2. \A c \in Conns : (Stays(c) /\ HoldsNamed(c))' /\ ~Changes(c)'
    BY <2>1 DEF Idle, NoCall, Stays, HoldsNamed, Vacated, RenamePCs, CounterPCs, At, Returned,
       DataPCs, CallPCs, PCs, Changes
  <2> QED BY <2>1, <2>2 DEF Named, Apart, CacheNamed
<1>6. CASE UNCHANGED vars
  BY <1>6, NamedStutter
<1> QED BY <1>1, <1>2, <1>3, <1>4, <1>5, <1>6 DEF Next, Quiet

LEMMA NamedInvariant ==
  ASSUME Serial
  PROVE  Spec => []Named
<1>1. Init => Named
  BY StartNamed DEF Init, StoreInit
<1>2. TypeInv /\ Named /\ [Next]_vars => Named'
  BY NamedKept
<1> QED BY <1>1, <1>2, ShapeCorrect, PTL DEF Spec

\* Between two DDL statements a cached schema carries the name it is cached
\* under, whatever the statements, with crashes and failed round trips at any
\* moment: ApplyDefaults draws from the counter of the table it inserts into.
THEOREM NamesCorrect ==
  ASSUME Serial
  PROVE  Spec => []NamesAgree
<1>1. TypeInv /\ Named => NamesAgree
  BY NamedAgrees
<1> QED BY <1>1, ShapeCorrect, NamedInvariant, PTL

----------------------------------------------------------------------------
(* The cache agrees with MongoDB between two DDL statements.  While one is *)
(* at work the cache may be ahead of MongoDB or behind it, and Open says   *)
(* where: only there may the two differ.                                   *)

\* DROP DATABASE leaves the cache alone, and an ALTER TABLE whose RENAME comes
\* after another option returns without Save if the RENAME fails.
Orderly ==
  \A s \in Workload :
    /\ s.kind # "dropDatabase"
    /\ s.kind = "alter" => \A k \in DOMAIN s.opts : s.opts[k].op = "rename" => k = 1

\* c is in the middle of a change of t's schema.
Open(c, t) ==
  \/ conn[c].pc = "createIndexes" /\ At(c, "publish") /\ t = conn[c].tab
  \/ /\ conn[c].pc \in {"option", "store", "finish"} /\ t = conn[c].tab
     /\ conn[c].ptr # None /\ conn[c].rest # conn[c].stmt.opts
     /\ ~(conn[c].pc = "finish" /\ Returned(c))
  \/ conn[c].pc = "dropOld" /\ (t = conn[c].tab \/ (t = Opt(c).to /\ ~Returned(c)))
  \/ conn[c].pc = "findCounter" /\ At(c, "evict") /\ t = conn[c].tab

\* The schema variable of a handler is the cached object of the table at hand.
HoldsCached(c) ==
  LET p == conn[c].ptr
  IN /\ conn[c].pc = "finish" => p # None /\ conn[c].rest # conn[c].stmt.opts
     /\ conn[c].pc = "dropCounter" => p = None
     /\ /\ conn[c].pc \in {"option", "load"} /\ conn[c].rest # <<>>
        /\ conn[c].stmt.kind = "index"
        => p = None
     /\ p # None =>
          /\ conn[c].pc \in {"option", "store", "finish", "migrate", "dropOld"}
               => cache[conn[c].tab] = p
          /\ conn[c].pc \in {"finish", "dropOld"} => call[c].ptr = p
          /\ conn[c].pc \in CounterPCs \/ (conn[c].pc = "dropOld" /\ Returned(c))
               => cache[Opt(c).to] = p

\* So is what Get returns, as long as the table is left alone.
GetsCached(c) ==
  /\ conn[c].pc \in {"start", "load", "migrate"} /\ Returned(c) /\ call[c].ptr # None
       => cache[conn[c].tab] = call[c].ptr
  /\ At(c, "fill") => heap[call[c].ptr].items = docs[call[c].tab]
  /\ At(c, "publish") => docs[heap[call[c].ptr].name] = heap[call[c].ptr].items
  /\ At(c, "erase") => cache[call[c].tab] = None

Coherent ==
  /\ \A t \in Tables : CoherentOn(t) \/ \E c \in Conns : Open(c, t)
  /\ \A c \in Conns : HoldsCached(c) /\ GetsCached(c)

CoherentInv == faults = 0 => Coherent

LEMMA OpenReached ==
  ASSUME TypeInv, Named, NEW c \in Conns, NEW t \in Tables, Open(c, t)
  PROVE  Changes(c) /\ t \in Reach(c)
<1>t. Stays(c) /\ HandlerFits(conn[c])
  BY Typed DEF Named
<1>1. conn[c].pc \notin DataPCs \cup {"idle"}
  BY DEF Open, DataPCs
<1>2. Changes(c)
  BY <1>t, <1>1 DEF Stays, Changes, HandlerFits
<1>3. CASE t = conn[c].tab
  BY <1>t, <1>2, <1>3, NoneIsDistinct DEF Stays
<1>4. CASE conn[c].pc = "dropOld" /\ t = Opt(c).to
  <2>1. conn[c].rest # <<>> /\ Opt(c).op = "rename"
    BY <1>t, <1>4 DEF HandlerFits, RenamePCs, Opt
  <2> QED BY <1>t, <1>1, <1>2, <1>4, <2>1, Reaching
<1> QED BY <1>3, <1>4 DEF Open

\* Nobody else is in the middle of a change of a table that c works on.
LEMMA OwnOpen ==
  ASSUME TypeInv, Named, Coherent, NEW c \in Conns, NEW t \in Tables, t \in Reach(c)
  PROVE  CoherentOn(t) \/ Open(c, t)
<1>1. ASSUME NEW d \in Conns, Open(d, t), d # c PROVE FALSE
  BY <1>1, OpenReached DEF Named, Apart
<1> QED BY <1>1 DEF Coherent

\* The tables of c's renameCollection are its own.
LEMMA RenameReach ==
  ASSUME TypeInv, Named, NEW c \in Conns, conn[c].pc \in RenamePCs
  PROVE  /\ Opt(c).to \in Tables /\ Opt(c).to \in Reach(c)
         /\ conn[c].tab \in Tables /\ conn[c].tab \in Reach(c)
         /\ Changes(c) /\ Opt(c).to # conn[c].tab
<1>t. Stays(c) /\ HandlerFits(conn[c]) /\ conn[c] \in Handler
  BY Typed DEF Named
<1>1. conn[c].rest # <<>> /\ Opt(c).op = "rename" /\ conn[c].pc # "idle"
  BY <1>t DEF HandlerFits, Opt, RenamePCs
<1>2. conn[c].tab \in Tables
  BY <1>t DEF HandlerFits, OneTablePCs, Handler
<1>3. Changes(c)
  BY <1>t DEF Stays, Changes, HandlerFits, RenamePCs, DataPCs
<1> QED BY <1>t, <1>1, <1>2, <1>3, OptionAtHand, Reaching, OwnTable, NoneIsDistinct DEF Stays

LEMMA CoherentFrame ==
  ASSUME TypeInv, Named, Coherent, NEW c \in Conns, Keeps(c)
  PROVE  /\ \A d \in Conns \ {c} : HoldsCached(d)' /\ GetsCached(d)'
         /\ \A t \in Tables \ Reach(c) : CoherentOn(t)' \/ \E d \in Conns : Open(d, t)'
<1>1. ASSUME NEW d \in Conns \ {c} PROVE HoldsCached(d)' /\ GetsCached(d)'
  <2>t. /\ Stays(d) /\ HandlerFits(conn[d]) /\ CallFits(call[d]) /\ HoldsNamed(d)
        /\ HoldsCached(d) /\ GetsCached(d) /\ call[d] \in Call
    BY Typed DEF Named, Coherent
  <2>1. conn'[d] = conn[d] /\ call'[d] = call[d] /\ Opt(d)' = Opt(d)
    BY DEF Keeps, Opt
  <2>2. ASSUME NEW t \in Tables, t \in Reach(d)
        PROVE  /\ Changes(d) => cache'[t] = cache[t]
               /\ docs'[t] = docs[t]
    <3>1. Changes(d) \/ Changes(c) => t \notin Reach(c)
      BY <2>2 DEF Named, Apart
    <3> QED BY <3>1 DEF Keeps
  <2>3. conn[d].tab # None => conn[d].tab \in Tables /\ conn[d].tab \in Reach(d)
    BY <2>t, OwnTable
  <2>4. HoldsCached(d)'
    <3>1. SUFFICES ASSUME conn[d].ptr # None
                   PROVE  /\ conn[d].pc \in {"option", "store", "finish", "migrate", "dropOld"}
                               => cache'[conn[d].tab] = cache[conn[d].tab]
                          /\ conn[d].pc \in CounterPCs \cup {"dropOld"}
                               => cache'[Opt(d).to] = cache[Opt(d).to]
      BY <2>t, <2>1 DEF HoldsCached, Returned
    <3>2. Changes(d)
      BY <2>t, <3>1 DEF Stays
    <3>3. conn[d].tab # None => cache'[conn[d].tab] = cache[conn[d].tab]
      BY <2>2, <2>3, <3>2
    <3>4. conn[d].pc \in {"option", "store", "finish", "migrate", "dropOld"} => conn[d].tab # None
      <4>1. conn[d].ptr \in Ptrs /\ heap[conn[d].ptr] \in TableSchema
        BY <2>t, <3>1, HeldNames DEF Owned
      <4>2. heap[conn[d].ptr].name \in Tables
        BY <4>1 DEF TableSchema
      <4>3. conn[d].pc = "dropOld" => conn[d].tab \in Tables
        BY RenameReach DEF RenamePCs
      <4> QED BY <2>t, <3>1, <4>2, <4>3, NoneIsDistinct DEF HoldsNamed, CounterPCs
    <3>5. conn[d].pc \in CounterPCs \cup {"dropOld"} => cache'[Opt(d).to] = cache[Opt(d).to]
      BY <2>2, <3>2, RenameReach DEF CounterPCs, RenamePCs
    <3> QED BY <3>3, <3>4, <3>5
  <2>5. GetsCached(d)'
    <3>1. conn[d].pc \in {"start", "load", "migrate"} => cache'[conn[d].tab] = cache[conn[d].tab]
      <4>1. conn[d].pc \in {"start", "load", "migrate"} => conn[d].tab # None /\ Changes(d)
        BY <2>t DEF HandlerFits, OneTablePCs, RenamePCs, Stays, Changes, DataPCs
      <4> QED BY <2>2, <2>3, <4>1
    <3>2. call[d].tab # None => call[d].tab \in Tables /\ call[d].tab \in Reach(d)
      BY <2>t, <2>3 DEF Stays
    <3>3. call[d].ptr # None => heap'[call[d].ptr] = heap[call[d].ptr]
                                /\ heap[call[d].ptr].name \in Tables
                                /\ heap[call[d].ptr].name \in Reach(d)
      <4> SUFFICES ASSUME call[d].ptr # None
                   PROVE  /\ heap'[call[d].ptr] = heap[call[d].ptr]
                          /\ heap[call[d].ptr].name \in Tables
                          /\ heap[call[d].ptr].name \in Reach(d)
        OBVIOUS
      <4>1. call[d].ptr \in Owned(d)
        BY DEF Owned
      <4> QED BY <2>t, <4>1, Undisturbed, HeldNames DEF TableSchema
    <3>4. At(d, "fill") => /\ heap'[call[d].ptr] = heap[call[d].ptr]
                           /\ docs'[call[d].tab] = docs[call[d].tab]
      BY <2>t, <2>2, <3>2, <3>3 DEF At, CallFits
    <3>5. At(d, "publish") => /\ heap'[call[d].ptr] = heap[call[d].ptr]
                              /\ docs'[heap[call[d].ptr].name] = docs[heap[call[d].ptr].name]
      BY <2>t, <2>2, <3>3 DEF At, CallFits
    <3>6. At(d, "erase") => cache'[call[d].tab] = cache[call[d].tab]
      BY <2>t, <2>2, <3>2 DEF At, CallFits, Stays
    <3> QED BY <2>t, <2>1, <3>1, <3>4, <3>5, <3>6 DEF GetsCached, At, Returned
  <2> QED BY <2>4, <2>5
<1>2. ASSUME NEW t \in Tables \ Reach(c) PROVE CoherentOn(t)' \/ \E d \in Conns : Open(d, t)'
  <2>1. CASE CoherentOn(t)
    <3>1. /\ cache'[t] = cache[t] /\ docs'[t] = docs[t]
          /\ cache[t] # None => heap'[cache[t]] = heap[cache[t]]
      BY Undisturbed DEF Keeps
    <3> QED BY <2>1, <3>1 DEF CoherentOn
  <2>2. ASSUME NEW d \in Conns, Open(d, t) PROVE Open(d, t)'
    <3>1. d # c
      BY <2>2, OpenReached
    <3>2. conn'[d] = conn[d] /\ call'[d] = call[d]
      BY <3>1 DEF Keeps
    <3> QED BY <2>2, <3>2 DEF Open, At, Returned, Opt
  <2> QED BY <2>1, <2>2 DEF Coherent
<1> QED BY <1>1, <1>2

\* What a step of c has to show.
CoherentStep(c) ==
  /\ HoldsCached(c)' /\ GetsCached(c)'
  /\ \A t \in Tables : t \in Reach(c) => CoherentOn(t)' \/ Open(c, t)'

LEMMA CoherentNext ==
  ASSUME TypeInv, Named, Coherent, NEW c \in Conns, Keeps(c), CoherentStep(c)
  PROVE  Coherent'
BY CoherentFrame DEF Coherent, CoherentStep

\* A step that changes neither the cache, nor a document, nor an object in use.
LEMMA CacheAndDocsStay ==
  ASSUME TypeInv, Named, Coherent, NEW c \in Conns, cache' = cache, docs' = docs,
         \A p \in Ptrs \ Fresh : heap'[p] = heap[p],
         HoldsCached(c)', GetsCached(c)',
         \A t \in Tables : Open(c, t) => Open(c, t)'
  PROVE  CoherentStep(c)
<1>1. ASSUME NEW t \in Tables, CoherentOn(t) PROVE CoherentOn(t)'
  BY <1>1, InUse DEF CoherentOn
<1> QED BY <1>1, OwnOpen DEF CoherentStep

LEMMA CallCoherent ==
  ASSUME TypeInv, Named, Coherent, NEW c \in Conns, CallStep(c)
  PROVE  CoherentStep(c)
<1> DEFINE k == call[c]
           h == conn[c]
<1>t. /\ Stays(c) /\ HoldsNamed(c) /\ HoldsCached(c) /\ GetsCached(c)
      /\ k \in Call /\ CallFits(k) /\ h \in Handler /\ HandlerFits(h)
      /\ call \in [Conns -> Call] /\ docs \in [Tables -> {None} \cup Listing]
      /\ cache \in [Tables -> {None} \cup Ptrs] /\ heap \in [Ptrs -> {None} \cup TableSchema]
  BY Typed DEF Named, Coherent
<1>c. conn' = conn /\ Opt(c)' = Opt(c)
  BY DEF CallStep, Opt
<1>r. \A p : Return(c, p) => /\ call'[c].at = "returned" /\ call'[c].tab = None
                             /\ call'[c].ptr = p
  BY <1>t DEF Return, NoCall
<1>a. \A at : call' = [call EXCEPT ![c].at = at] =>
        call'[c].at = at /\ call'[c].tab = k.tab /\ call'[c].ptr = k.ptr
  BY <1>t DEF Call
<1>o. \A t \in Tables : t \in Reach(c) => CoherentOn(t) \/ Open(c, t)
  BY OwnOpen
\* Where Get is called nothing is open, and a schema variable is not around.
<1>g. h.pc \in {"start", "load", "migrate", "applyDefaults", "updateMany"} =>
        /\ \A t : ~Open(c, t)
        /\ k.at \in {"lookup", "find", "fill"} /\ cache' = cache => HoldsCached(c)'
  BY <1>t, <1>c DEF Open, HoldsCached, CounterPCs, Stays, CallPCs
<1>1. CASE Lookup(c)
  <2>0. /\ k.at = "lookup" /\ k.tab = h.tab /\ UNCHANGED <<heap, cache, docs>>
        /\ h.pc \in {"start", "load", "migrate", "applyDefaults", "updateMany"}
    BY <1>t, <1>1 DEF Lookup, At, Stays, CallPCs, CallFits
  <2>1. GetsCached(c)'
    <3>1. CASE cache[k.tab] # None
      <4>1. call'[c].at = "returned" /\ call'[c].ptr = cache[h.tab]
        BY <1>1, <1>r, <2>0, <3>1 DEF Lookup
      <4> QED BY <1>c, <2>0, <4>1 DEF GetsCached, At
    <3>2. CASE cache[k.tab] = None
      <4>1. call'[c].at = "find"
        BY <1>1, <1>a, <3>2 DEF Lookup
      <4> QED BY <1>c, <2>0, <4>1 DEF GetsCached, At, Returned
    <3> QED BY <3>1, <3>2
  <2> QED BY <1>g, <2>0, <2>1, CacheAndDocsStay
<1>2. CASE FindMissing(c)
  <2>0. /\ k.at = "find" /\ UNCHANGED <<heap, cache, docs>>
        /\ h.pc \in {"start", "load", "migrate", "applyDefaults", "updateMany"}
    BY <1>t, <1>2 DEF FindMissing, At, Stays, CallPCs
  <2>1. call'[c].at = "returned" /\ call'[c].ptr = None
    BY <1>2, <1>r DEF FindMissing
  <2>2. GetsCached(c)'
    BY <2>1 DEF GetsCached, At
  <2> QED BY <1>g, <2>0, <2>2, CacheAndDocsStay
<1>3. ASSUME NEW p \in Fresh, FindDocument(c, p) PROVE CoherentStep(c)
  <2>0. /\ k.at = "find" /\ k.tab \in Tables /\ UNCHANGED <<cache, docs>>
        /\ h.pc \in {"start", "load", "migrate", "applyDefaults", "updateMany"}
        /\ heap' = [heap EXCEPT ![p] = [name |-> k.tab, items |-> docs[k.tab]]]
    BY <1>t, <1>3 DEF FindDocument, At, Stays, CallPCs, CallFits, Call
  <2>1. call'[c].at = "fill" /\ call'[c].tab = k.tab /\ call'[c].ptr = p
    BY <1>3, <1>t DEF FindDocument, Call
  <2>2. heap'[p].items = docs[k.tab] /\ \A q \in Ptrs \ Fresh : heap'[q] = heap[q]
    BY <1>t, <2>0 DEF Fresh
  <2>3. GetsCached(c)'
    BY <2>0, <2>1, <2>2 DEF GetsCached, At, Returned
  <2> QED BY <1>g, <2>0, <2>2, <2>3, CacheAndDocsStay
<1>4. CASE Fill(c)
  <2>0. /\ k.at = "fill" /\ k.tab = h.tab /\ h.tab \in Tables /\ k.ptr \in Ptrs
        /\ h.pc \in {"start", "load", "migrate", "applyDefaults", "updateMany"}
        /\ UNCHANGED <<heap, docs>> /\ cache' = [cache EXCEPT ![h.tab] = k.ptr]
        /\ heap[k.ptr] \in TableSchema
    BY <1>t, <1>4, NoneIsDistinct DEF Fill, At, Stays, CallPCs, CallFits, Call
  <2>1. call'[c].at = "returned" /\ call'[c].ptr = k.ptr
    BY <1>4, <1>r DEF Fill
  <2>2. cache'[h.tab] = k.ptr
    BY <1>t, <2>0
  <2>3. heap[k.ptr] = [name |-> h.tab, items |-> docs[h.tab]]
    <3>1. heap[k.ptr].name = h.tab /\ heap[k.ptr].items = docs[h.tab]
      BY <1>t, <2>0, NoneIsDistinct DEF HoldsNamed, GetsCached, At
    <3> QED BY <2>0, <3>1 DEF TableSchema
  <2>4. GetsCached(c)'
    BY <1>c, <2>1, <2>2 DEF GetsCached, At
  \* In the middle of a rename nothing is cached under the old name.
  <2>5. HoldsCached(c)'
    <3>1. h.pc = "migrate" => cache[h.tab] = None
      BY <1>t, <2>0 DEF HoldsNamed, Vacated
    <3>2. h.pc = "migrate" => h.ptr = None
      BY <1>t, <3>1 DEF HoldsCached
    <3> QED BY <1>t, <1>c, <2>0, <3>2 DEF HoldsCached, CounterPCs
  <2>6. ASSUME NEW t \in Tables, t \in Reach(c) PROVE CoherentOn(t)'
    <3>1. CASE t = h.tab
      BY <2>0, <2>2, <2>3, <3>1 DEF CoherentOn
    <3>2. CASE t # h.tab
      BY <1>g, <1>o, <1>t, <2>0, <2>6, <3>2 DEF CoherentOn
    <3> QED BY <3>1, <3>2
  <2> QED BY <2>4, <2>5, <2>6 DEF CoherentStep
\* Between the two steps of Save the table is open.
<1>5. CASE Upsert(c)
  <2> DEFINE s == heap[k.ptr]
  <2>0. /\ k.at = "upsert" /\ h.pc \in {"createIndexes", "dropOld", "finish"}
        /\ UNCHANGED <<heap, cache>> /\ docs' = [docs EXCEPT ![s.name] = s.items]
        /\ s \in TableSchema
    BY <1>t, <1>5 DEF Upsert, At, Stays, CallPCs, CallFits, Call
  <2>1. call'[c].at = "publish" /\ call'[c].tab = k.tab /\ call'[c].ptr = k.ptr
    BY <1>5, <1>a DEF Upsert
  <2>2. s.name = IF h.pc = "dropOld" THEN Opt(c).to ELSE h.tab
    BY <1>t, <2>0 DEF HoldsNamed, CallFits
  <2>3. s.name \in Tables /\ docs'[s.name] = s.items
    BY <1>t, <2>0 DEF TableSchema
  <2>4. GetsCached(c)'
    BY <1>c, <2>0, <2>1, <2>3 DEF GetsCached, At, Returned
  <2>5. HoldsCached(c)'
    BY <1>t, <1>c, <2>0, <2>1 DEF HoldsCached, Returned, CounterPCs
  <2>6. ASSUME NEW t \in Tables, t \in Reach(c) PROVE CoherentOn(t)' \/ Open(c, t)'
    <3>1. CASE t = s.name
      BY <1>t, <1>c, <2>0, <2>1, <2>2, <3>1 DEF Open, At, Returned, HoldsCached
    <3>2. CASE t # s.name /\ CoherentOn(t)
      BY <1>t, <2>0, <3>2 DEF CoherentOn
    <3>3. CASE Open(c, t)
      BY <1>c, <2>0, <2>1, <3>3 DEF Open, At, Returned
    <3> QED BY <1>o, <2>6, <3>1, <3>2, <3>3
  <2> QED BY <2>4, <2>5, <2>6 DEF CoherentStep
<1>6. CASE Publish(c)
  <2> DEFINE s == heap[k.ptr]
  <2>0. /\ k.at = "publish" /\ h.pc \in {"createIndexes", "dropOld", "finish"}
        /\ UNCHANGED <<heap, docs>> /\ cache' = [cache EXCEPT ![s.name] = k.ptr]
        /\ s \in TableSchema /\ k.ptr \in Ptrs
    BY <1>t, <1>6 DEF Publish, At, Stays, CallPCs, CallFits, Call
  <2>1. call'[c].at = "returned" /\ call'[c].ptr = k.ptr
    BY <1>6, <1>r DEF Publish
  <2>2. s.name = IF h.pc = "dropOld" THEN Opt(c).to ELSE h.tab
    BY <1>t, <2>0 DEF HoldsNamed, CallFits
  <2>3. s.name \in Tables /\ cache'[s.name] = k.ptr
    BY <1>t, <2>0 DEF TableSchema
  <2>4. s = [name |-> s.name, items |-> docs[s.name]]
    BY <1>t, <2>0 DEF GetsCached, At, TableSchema
  <2>5. GetsCached(c)'
    BY <1>c, <2>0, <2>1 DEF GetsCached, At
  <2>6. HoldsCached(c)'
    <3>1. h.pc = "dropOld" => Opt(c).to # h.tab
      BY <1>t DEF Stays, RenamePCs
    <3>2. h.ptr # None /\ h.pc = "finish" => cache'[h.tab] = h.ptr
      BY <1>t, <2>2, <2>3 DEF HoldsCached
    <3>3. h.ptr # None /\ h.pc = "dropOld" =>
            cache'[h.tab] = h.ptr /\ cache'[Opt(c).to] = h.ptr
      BY <1>t, <2>0, <2>2, <2>3, <3>1, RenameReach DEF HoldsCached, RenamePCs
    <3> QED BY <1>t, <1>c, <2>0, <2>1, <3>2, <3>3 DEF HoldsCached, CounterPCs
  <2>7. ASSUME NEW t \in Tables, t \in Reach(c) PROVE CoherentOn(t)' \/ Open(c, t)'
    <3>1. CASE t = s.name
      BY <2>0, <2>3, <2>4, <3>1 DEF CoherentOn
    <3>2. CASE t # s.name /\ CoherentOn(t)
      BY <1>t, <2>0, <3>2 DEF CoherentOn
    <3>3. CASE t # s.name /\ Open(c, t)
      BY <1>c, <2>0, <2>1, <2>2, <3>3 DEF Open, At, Returned
    <3> QED BY <1>o, <2>7, <3>1, <3>2, <3>3
  <2> QED BY <2>5, <2>6, <2>7 DEF CoherentStep
<1>7. CASE Evict(c)
  <2>0. /\ k.at = "evict" /\ k.tab = h.tab /\ h.tab \in Tables
        /\ h.pc \in {"dropCounter", "findCounter"} /\ UNCHANGED <<heap, docs>>
        /\ cache' = [cache EXCEPT ![h.tab] = None]
    BY <1>t, <1>7, NoneIsDistinct DEF Evict, At, Stays, CallPCs, CallFits, Call
  <2>1. call'[c].at = "erase" /\ call'[c].tab = h.tab /\ cache'[h.tab] = None
    BY <1>7, <1>a, <1>t, <2>0 DEF Evict
  <2>2. GetsCached(c)'
    BY <2>1 DEF GetsCached, At, Returned
  <2>3. HoldsCached(c)'
    <3>1. h.pc = "findCounter" => Opt(c).to \in Tables /\ Opt(c).to # h.tab
      BY RenameReach DEF RenamePCs
    <3> QED BY <1>t, <1>c, <2>0, <3>1 DEF HoldsCached, CounterPCs
  <2>4. ASSUME NEW t \in Tables, t \in Reach(c) PROVE CoherentOn(t)'
    <3>1. CASE t = h.tab
      BY <2>1, <3>1 DEF CoherentOn
    <3>2. CASE t # h.tab
      BY <1>o, <1>t, <2>0, <2>4, <3>2 DEF CoherentOn, Open
    <3> QED BY <3>1, <3>2
  <2> QED BY <2>2, <2>3, <2>4 DEF CoherentStep
<1>8. CASE Erase(c)
  <2>0. /\ k.at = "erase" /\ h.pc \in {"dropCounter", "findCounter"} /\ UNCHANGED <<heap, cache>>
        /\ docs' = [docs EXCEPT ![k.tab] = None] /\ cache[k.tab] = None
    BY <1>t, <1>8 DEF Erase, At, Stays, CallPCs, GetsCached
  <2>1. call'[c].at = "returned" /\ call'[c].ptr = None
    BY <1>8, <1>r DEF Erase
  <2>2. GetsCached(c)'
    BY <2>1 DEF GetsCached, At
  <2>3. HoldsCached(c)'
    BY <1>t, <1>c, <2>0 DEF HoldsCached
  <2>4. ASSUME NEW t \in Tables, t \in Reach(c) PROVE CoherentOn(t)'
    <3>1. CoherentOn(t)
      BY <1>o, <2>0, <2>4 DEF Open, At
    <3> QED BY <1>t, <2>0, <3>1 DEF CoherentOn
  <2> QED BY <2>2, <2>3, <2>4 DEF CoherentStep
<1> QED BY <1>1, <1>2, <1>3, <1>4, <1>5, <1>6, <1>7, <1>8 DEF CallStep, StoreStep

LEMMA IndexHasOne == \A s \in Workload : s.kind = "index" => Len(s.opts) = 1
<1> SUFFICES ASSUME NEW s \in Workload, s.kind = "index" PROVE Len(s.opts) = 1
  OBVIOUS
<1>1. s \in Statement
  BY WorkloadAssumption
<1>2. ASSUME NEW ks, NEW ts, NEW fs, NEW os, NEW is, s \in StatementOf(ks, ts, fs, os, is)
      PROVE  s.kind \in ks /\ s.opts \in os
  BY <1>2 DEF StatementOf
<1>3. s \in StatementOf({"index"}, Tables, {FALSE}, {<<o>> : o \in IndexOption}, {0})
  <2>1. s \notin StatementOf({"create"}, Tables, BOOLEAN, {<<>>}, {0})
    BY <1>2
  <2>2. s \notin StatementOf({"truncate", "update", "delete"}, Tables, {FALSE}, {<<>>}, {0})
    BY <1>2
  <2>3. s \notin StatementOf({"insert"}, Tables, {FALSE}, {<<>>}, Nat)
    BY <1>2
  <2>4. s \notin StatementOf({"alter"}, Tables, {FALSE}, Seq(AlterOption), {0})
    BY <1>2
  <2>5. s \notin StatementOf({"rename"}, {None}, {FALSE}, Seq(RenamePair), {0})
    BY <1>2
  <2>6. s \notin StatementOf({"drop"}, {None}, BOOLEAN, Seq(DropName), {0})
    BY <1>2
  <2>7. s \notin StatementOf({"dropDatabase"}, {None}, {FALSE}, {<<>>}, {0})
    BY <1>2
  <2> QED BY <1>1, <2>1, <2>2, <2>3, <2>4, <2>5, <2>6, <2>7, Zenon DEF Statement
<1>4. s.opts \in {<<o>> : o \in IndexOption}
  BY <1>2, <1>3
<1> QED BY <1>4

\* Options are taken one by one: after the first the rest is not the whole.
LEMMA TailIsLess ==
  ASSUME NEW S, NEW s \in Seq(S), NEW r \in Seq(S), r # <<>>, IsSuffix(r, s)
  PROVE  Tail(r) # s
<1>1. Len(Tail(r)) = Len(r) - 1 /\ Len(r) \in Nat /\ Len(r) <= Len(s) /\ Len(s) \in Nat
  BY DEF IsSuffix
<1> QED BY <1>1

LEMMA TailOfOne ==
  ASSUME NEW S, NEW r \in Seq(S), Len(r) = 1
  PROVE  Tail(r) = <<>>
<1>1. Tail(r) \in Seq(S) /\ Len(Tail(r)) = 0
  BY r # <<>>
<1> QED BY <1>1, EmptySeq

\* A RENAME in an ALTER TABLE is its first option, and CREATE INDEX and DROP
\* INDEX have one option.
LEMMA FirstOption ==
  ASSUME TypeInv, Named, Orderly, NEW c \in Conns, conn[c].pc # "idle", conn[c].rest # <<>>,
         \/ conn[c].stmt.kind = "alter" /\ Opt(c).op = "rename"
         \/ conn[c].stmt.kind = "index"
  PROVE  conn[c].rest = conn[c].stmt.opts
<1> DEFINE s == conn[c].stmt
           r == conn[c].rest
<1>1. /\ s \in Workload /\ s.opts \in Seq(Option) /\ r \in Seq(Option) /\ IsSuffix(r, s.opts)
  BY Typed, StatementShape DEF Named, Stays, RestFits, Handler
<1>2. /\ Len(s.opts) - Len(r) + 1 \in DOMAIN s.opts
      /\ Opt(c) = s.opts[Len(s.opts) - Len(r) + 1]
  BY <1>1, SuffixHead DEF Opt
<1>3. Len(r) = Len(s.opts)
  <2>1. CASE s.kind = "alter" /\ Opt(c).op = "rename"
    <3>1. Len(s.opts) - Len(r) + 1 = 1
      BY <1>1, <1>2, <2>1 DEF Orderly
    <3> QED BY <1>1, <3>1
  <2>2. CASE s.kind = "index"
    <3>1. Len(s.opts) = 1
      BY <1>1, <2>2, IndexHasOne
    <3> QED BY <1>1, <3>1 DEF IsSuffix
  <2> QED BY <2>1, <2>2
<1>4. \A i \in 1..Len(r) : r[i] = s.opts[i]
  BY <1>1, <1>3 DEF IsSuffix
<1> QED BY <1>1, <1>3, <1>4

LEMMA HandleCoherent ==
  ASSUME TypeInv, Named, Coherent, Orderly, NEW c \in Conns, Handle(c)
  PROVE  CoherentStep(c)
<1> DEFINE k == call[c]
           h == conn[c]
<1>t. /\ Stays(c) /\ HoldsNamed(c) /\ HoldsCached(c) /\ GetsCached(c)
      /\ k \in Call /\ CallFits(k) /\ h \in Handler /\ HandlerFits(h)
      /\ call \in [Conns -> Call] /\ conn \in [Conns -> Handler]
      /\ cache \in [Tables -> {None} \cup Ptrs] /\ heap \in [Ptrs -> {None} \cup TableSchema]
  BY Typed DEF Named, Coherent
<1>p. /\ \A pc : Running(c, pc) => pc = h.pc /\ Returned(c)
      /\ \A op : AtOption(c, op) => /\ h.pc = "option" /\ Returned(c)
                                    /\ h.rest # <<>> /\ Opt(c).op = op
  BY DEF AtOption, Running, Opt
<1>b. \A op : Begins(c, op) => call'[c] = op
  BY <1>t DEF Begins
<1>g. \A t : GetOf(t).at = "lookup" /\ GetOf(t).tab = t /\ GetOf(t).ptr = None
  BY DEF GetOf
<1>v. \A p : SaveOf(p).at = "upsert" /\ SaveOf(p).tab = None /\ SaveOf(p).ptr = p
  BY DEF SaveOf
<1>d. \A t : DeleteOf(t).at = "evict" /\ DeleteOf(t).tab = t /\ DeleteOf(t).ptr = None
  BY DEF DeleteOf
<1>o. \A t \in Tables : t \in Reach(c) => CoherentOn(t) \/ Open(c, t)
  BY OwnOpen
\* The first option finds nothing open.
<1>f. h.rest = h.stmt.opts /\ h.pc = "option" => \A t : ~Open(c, t)
  BY DEF Open
\* DROP TABLE and RENAME TABLE have no schema variable.
<1>w. ASSUME h.rest # <<>>, h.pc # "idle", h.ptr # None
      PROVE  /\ Opt(c).op # "dropTable"
             /\ Opt(c).op = "rename" => h.stmt.kind = "alter"
  <2>1. OptionsFit(h) /\ h.stmt.kind \in {"alter", "index"}
    BY <1>t, <1>w DEF HandlerFits, Stays
  <2>2. \/ h.stmt.kind = "alter" /\ Opt(c) \in AlterOption
        \/ h.stmt.kind = "index" /\ Opt(c) \in IndexOption
    BY <1>w, <2>1 DEF OptionsFit, Opt
  <2> QED BY <2>1, <2>2 DEF AlterOption, IndexOption
\* The statement ends.
<1>1. CASE /\ Finish(c)
           /\ \/ CheckExists(c) \/ CreateFails(c) \/ CreateIndexes(c) \/ TruncateCreate(c)
              \/ EndOptions(c) \/ Finished(c) \/ RenameFails(c)
              \/ InsertMany(c) \/ UpdateMany(c) \/ DeleteMany(c)
  <2>1. /\ UNCHANGED <<heap, cache, docs>> /\ Returned(c)
        /\ \/ h.pc \in {"check", "create", "createIndexes", "recreate", "finish", "insertMany",
                        "updateMany", "deleteMany"}
           \/ h.pc = "option" /\ (h.ptr = None \/ h.stmt.opts = <<>>) /\ h.rest = <<>>
           \/ h.pc = "option" /\ h.rest # <<>> /\ Opt(c).op = "rename"
    <3>1. UNCHANGED <<heap, cache, docs>>
      BY <1>1 DEF CheckExists, CreateFails, CreateIndexes, TruncateCreate, EndOptions, Finished,
         RenameFails, InsertMany, UpdateMany, DeleteMany, mongoVars
    <3>2. CASE EndOptions(c) /\ Finish(c)
      <4>1. h.pc = "option" /\ Returned(c) /\ h.rest = <<>>
        BY <1>p, <3>2 DEF EndOptions
      <4>2. h.ptr # None /\ h.stmt.opts # <<>> => FALSE
        BY <3>2, <4>1, GoesOn, Ends DEF EndOptions
      <4> QED BY <3>1, <4>1, <4>2
    <3> QED BY <1>p, <1>1, <3>1, <3>2 DEF CheckExists, CreateFails, CreateIndexes, TruncateCreate,
         Finished, RenameFails, InsertMany, UpdateMany, DeleteMany
  <2>2. ASSUME NEW t \in Tables PROVE ~Open(c, t)
    <3>1. CASE h.pc = "option" /\ h.rest # <<>> /\ Opt(c).op = "rename"
      BY <1>f, <1>w, <3>1, FirstOption DEF Open
    <3>2. CASE h.pc = "option" /\ (h.ptr = None \/ h.stmt.opts = <<>>) /\ h.rest = <<>>
      BY <3>2 DEF Open
    <3> QED BY <2>1, <3>1, <3>2 DEF Open, At, Returned
  <2>3. HoldsCached(c)' /\ GetsCached(c)'
    BY <1>1, Ends DEF HoldsCached, GetsCached, At, CounterPCs
  <2> QED BY <2>1, <2>2, <2>3, CacheAndDocsStay
\* Nothing is open, and nothing becomes so.
<1>2. CASE \/ CheckExists(c) /\ ~Finish(c)
           \/ TruncateDrop(c)
           \/ NextAutoIncrement(c) \/ NoAutoIncrement(c)
           \/ \E p \in Fresh : CreateCollection(c, p)
  <2>1. /\ UNCHANGED <<cache, docs>> /\ \A p \in Ptrs \ Fresh : heap'[p] = heap[p]
        /\ h.pc \in {"check", "truncate", "applyDefaults", "create"} /\ Returned(c)
    BY <1>p, <1>t, <1>2 DEF CheckExists, TruncateDrop, NextAutoIncrement, NoAutoIncrement,
       CreateCollection, mongoVars
  <2>2. /\ conn'[c].pc \in {"create", "recreate", "insertMany", "createIndexes"}
        /\ call'[c].at \in {"returned", "upsert"}
    <3>1. CASE CheckExists(c) /\ ~Finish(c)
      BY <1>p, <3>1, GoesOn DEF CheckExists, Returned
    <3>2. CASE TruncateDrop(c)
      BY <1>p, <3>2, GoesOn DEF TruncateDrop, Returned
    <3>3. CASE NextAutoIncrement(c) \/ NoAutoIncrement(c)
      BY <1>p, <1>t, <3>3 DEF NextAutoIncrement, NoAutoIncrement, Handler, Returned
    <3>4. CASE \E p \in Fresh : CreateCollection(c, p)
      BY <1>p, <1>b, <1>v, <3>4, GoesOn DEF CreateCollection, Returned
    <3> QED BY <1>2, <3>1, <3>2, <3>3, <3>4
  <2>3. HoldsCached(c)' /\ GetsCached(c)'
    BY <2>2 DEF HoldsCached, GetsCached, At, CounterPCs
  <2>4. \A t : ~Open(c, t)
    BY <2>1 DEF Open
  <2> QED BY <2>1, <2>3, <2>4, CacheAndDocsStay
<1>3. CASE AddColumn(c) \/ ModifyColumn(c) \/ DropColumn(c) \/ AddIndex(c) \/ DropKey(c)
  <2>1. /\ h.pc = "option" /\ Returned(c) /\ h.rest # <<>>
        /\ Loads(c, h.ptr) /\ UNCHANGED <<heap, cache, docs, call>>
        /\ Opt(c).op \in {"add", "modify", "drop", "addIndex", "dropIndex"}
    BY <1>p, <1>3 DEF AddColumn, ModifyColumn, DropColumn, AddIndex, DropKey, Indexed, Unindexed,
       mongoVars
  <2>2. /\ conn'[c].stmt = h.stmt /\ conn'[c].tab = h.tab /\ conn'[c].ptr = h.ptr
        /\ IF h.ptr = None THEN conn'[c].pc = "option" /\ conn'[c].rest = Tail(h.rest)
                           ELSE conn'[c].pc = "store" /\ conn'[c].rest = h.rest
    BY <2>1, LoadsOn
  <2>3. HoldsCached(c)'
    BY <1>t, <2>1, <2>2 DEF HoldsCached, CounterPCs
  <2>4. GetsCached(c)'
    BY <2>1, <2>2 DEF GetsCached, At, Returned
  <2>5. ASSUME NEW t \in Tables, Open(c, t) PROVE Open(c, t)'
    BY <2>1, <2>2, <2>5 DEF Open
  <2> QED BY <2>1, <2>3, <2>4, <2>5, CacheAndDocsStay
<1>4. CASE IndexStatement(c)
  <2>1. /\ h.pc = "option" /\ Returned(c) /\ h.rest # <<>> /\ Goto(c, "load")
        /\ Opt(c).op \in {"createIndex", "removeIndex"} /\ UNCHANGED <<heap, cache, docs>>
        /\ Begins(c, GetOf(h.tab))
    BY <1>p, <1>4 DEF IndexStatement
  <2>2. h.stmt.kind = "index"
    <3>1. OptionsFit(h)
      BY <1>t DEF HandlerFits
    <3>2. Opt(c) \notin AlterOption \cup RenamePair \cup DropName
      BY <2>1 DEF AlterOption, RenamePair, DropName
    <3> QED BY <2>1, <3>1, <3>2 DEF OptionsFit, Opt
  <2>3. h.ptr = None
    BY <1>t, <2>1, <2>2 DEF HoldsCached
  <2>4. conn'[c].pc = "load" /\ conn'[c].ptr = None /\ call'[c].at = "lookup"
    BY <1>b, <1>g, <2>1, <2>3, GoesOn
  <2>5. HoldsCached(c)' /\ GetsCached(c)'
    BY <2>4 DEF HoldsCached, GetsCached, At, Returned
  <2>6. \A t : ~Open(c, t)
    BY <2>1, <2>3 DEF Open
  <2> QED BY <2>1, <2>5, <2>6, CacheAndDocsStay
<1>5. CASE Load(c)
  <2>1. /\ h.pc = "load" /\ Returned(c) /\ Loads(c, k.ptr) /\ UNCHANGED <<heap, cache, docs, call>>
        /\ h.rest # <<>>
    BY <1>p, <1>t, <1>5 DEF Load, HandlerFits, mongoVars
  <2>2. h.stmt.kind = "index"
    <3>1. OptionsFit(h) /\ Opt(c).op \in {"createIndex", "removeIndex"}
      BY <1>t, <2>1 DEF HandlerFits, Opt
    <3>2. Opt(c) \notin AlterOption \cup RenamePair \cup DropName
      BY <3>1 DEF AlterOption, RenamePair, DropName
    <3> QED BY <2>1, <3>1, <3>2 DEF OptionsFit, Opt
  <2>3. h.ptr = None /\ (k.ptr # None => cache[h.tab] = k.ptr)
    BY <1>t, <2>1, <2>2 DEF HoldsCached, GetsCached
  <2>4. /\ conn'[c].stmt = h.stmt /\ conn'[c].tab = h.tab
        /\ IF k.ptr = None
             THEN conn'[c].pc = "option" /\ conn'[c].rest = Tail(h.rest) /\ conn'[c].ptr = None
             ELSE conn'[c].pc = "store" /\ conn'[c].rest = h.rest /\ conn'[c].ptr = k.ptr
    BY <2>1, <2>3, LoadsOn
  <2>5. HoldsCached(c)'
    BY <2>1, <2>3, <2>4 DEF HoldsCached, CounterPCs
  <2>6. GetsCached(c)'
    BY <2>1, <2>4 DEF GetsCached, At, Returned
  <2>7. \A t : ~Open(c, t)
    BY <2>1 DEF Open
  <2> QED BY <2>1, <2>5, <2>6, <2>7, CacheAndDocsStay
<1>6. CASE Start(c)
  <2>1. /\ h.pc = "start" /\ Returned(c) /\ UNCHANGED <<heap, cache, docs, call>>
        /\ conn' = [conn EXCEPT ![c].pc = "option", ![c].ptr = call[c].ptr]
    BY <1>p, <1>6 DEF Start, mongoVars
  <2>2. /\ conn'[c].pc = "option" /\ conn'[c].stmt = h.stmt /\ conn'[c].rest = h.rest
        /\ conn'[c].tab = h.tab /\ conn'[c].ptr = k.ptr
    BY <1>t, <2>1 DEF Handler
  <2>3. HoldsCached(c)'
    BY <1>t, <2>1, <2>2 DEF HoldsCached, GetsCached, CounterPCs, Stays
  <2>4. GetsCached(c)'
    BY <2>1, <2>2 DEF GetsCached, At, Returned
  <2>5. \A t : ~Open(c, t)
    BY <2>1 DEF Open
  <2> QED BY <2>1, <2>3, <2>4, <2>5, CacheAndDocsStay
\* The object in the cache is changed; the table is open until Save.
<1>7. CASE Store(c)
  <2>1. /\ h.pc = "store" /\ Returned(c) /\ UNCHANGED <<cache, docs, call>>
        /\ conn' = [conn EXCEPT ![c] = NextOption(c)]
        /\ heap' = [heap EXCEPT ![h.ptr].items = Edited(h.seen, Opt(c).op, Opt(c).item)]
    BY <1>p, <1>7 DEF Store, mongoVars
  <2>2. /\ conn'[c].pc = "option" /\ conn'[c].stmt = h.stmt /\ conn'[c].rest = Tail(h.rest)
        /\ conn'[c].tab = h.tab /\ conn'[c].ptr = h.ptr
    BY <2>1, GoesToNext
  <2>3. h.rest # <<>> /\ h.ptr # None /\ cache[h.tab] = h.ptr /\ h.stmt \in Workload
    BY <1>t, <2>1 DEF HandlerFits, HoldsCached, Handler
  <2>4. Tail(h.rest) # h.stmt.opts
    <3>1. /\ h.rest \in Seq(Option) /\ h.stmt.opts \in Seq(Option)
          /\ IsSuffix(h.rest, h.stmt.opts)
      BY <1>t, <2>1, <2>3, StatementShape DEF Stays, RestFits, Handler
    <3> QED BY <2>3, <3>1, TailIsLess
  <2>5. Open(c, h.tab)'
    BY <2>2, <2>3, <2>4 DEF Open
  <2>6. HoldsCached(c)'
    <3>1. h.stmt.kind = "index" => Tail(h.rest) = <<>>
      <4> SUFFICES ASSUME h.stmt.kind = "index" PROVE Tail(h.rest) = <<>>
        OBVIOUS
      <4>1. h.rest = h.stmt.opts /\ Len(h.stmt.opts) = 1
        BY <2>1, <2>3, FirstOption, IndexHasOne
      <4>2. h.rest \in Seq(Option) /\ Len(h.rest) = 1
        BY <1>t, <4>1 DEF Handler
      <4> QED BY <4>2, TailOfOne
    <3> QED BY <1>t, <2>1, <2>2, <2>3, <3>1 DEF HoldsCached, CounterPCs
  <2>7. GetsCached(c)'
    BY <2>1, <2>2 DEF GetsCached, At, Returned
  <2>8. ASSUME NEW t \in Tables, t \in Reach(c), t # h.tab PROVE CoherentOn(t)'
    <3>1. CoherentOn(t)
      BY <1>o, <2>1, <2>8 DEF Open
    <3>2. cache[t] # None => heap[cache[t]].name = t
      BY <3>1 DEF CoherentOn
    <3>3. heap[h.ptr].name = h.tab
      BY <1>t, <2>1, <2>3 DEF HoldsNamed, CounterPCs
    <3>4. cache[t] # None => heap'[cache[t]] = heap[cache[t]]
      BY <1>t, <2>1, <2>8, <3>2, <3>3, InUse
    <3> QED BY <2>1, <3>1, <3>4 DEF CoherentOn
  <2> QED BY <2>2, <2>5, <2>6, <2>7, <2>8 DEF CoherentStep
<1>8. CASE EndOptions(c) /\ ~Finish(c)
  <2>1. /\ h.pc = "option" /\ Returned(c) /\ h.rest = <<>> /\ h.ptr # None /\ h.stmt.opts # <<>>
        /\ Goto(c, "finish") /\ Begins(c, SaveOf(h.ptr)) /\ UNCHANGED <<heap, cache, docs>>
    BY <1>p, <1>8 DEF EndOptions, mongoVars
  <2>2. /\ conn'[c].pc = "finish" /\ conn'[c].stmt = h.stmt /\ conn'[c].rest = h.rest
        /\ conn'[c].tab = h.tab /\ conn'[c].ptr = h.ptr
        /\ call'[c].at = "upsert" /\ call'[c].ptr = h.ptr
    BY <1>b, <1>v, <2>1, GoesOn
  <2>3. HoldsCached(c)'
    BY <1>t, <2>1, <2>2 DEF HoldsCached, CounterPCs
  <2>4. GetsCached(c)'
    BY <2>2 DEF GetsCached, At, Returned
  <2>5. ASSUME NEW t \in Tables, Open(c, t) PROVE Open(c, t)'
    BY <2>1, <2>2, <2>5 DEF Open, Returned
  <2> QED BY <2>1, <2>3, <2>4, <2>5, CacheAndDocsStay
<1>9. CASE DropCollection(c)
  <2>1. /\ h.pc = "option" /\ Returned(c) /\ h.rest # <<>> /\ Opt(c).op = "dropTable"
        /\ UNCHANGED <<heap, cache, docs>> /\ Begins(c, DeleteOf(Opt(c).tab))
        /\ conn' = [conn EXCEPT ![c].pc = "dropCounter", ![c].tab = Opt(c).tab]
    BY <1>p, <1>9 DEF DropCollection
  <2>2. h.ptr = None
    BY <1>w, <2>1
  <2>3. conn'[c].pc = "dropCounter" /\ conn'[c].ptr = None /\ call'[c].at = "evict"
    BY <1>b, <1>d, <1>t, <2>1, <2>2 DEF Handler
  <2>4. HoldsCached(c)' /\ GetsCached(c)'
    BY <2>3 DEF HoldsCached, GetsCached, At, Returned
  <2>5. \A t : ~Open(c, t)
    BY <2>1, <2>2 DEF Open
  <2> QED BY <2>1, <2>4, <2>5, CacheAndDocsStay
<1>10. CASE DropCounter(c)
  <2>1. /\ h.pc = "dropCounter" /\ Returned(c) /\ UNCHANGED <<heap, cache, docs, call>>
        /\ conn' = [conn EXCEPT ![c] = NextOption(c)]
    BY <1>p, <1>10 DEF DropCounter
  <2>2. conn'[c].pc = "option" /\ conn'[c].ptr = None
    BY <1>t, <2>1, GoesToNext DEF HoldsCached
  <2>3. HoldsCached(c)' /\ GetsCached(c)'
    BY <2>1, <2>2 DEF HoldsCached, GetsCached, At, Returned
  <2>4. \A t : ~Open(c, t)
    BY <2>1 DEF Open
  <2> QED BY <2>1, <2>3, <2>4, CacheAndDocsStay
<1>11. CASE RenameCollection(c)
  <2>1. /\ h.pc = "option" /\ Returned(c) /\ h.rest # <<>> /\ Opt(c).op = "rename"
        /\ UNCHANGED <<heap, cache, docs>> /\ Begins(c, GetOf(From(c)))
        /\ conn' = [conn EXCEPT ![c].pc = "migrate", ![c].tab = From(c)]
    BY <1>p, <1>11 DEF RenameCollection
  <2>2. /\ conn'[c].pc = "migrate" /\ conn'[c].tab = From(c) /\ conn'[c].ptr = h.ptr
        /\ call'[c].at = "lookup"
    BY <1>b, <1>g, <1>t, <2>1 DEF Handler
  <2>3. h.ptr # None => h.stmt.kind = "alter" /\ From(c) = h.tab /\ h.rest = h.stmt.opts
    BY <1>w, <2>1, FirstOption DEF From
  <2>4. HoldsCached(c)'
    BY <1>t, <2>1, <2>2, <2>3 DEF HoldsCached, CounterPCs
  <2>5. GetsCached(c)'
    BY <2>2 DEF GetsCached, At, Returned
  <2>6. \A t : ~Open(c, t)
    BY <2>1, <2>3 DEF Open
  <2> QED BY <2>1, <2>4, <2>5, <2>6, CacheAndDocsStay
<1>12. CASE MigrateSchema(c)
  <2>0. h.pc = "migrate" /\ Returned(c) /\ UNCHANGED <<cache, docs>> /\ \A t : ~Open(c, t)
    BY <1>p, <1>12 DEF MigrateSchema, mongoVars, Open
  <2>r. /\ Opt(c).to \in Tables /\ Opt(c).to # h.tab /\ h.tab \in Tables
    BY <2>0, RenameReach DEF RenamePCs
  <2>1. CASE k.ptr = None
    <3>1. Goto(c, "findCounter") /\ UNCHANGED <<heap, call>>
      BY <1>12, <2>1 DEF MigrateSchema
    <3>2. h.ptr = None
      <4>1. cache[h.tab] = None
        BY <1>t, <2>0, <2>1 DEF HoldsNamed, Vacated
      <4> QED BY <1>t, <2>0, <4>1 DEF HoldsCached
    <3>3. conn'[c].pc = "findCounter" /\ conn'[c].ptr = None
      BY <3>1, <3>2, GoesOn
    <3>4. HoldsCached(c)' /\ GetsCached(c)'
      BY <2>0, <3>1, <3>3 DEF HoldsCached, GetsCached, At, Returned
    <3> QED BY <2>0, <3>1, <3>4, CacheAndDocsStay
  <2>2. CASE k.ptr # None
    <3>1. /\ heap' = [heap EXCEPT ![k.ptr].name = Opt(c).to] /\ Goto(c, "dropOld")
          /\ Begins(c, SaveOf(k.ptr))
      BY <1>12, <2>2 DEF MigrateSchema
    <3>2. /\ conn'[c].pc = "dropOld" /\ conn'[c].stmt = h.stmt /\ conn'[c].rest = h.rest
          /\ conn'[c].tab = h.tab /\ conn'[c].ptr = h.ptr /\ Opt(c)' = Opt(c)
          /\ call'[c].at = "upsert" /\ call'[c].ptr = k.ptr
      BY <1>b, <1>v, <3>1, GoesOn DEF Opt
    <3>3. cache[h.tab] = k.ptr
      BY <1>t, <2>0, <2>2 DEF GetsCached
    <3>4. HoldsCached(c)'
      BY <1>t, <2>0, <3>2, <3>3 DEF HoldsCached, CounterPCs, Returned
    <3>5. GetsCached(c)'
      BY <3>2 DEF GetsCached, At, Returned
    <3>6. ASSUME NEW t \in Tables, t \in Reach(c) PROVE CoherentOn(t)' \/ Open(c, t)'
      <4>1. CASE t \in {h.tab, Opt(c).to}
        BY <3>2, <4>1 DEF Open, Returned
      <4>2. CASE t \notin {h.tab, Opt(c).to}
        <5>1. CoherentOn(t) /\ heap[k.ptr].name = h.tab
          BY <1>o, <1>t, <2>0, <2>2, <3>6 DEF HoldsNamed
        <5>2. cache[t] # None => heap'[cache[t]] = heap[cache[t]]
          BY <1>t, <3>1, <3>6, <4>2, <5>1, InUse DEF CoherentOn
        <5> QED BY <2>0, <5>1, <5>2 DEF CoherentOn
      <4> QED BY <4>1, <4>2
    <3> QED BY <3>4, <3>5, <3>6 DEF CoherentStep
  <2> QED BY <2>1, <2>2
<1>13. CASE DropOldSchema(c)
  <2>1. /\ h.pc = "dropOld" /\ Returned(c) /\ UNCHANGED <<heap, cache, docs>>
        /\ Goto(c, "findCounter") /\ Begins(c, DeleteOf(h.tab))
    BY <1>p, <1>13 DEF DropOldSchema, mongoVars
  <2>2. /\ conn'[c].pc = "findCounter" /\ conn'[c].stmt = h.stmt /\ conn'[c].rest = h.rest
        /\ conn'[c].tab = h.tab /\ conn'[c].ptr = h.ptr /\ Opt(c)' = Opt(c)
        /\ call'[c].at = "evict"
    BY <1>b, <1>d, <2>1, GoesOn DEF Opt
  <2>3. HoldsCached(c)'
    BY <1>t, <2>1, <2>2 DEF HoldsCached, CounterPCs
  <2>4. GetsCached(c)'
    BY <2>2 DEF GetsCached, At, Returned
  <2>5. ASSUME NEW t \in Tables, Open(c, t) PROVE Open(c, t)'
    BY <2>1, <2>2, <2>5 DEF Open, At
  <2> QED BY <2>1, <2>3, <2>4, <2>5, CacheAndDocsStay
<1>14. CASE SetCounter(c) \/ (FindCounter(c) /\ ~Renamed(c))
  <2>1. /\ h.pc \in CounterPCs /\ Returned(c) /\ UNCHANGED <<heap, cache, docs, call>>
    BY <1>p, <1>14 DEF SetCounter, FindCounter, CounterPCs, mongoVars
  <2>2. /\ conn'[c].pc \in {"setCounter", "deleteCounter"} /\ conn'[c].stmt = h.stmt
        /\ conn'[c].rest = h.rest /\ conn'[c].tab = h.tab /\ conn'[c].ptr = h.ptr
        /\ Opt(c)' = Opt(c)
    <3>1. CASE SetCounter(c)
      BY <3>1, GoesOn DEF SetCounter, Opt
    <3>2. CASE FindCounter(c) /\ ~Renamed(c)
      BY <1>t, <3>2 DEF FindCounter, Handler, Opt
    <3> QED BY <1>14, <3>1, <3>2
  <2>3. HoldsCached(c)'
    BY <1>t, <2>1, <2>2 DEF HoldsCached, CounterPCs
  <2>4. GetsCached(c)'
    BY <2>1, <2>2 DEF GetsCached, At, Returned
  <2>5. \A t : ~Open(c, t)
    BY <2>1 DEF Open, CounterPCs, At, Returned
  <2> QED BY <2>1, <2>3, <2>4, <2>5, CacheAndDocsStay
\* The schema variable gets the name its object already has.
<1>15. CASE Renamed(c) /\ (FindCounter(c) \/ DeleteCounter(c))
  <2>1. /\ h.pc \in CounterPCs /\ h.pc \in RenamePCs /\ Returned(c)
        /\ UNCHANGED <<cache, docs, call>>
    BY <1>p, <1>15 DEF FindCounter, DeleteCounter, CounterPCs, RenamePCs, mongoVars
  <2>2. /\ conn'[c].pc = "option" /\ conn'[c].stmt = h.stmt /\ conn'[c].tab = Opt(c).to
        /\ conn'[c].rest = Tail(h.rest) /\ conn'[c].ptr = h.ptr
    BY <1>15, EndsRename
  <2>3. \A t : ~Open(c, t)
    BY <2>1 DEF Open, CounterPCs, At, Returned
  <2>4. h.ptr # None => h.stmt.kind = "alter" /\ cache[Opt(c).to] = h.ptr
    <3>1. h.rest # <<>> /\ Opt(c).op = "rename" /\ h.pc # "idle"
      BY <1>t, <2>1 DEF HandlerFits, Opt, RenamePCs
    <3> QED BY <1>t, <1>w, <2>1, <3>1 DEF HoldsCached
  <2>5. HoldsCached(c)'
    BY <2>1, <2>2, <2>4 DEF HoldsCached, CounterPCs
  <2>6. GetsCached(c)'
    BY <2>1, <2>2 DEF GetsCached, At, Returned
  <2>7. ASSUME NEW t \in Tables, t \in Reach(c) PROVE CoherentOn(t)'
    <3>1. CoherentOn(t)
      BY <1>o, <2>3, <2>7
    <3>2. Opt(c).to \in Tables /\ Opt(c).to \in Reach(c)
      BY <2>1, RenameReach
    <3>3. CoherentOn(Opt(c).to)
      BY <1>o, <2>3, <3>2
    <3>4. h.ptr # None => heap'[h.ptr] = heap[h.ptr]
      <4> SUFFICES ASSUME h.ptr # None PROVE heap'[h.ptr] = heap[h.ptr]
        OBVIOUS
      <4>1. heap[h.ptr].name = Opt(c).to /\ h.ptr \in Ptrs /\ heap[h.ptr] \in TableSchema
        BY <1>t, <2>4, <3>3 DEF CoherentOn, HandlerFits, Handler
      <4>2. heap' = [heap EXCEPT ![h.ptr].name = Opt(c).to]
        BY <1>15 DEF Renamed
      <4> QED BY <1>t, <4>1, <4>2 DEF TableSchema
    <3>5. \A p \in Ptrs : heap'[p] = heap[p]
      BY <1>15, <1>t, <3>4 DEF Renamed
    <3> QED BY <2>1, <3>1, <3>5, InUse DEF CoherentOn
  <2> QED BY <2>5, <2>6, <2>7 DEF CoherentStep
<1>16. ~DropWholeDatabase(c)
  BY <1>p, <1>t DEF DropWholeDatabase, Stays, Orderly, Handler, HandlerFits
<1> QED
  BY <1>1, <1>2, <1>3, <1>4, <1>5, <1>6, <1>7, <1>8, <1>9, <1>10, <1>11, <1>12, <1>13, <1>14,
     <1>15, <1>16 DEF Handle, CreateFails, CreateIndexes, TruncateCreate, Finished,
     RenameFails, InsertMany, UpdateMany, DeleteMany, DeleteCounter

LEMMA BeginCoherent ==
  ASSUME TypeInv, Named, Coherent, NEW c \in Conns, NEW s \in Workload, Begin(c, s)
  PROVE  Coherent'
<1>t. conn \in [Conns -> Handler] /\ call \in [Conns -> Call] /\ FirstStep(s) \notin RenamePCs
      /\ FirstStep(s) \notin {"idle", "load", "store", "dropCounter"}
  BY Typed, StatementShape
<1>1. /\ conn[c].pc = "idle" /\ UNCHANGED <<heap, cache, docs>>
      /\ \A d \in Conns \ {c} : conn'[d] = conn[d] /\ call'[d] = call[d]
      /\ conn'[c].pc = FirstStep(s) /\ conn'[c].stmt = s /\ conn'[c].rest = s.opts
      /\ conn'[c].ptr = None /\ call'[c] = FirstCall(s)
  BY <1>t DEF Begin, Begins, mongoVars
<1>2. ASSUME NEW d \in Conns \ {c} PROVE HoldsCached(d)' /\ GetsCached(d)'
  <2>1. HoldsCached(d) /\ GetsCached(d) /\ Opt(d)' = Opt(d)
    BY <1>1 DEF Coherent, Opt
  <2>2. HoldsCached(d)'
    BY <1>1, <2>1 DEF HoldsCached, Returned
  <2>3. GetsCached(d)'
    BY <1>1, <2>1 DEF GetsCached, At, Returned
  <2> QED BY <2>2, <2>3
<1>3. HoldsCached(c)' /\ GetsCached(c)'
  <2>1. FirstCall(s).at \in {"lookup", "returned"} /\ FirstCall(s).ptr = None
    BY DEF FirstCall, GetOf, NoCall
  <2>2. FirstStep(s) # "finish"
    BY <1>t, BeginsOwn
  <2> QED BY <1>t, <1>1, <2>1, <2>2 DEF HoldsCached, GetsCached, At, Returned
<1>4. ASSUME NEW t \in Tables PROVE CoherentOn(t)' \/ \E d \in Conns : Open(d, t)'
  <2>1. CoherentOn(t) => CoherentOn(t)'
    BY <1>1 DEF CoherentOn
  <2>2. ASSUME NEW d \in Conns, Open(d, t) PROVE Open(d, t)'
    <3>1. d # c
      BY <1>1, <2>2 DEF Open
    <3>2. conn'[d] = conn[d] /\ call'[d] = call[d]
      BY <1>1, <3>1
    <3> QED BY <2>2, <3>2 DEF Open, At, Returned, Opt
  <2> QED BY <2>1, <2>2 DEF Coherent
<1> QED BY <1>2, <1>3, <1>4 DEF Coherent

\* Nobody at work, nothing cached: at the start, and after a crash.
LEMMA StartCoherent ==
  ASSUME conn = [c \in Conns |-> Idle], call = [c \in Conns |-> NoCall],
         cache = [t \in Tables |-> None]
  PROVE  Coherent
BY DEF Coherent, CoherentOn, HoldsCached, GetsCached, At, Returned, Idle, NoCall, CounterPCs

LEMMA RestartCoherent ==
  ASSUME Restart
  PROVE  Coherent'
<1>1. /\ conn' = [c \in Conns |-> Idle] /\ call' = [c \in Conns |-> NoCall]
      /\ cache' = [t \in Tables |-> None]
  BY DEF Restart
<1> QED
  BY <1>1 DEF Coherent, CoherentOn, HoldsCached, GetsCached, At, Returned, Idle, NoCall,
     CounterPCs

LEMMA CoherentStutter ==
  ASSUME Coherent, UNCHANGED vars
  PROVE  Coherent'
<1>1. UNCHANGED <<conn, call, heap, cache, docs>>
  BY DEF vars, mongoVars
<1>2. \A t \in Tables : CoherentOn(t) => CoherentOn(t)'
  BY <1>1 DEF CoherentOn
<1>3. \A c \in Conns, t \in Tables : Open(c, t) => Open(c, t)'
  BY <1>1 DEF Open, At, Returned, Opt
<1>4. \A c \in Conns : HoldsCached(c) => HoldsCached(c)'
  BY <1>1 DEF HoldsCached, Returned, Opt
<1>5. \A c \in Conns : GetsCached(c) => GetsCached(c)'
  BY <1>1 DEF GetsCached, At, Returned
<1> QED BY <1>2, <1>3, <1>4, <1>5 DEF Coherent

LEMMA CoherentAgrees ==
  ASSUME TypeInv, Named, Coherent
  PROVE  SettledCoherent
<1> SUFFICES ASSUME NEW t \in Tables, Settled(t) PROVE CoherentOn(t)
  BY DEF SettledCoherent
<1>1. ASSUME NEW c \in Conns, Open(c, t) PROVE FALSE
  BY <1>1, OpenReached DEF Settled, Reach, Changes
<1> QED BY <1>1 DEF Coherent

LEMMA CoherentKept ==
  ASSUME Orderly, TypeInv, Named, CoherentInv, [Next]_vars
  PROVE  CoherentInv'
<1> SUFFICES ASSUME faults' = 0 PROVE Coherent'
  BY DEF CoherentInv
<1>0. ASSUME faults = 0 PROVE Coherent
  BY <1>0 DEF CoherentInv
<1>1. ASSUME NEW c \in Conns, NEW s \in Workload, Begin(c, s) PROVE Coherent'
  BY <1>0, <1>1, BeginCoherent DEF Begin
<1>2. ASSUME NEW c \in Conns, CallStep(c) PROVE Coherent'
  BY <1>0, <1>2, CallKeeps, CallCoherent, CoherentNext DEF CallStep, budgets
<1>3. ASSUME NEW c \in Conns, Handle(c) PROVE Coherent'
  <2>1. faults' = faults
    BY <1>3 DEF Handle, CheckExists, CreateFails, CreateCollection, CreateIndexes, TruncateDrop,
     TruncateCreate, DropWholeDatabase, Start, AddColumn, ModifyColumn, DropColumn, AddIndex,
     DropKey, IndexStatement, Load, Store, EndOptions, Finished, DropCollection, DropCounter,
     RenameFails, RenameCollection, MigrateSchema, DropOldSchema, FindCounter, SetCounter,
     DeleteCounter, NextAutoIncrement, NoAutoIncrement, InsertMany, UpdateMany, DeleteMany,
     budgets
  <2> QED BY <1>0, <1>3, <2>1, HandleKeeps, HandleCoherent, CoherentNext
<1>4. ASSUME NEW c \in Conns, Fault(c) PROVE FALSE
  BY <1>4 DEF Fault, TypeInv, TypeOK
<1>5. CASE Restart
  BY <1>5, RestartCoherent
<1>6. CASE UNCHANGED vars
  BY <1>0, <1>6, CoherentStutter DEF vars
<1> QED BY <1>1, <1>2, <1>3, <1>4, <1>5, <1>6 DEF Next, Quiet

\* Between two DDL statements the cache agrees with _table_schemas, wherever the
\* process crashed meanwhile, as long as every round trip succeeds: for every
\* Orderly workload of Serial clients.
THEOREM SettledCorrect ==
  ASSUME Serial, Orderly
  PROVE  Spec => [](faults = 0 => SettledCoherent)
<1>1. Init => CoherentInv
  BY StartCoherent DEF Init, StoreInit, CoherentInv
<1>2. TypeInv /\ Named /\ CoherentInv /\ [Next]_vars => CoherentInv'
  BY CoherentKept
<1>3. TypeInv /\ Named /\ CoherentInv => (faults = 0 => SettledCoherent)
  BY CoherentAgrees DEF CoherentInv
<1> QED BY <1>1, <1>2, <1>3, ShapeCorrect, NamedInvariant, PTL DEF Spec

----------------------------------------------------------------------------
(* What else holds between two DDL statements of Serial clients, as long   *)
(* as nothing fails: AUTO_INCREMENT values stay unique when tables are     *)
(* dropped, created again and renamed, nothing is left behind for a table  *)
(* that is gone, and a schema lists the indexes that exist.                *)
(*                                                                         *)
(* The properties relate places that a handler changes one after another.  *)
(* The invariants say where a table's counter and its schema are to be     *)
(* looked for meanwhile, and how far the places of an old name have been   *)
(* cleared.                                                                *)

\* The AUTO_INCREMENT column is left to the counter.
Unnumbered == \A s \in Workload : s.id = 0

\* The rows of a table have its new name already, the counter has the old one.
CounterBehind(c) == conn[c].pc \in RenamePCs \ {"deleteCounter"}

Within(t, n) == \A r \in rows[t] : r.id <= seq[n]

\* No row has a value that is still to be given.
Counted(t) == Within(t, t) \/ \E c \in Conns : CounterBehind(c) /\ Opt(c).to = t
CountedBy(c) == CounterBehind(c) => Within(Opt(c).to, conn[c].tab)

Emptied(c) == conn[c].pc \in RenamePCs \cup {"dropCounter"} => rows[conn[c].tab] = {}

\* The counter that is being copied has not changed since it was read.
Carries(c) == conn[c].pc = "setCounter" => conn[c].id = seq[conn[c].tab]

\* A connection that is about to insert a row has a value nobody else has.
Bringing(c) == conn[c].pc = "insertMany" /\ conn[c].id # 0

Unused(c) ==
  Bringing(c) => /\ conn[c].id <= seq[conn[c].tab]
                 /\ \A r \in rows[conn[c].tab] : r.id # conn[c].id

Distinct(c, d) ==
  Bringing(c) /\ Bringing(d) /\ conn[c].tab = conn[d].tab => conn[c].id # conn[d].id

UniqueOn(t) == \A r, s \in rows[t] : r.id = s.id /\ r.id # 0 => r = s

IdsFit ==
  /\ \A t \in Tables : UniqueOn(t) /\ Counted(t)
  /\ \A c \in Conns : CountedBy(c) /\ Emptied(c) /\ Carries(c) /\ Unused(c)
  /\ \A c \in Conns : \A d \in Conns \ {c} : Distinct(c, d)

IdsInv == Uninterrupted => IdsFit

----------------------------------------------------------------------------
(* AUTO_INCREMENT.                                                         *)

\* What a step of c has to show.
IdsStep(c) ==
  /\ \A t \in Tables : t \in Reach(c) =>
       /\ UniqueOn(t)'
       /\ Within(t, t)' \/ (CounterBehind(c) /\ Opt(c).to = t)'
  /\ CountedBy(c)' /\ Emptied(c)' /\ Carries(c)' /\ Unused(c)'
  /\ \A d \in Conns \ {c} : Unused(d)' /\ Distinct(c, d)'

\* A handler that is renaming or dropping a table has it to itself.
LEMMA Alone ==
  ASSUME TypeInv, Named, NEW c \in Conns, conn[c].pc \in RenamePCs \cup {"dropCounter"}
  PROVE  /\ Changes(c) /\ conn[c].tab \in Tables /\ conn[c].tab \in Reach(c)
         /\ \A d \in Conns \ {c} : conn[c].tab \notin Reach(d)
<1>1. Changes(c) /\ conn[c].tab \in Tables /\ conn[c].tab \in Reach(c)
  BY Typed, NoneIsDistinct DEF HandlerFits, OneTablePCs, Named, Stays, Changes, RenamePCs, DataPCs
<1> QED BY <1>1 DEF Named, Apart

LEMMA OwnCounted ==
  ASSUME TypeInv, Named, IdsFit, NEW c \in Conns, NEW t \in Tables, t \in Reach(c)
  PROVE  /\ UniqueOn(t)
         /\ Within(t, t) \/ (CounterBehind(c) /\ Opt(c).to = t)
<1>1. ASSUME NEW d \in Conns, CounterBehind(d), Opt(d).to = t PROVE d = c
  <2>1. Opt(d).to \in Reach(d) /\ Changes(d)
    BY <1>1, RenameReach DEF CounterBehind
  <2> QED BY <1>1, <2>1 DEF Named, Apart
<1> QED BY <1>1 DEF IdsFit, Counted

LEMMA IdsNext ==
  ASSUME TypeInv, Named, IdsFit, NEW c \in Conns, Keeps(c), IdsStep(c)
  PROVE  IdsFit'
<1>1. \A d \in Conns \ {c} : conn'[d] = conn[d]
  BY DEF Keeps
<1>2. ASSUME NEW d \in Conns \ {c} PROVE CountedBy(d)' /\ Emptied(d)' /\ Carries(d)'
  <2>1. CASE conn[d].pc \in RenamePCs \cup {"dropCounter"}
    <3>1. conn[d].tab \in Tables \ Reach(c)
      BY <2>1, Alone
    <3>2. rows'[conn[d].tab] = rows[conn[d].tab] /\ seq'[conn[d].tab] = seq[conn[d].tab]
      BY <3>1 DEF Keeps
    <3>3. CounterBehind(d) => rows'[Opt(d).to] = rows[Opt(d).to]
      <4> SUFFICES ASSUME CounterBehind(d) PROVE rows'[Opt(d).to] = rows[Opt(d).to]
        OBVIOUS
      <4>1. Opt(d).to \in Tables \ Reach(c)
        BY RenameReach DEF CounterBehind, Named, Apart
      <4> QED BY <4>1 DEF Keeps
    <3>4. CountedBy(d)'
      BY <1>1, <3>2, <3>3 DEF IdsFit, CountedBy, CounterBehind, Opt, Within
    <3> QED BY <1>1, <3>2, <3>4 DEF IdsFit, Emptied, Carries
  <2>2. CASE conn[d].pc \notin RenamePCs \cup {"dropCounter"}
    BY <1>1, <2>2 DEF CountedBy, CounterBehind, Emptied, Carries, RenamePCs
  <2> QED BY <2>1, <2>2
<1>3. ASSUME NEW t \in Tables \ Reach(c) PROVE UniqueOn(t)' /\ Counted(t)'
  <2>1. rows'[t] = rows[t] /\ seq'[t] = seq[t] /\ UniqueOn(t) /\ Counted(t)
    BY DEF Keeps, IdsFit
  <2>2. ASSUME NEW d \in Conns, CounterBehind(d), Opt(d).to = t
        PROVE  (CounterBehind(d) /\ Opt(d).to = t)'
    <3>1. Opt(d).to \in Reach(d)
      BY <2>2, RenameReach DEF CounterBehind
    <3>2. conn'[d] = conn[d]
      BY <1>1, <2>2, <3>1
    <3> QED BY <2>2, <3>2 DEF CounterBehind, Opt
  <2>3. Within(t, t) => Within(t, t)'
    BY <2>1 DEF Within
  <2> QED BY <2>1, <2>2, <2>3 DEF UniqueOn, Counted
<1>4. ASSUME NEW t \in Tables, t \in Reach(c) PROVE UniqueOn(t)' /\ Counted(t)'
  BY <1>4 DEF IdsStep, Counted
<1>5. ASSUME NEW d \in Conns, NEW e \in Conns \ {d} PROVE Distinct(d, e)'
  BY <1>1 DEF IdsFit, IdsStep, Distinct, Bringing
<1> QED BY <1>2, <1>3, <1>4, <1>5 DEF IdsFit, IdsStep

\* A statement that changes tables does not meddle with the values of an INSERT.
LEMMA OthersUnused ==
  ASSUME TypeInv, Named, IdsFit, NEW c \in Conns, Keeps(c), conn'[c].pc # "insertMany",
         Changes(c) \/ UNCHANGED <<rows, seq>>
  PROVE  Unused(c)' /\ \A d \in Conns \ {c} : Unused(d)' /\ Distinct(c, d)'
<1>1. ASSUME NEW d \in Conns \ {c} PROVE Unused(d)'
  <2>1. conn'[d] = conn[d] /\ Unused(d)
    BY DEF Keeps, IdsFit
  <2>2. ASSUME Bringing(d) PROVE conn[d].tab \in Tables /\ conn[d].tab \in Reach(d)
    BY <2>2, OwnTable, Typed DEF HandlerFits, OneTablePCs, Named, Bringing
  <2>3. Bringing(d) => /\ rows'[conn[d].tab] = rows[conn[d].tab]
                       /\ seq'[conn[d].tab] = seq[conn[d].tab]
    BY <2>2 DEF Keeps, Named, Apart
  <2> QED BY <2>1, <2>3 DEF Unused, Bringing
<1> QED BY <1>1 DEF Unused, Distinct, Bringing

\* A step that changes no row and no counter, outside of renames.
LEMMA RowsStay ==
  ASSUME TypeInv, Named, IdsFit, NEW c \in Conns, Keeps(c), UNCHANGED <<rows, seq>>,
         conn[c].pc \notin RenamePCs,
         conn'[c].pc \notin RenamePCs \cup {"dropCounter", "insertMany"}
  PROVE  IdsStep(c)
<1>1. \A t \in Tables : t \in Reach(c) => UniqueOn(t)' /\ Within(t, t)'
  BY OwnCounted DEF UniqueOn, Within, CounterBehind
<1>2. CountedBy(c)' /\ Emptied(c)' /\ Carries(c)'
  BY DEF CountedBy, CounterBehind, Emptied, Carries, RenamePCs
<1> QED BY <1>1, <1>2, OthersUnused DEF IdsStep

\* Steps that leave the rows and counters as they are, and do not take part in
\* a rename.
QuietStep(c) ==
  \/ CheckExists(c) \/ CreateFails(c)
  \/ \E p \in Fresh : CreateCollection(c, p)
  \/ CreateIndexes(c) \/ TruncateCreate(c)
  \/ Start(c) \/ AddColumn(c) \/ ModifyColumn(c) \/ AddIndex(c) \/ DropKey(c)
  \/ IndexStatement(c) \/ Load(c) \/ Store(c) \/ EndOptions(c) \/ Finished(c)
  \/ RenameFails(c) \/ UpdateMany(c)

LEMMA QuietGoes ==
  ASSUME TypeInv, NEW c \in Conns, QuietStep(c)
  PROVE  /\ UNCHANGED <<rows, seq>>
         /\ conn[c].pc \notin RenamePCs
         /\ conn'[c].pc \notin RenamePCs \cup {"dropCounter", "insertMany"}
<1>1. UNCHANGED <<rows, seq>>
  BY DEF QuietStep, CheckExists, CreateFails, CreateCollection, CreateIndexes, TruncateCreate,
     Start, AddColumn, ModifyColumn, AddIndex, DropKey, IndexStatement, Load, Store, EndOptions,
     Finished, RenameFails, UpdateMany, mongoVars, Indexed, Unindexed
<1>2. conn[c].pc \notin RenamePCs
  BY DEF QuietStep, CheckExists, CreateFails, CreateCollection, CreateIndexes, TruncateCreate,
     Start, AddColumn, ModifyColumn, AddIndex, DropKey, IndexStatement, Load, Store, EndOptions,
     Finished, RenameFails, UpdateMany, Running, AtOption, RenamePCs
<1>3. conn'[c].pc \in {"idle", "create", "createIndexes", "option", "store", "load", "finish"}
  <2>1. \A pc : Goto(c, pc) => conn'[c].pc = pc
    BY GoesOn
  <2>2. Finish(c) => conn'[c].pc = "idle"
    BY Ends
  <2>3. \A p : Loads(c, p) => conn'[c].pc \in {"option", "store"}
    BY LoadsOn
  <2>4. Store(c) => conn'[c].pc = "option"
    BY GoesToNext DEF Store
  <2>5. Start(c) => conn'[c].pc = "option"
    BY Typed DEF Start, Handler
  <2> QED
    BY <2>1, <2>2, <2>3, <2>4, <2>5 DEF QuietStep, CheckExists, CreateFails, CreateCollection,
       CreateIndexes, TruncateCreate, AddColumn, ModifyColumn, AddIndex, DropKey, IndexStatement,
       Load, EndOptions, Finished, RenameFails, UpdateMany
<1> QED BY <1>1, <1>2, <1>3 DEF RenamePCs

\* RENAME: rows first, then the counter.
LEMMA RenameIds ==
  ASSUME TypeInv, Named, IdsFit, NEW c \in Conns, Keeps(c),
         \/ RenameCollection(c) \/ MigrateSchema(c) \/ DropOldSchema(c) \/ FindCounter(c)
         \/ SetCounter(c) \/ DeleteCounter(c)
  PROVE  IdsStep(c)
<1> DEFINE h == conn[c]
<1>t. /\ h \in Handler /\ conn \in [Conns -> Handler] /\ HandlerFits(h) /\ Stays(c)
      /\ rows \in [Tables -> SUBSET Row] /\ seq \in [Tables -> Nat]
      /\ CountedBy(c) /\ Emptied(c) /\ Carries(c)
  BY Typed DEF Named, TypeInv, TypeOK, IdsFit
<1>p. \A pc : Running(c, pc) => pc = h.pc
  BY DEF Running
<1>r. \A t \in Tables : \A r \in rows[t] : r.id \in Nat
  BY <1>t DEF Row
<1>o. \A t \in Tables : t \in Reach(c) =>
        /\ UniqueOn(t)
        /\ Within(t, t) \/ (CounterBehind(c) /\ Opt(c).to = t)
  BY OwnCounted
<1>1. CASE RenameCollection(c)
  <2> DEFINE from == From(c)
             to == Opt(c).to
  <2>1. /\ h.pc = "option" /\ h.rest # <<>> /\ Opt(c).op = "rename"
        /\ from \in colls /\ to \notin colls /\ seq' = seq
        /\ rows' = [rows EXCEPT ![to] = rows[from], ![from] = {}]
        /\ conn' = [conn EXCEPT ![c].pc = "migrate", ![c].tab = from]
    BY <1>p, <1>1 DEF RenameCollection, AtOption, Opt
  <2>2. from \in Tables /\ to \in Tables /\ from # to /\ {from, to} \subseteq Reach(c)
    <3>1. from \in Tables /\ from # to
      BY <2>1 DEF TypeInv, TypeOK
    <3>2. to \in Reach(c) /\ from \in Reach(c) /\ h.stmt \in Workload
      BY <1>t, <2>1, Reaching DEF Handler, HandlerFits
    <3>3. to \in Tables
      <4>1. Opt(c) \in AlterOption \cup IndexOption \cup RenamePair \cup DropName
        BY <1>t, <2>1 DEF HandlerFits, OptionsFit, Opt
      <4> QED BY <2>1, <4>1 DEF AlterOption, IndexOption, RenamePair, DropName
    <3> QED BY <3>1, <3>2, <3>3
  <2>3. /\ conn'[c].pc = "migrate" /\ conn'[c].tab = from /\ conn'[c].rest = h.rest
        /\ Opt(c)' = Opt(c)
    BY <1>t, <2>1 DEF Handler, Opt
  <2>4. /\ rows'[from] = {} /\ rows'[to] = rows[from]
        /\ \A t \in Tables \ {from, to} : rows'[t] = rows[t]
    BY <1>t, <2>1, <2>2
  <2>5. Changes(c)
    BY <1>t, <2>1 DEF Stays, Changes, HandlerFits, DataPCs
  <2>6. CountedBy(c)' /\ Emptied(c)' /\ Carries(c)'
    <3>1. Within(from, from)
      BY <1>o, <2>1, <2>2 DEF CounterBehind, RenamePCs
    <3>2. CountedBy(c)'
      BY <2>1, <2>3, <2>4, <3>1 DEF CountedBy, Within
    <3> QED BY <2>3, <2>4, <3>2 DEF Emptied, Carries
  <2>7. ASSUME NEW t \in Tables, t \in Reach(c)
        PROVE  UniqueOn(t)' /\ (Within(t, t)' \/ (CounterBehind(c) /\ Opt(c).to = t)')
    <3>w. UniqueOn(t) /\ Within(t, t) /\ UniqueOn(from) /\ Within(from, from)
      BY <1>o, <2>1, <2>2, <2>7 DEF CounterBehind, RenamePCs
    <3>1. CASE t = from
      BY <2>4, <3>1 DEF UniqueOn, Within
    <3>2. CASE t = to
      <4>1. UniqueOn(t)'
        BY <2>4, <3>2, <3>w DEF UniqueOn
      <4>2. CounterBehind(c)' /\ Opt(c)'.to = t
        BY <2>3, <3>2 DEF CounterBehind, RenamePCs
      <4> QED BY <4>1, <4>2
    <3>3. CASE t \notin {from, to}
      BY <2>1, <2>4, <3>3, <3>w DEF UniqueOn, Within
    <3> QED BY <3>1, <3>2, <3>3
  <2> QED BY <2>3, <2>5, <2>6, <2>7, OthersUnused DEF IdsStep
<1>2. CASE MigrateSchema(c) \/ DropOldSchema(c) \/ (FindCounter(c) /\ ~Renamed(c))
  <2>1. /\ h.pc \in {"migrate", "dropOld", "findCounter"} /\ UNCHANGED <<rows, seq>>
        /\ CounterBehind(c)
    BY <1>p, <1>2 DEF MigrateSchema, DropOldSchema, FindCounter, mongoVars, CounterBehind,
       RenamePCs
  <2>2. /\ conn'[c].pc \in {"findCounter", "dropOld", "setCounter"} /\ conn'[c].tab = h.tab
        /\ conn'[c].rest = h.rest
        /\ conn'[c].pc = "setCounter" => conn'[c].id = seq[h.tab]
    <3>1. \A pc : Goto(c, pc) => /\ conn'[c].pc = pc /\ conn'[c].tab = h.tab
                                 /\ conn'[c].rest = h.rest
      BY GoesOn
    <3>2. CASE FindCounter(c) /\ ~Renamed(c)
      <4>1. conn' = [conn EXCEPT ![c].pc = "setCounter", ![c].id = seq[h.tab]]
        BY <3>2 DEF FindCounter
      <4> QED BY <1>t, <4>1 DEF Handler
    <3> QED BY <1>2, <3>1, <3>2 DEF MigrateSchema, DropOldSchema
  <2>4. CounterBehind(c)' /\ Opt(c)' = Opt(c)
    BY <2>2 DEF CounterBehind, RenamePCs, Opt
  <2>3. CountedBy(c)' /\ Emptied(c)' /\ Carries(c)'
    BY <1>t, <2>1, <2>2, <2>4 DEF CountedBy, Within, Emptied, Carries, RenamePCs
  <2>5. ASSUME NEW t \in Tables, t \in Reach(c)
        PROVE  UniqueOn(t)' /\ (Within(t, t)' \/ (CounterBehind(c) /\ Opt(c).to = t)')
    BY <1>o, <2>1, <2>2, <2>4, <2>5 DEF UniqueOn, Within
  <2> QED BY <2>1, <2>2, <2>3, <2>5, OthersUnused DEF IdsStep
\* The table has no counter, so none of its rows has a value.
<1>3. CASE FindCounter(c) /\ Renamed(c)
  <2>1. h.pc = "findCounter" /\ UNCHANGED <<rows, seq>> /\ seq[h.tab] = 0
    <3>1. seq[h.tab] # 0 => conn' = [conn EXCEPT ![c].pc = "setCounter", ![c].id = seq[h.tab]]
      BY <1>3 DEF FindCounter
    <3>2. seq[h.tab] # 0 => conn'[c].pc = "setCounter"
      BY <1>t, <3>1 DEF Handler
    <3> QED BY <1>3, <1>p, <3>2, EndsRename DEF FindCounter, mongoVars
  <2>2. conn'[c].pc = "option"
    BY <1>3, EndsRename
  <2>3. CountedBy(c)' /\ Emptied(c)' /\ Carries(c)'
    BY <2>2 DEF CountedBy, CounterBehind, Emptied, Carries, RenamePCs
  <2>4. ASSUME NEW t \in Tables, t \in Reach(c) PROVE UniqueOn(t)' /\ Within(t, t)'
    <3>1. Within(t, h.tab) => Within(t, t)
      BY <1>r, <1>t, <2>1 DEF Within
    <3>2. CounterBehind(c) /\ Opt(c).to = t => Within(t, h.tab)
      BY <1>t DEF CountedBy
    <3> QED BY <1>o, <2>1, <2>4, <3>1, <3>2 DEF UniqueOn, Within
  <2> QED BY <2>1, <2>2, <2>3, <2>4, OthersUnused DEF IdsStep
<1>4. CASE SetCounter(c)
  <2>1. /\ h.pc = "setCounter" /\ rows' = rows /\ seq' = [seq EXCEPT ![Opt(c).to] = h.id]
        /\ Goto(c, "deleteCounter")
    BY <1>p, <1>4 DEF SetCounter, collVars
  <2>2. /\ conn'[c].pc = "deleteCounter" /\ conn'[c].tab = h.tab
    BY <2>1, GoesOn
  <2>3. Changes(c) /\ Opt(c).to \in Tables /\ h.id = seq[h.tab]
    BY <1>t, <2>1, RenameReach DEF RenamePCs, Carries
  <2>4. CountedBy(c)' /\ Emptied(c)' /\ Carries(c)'
    BY <1>t, <2>1, <2>2 DEF CountedBy, CounterBehind, Emptied, Carries, RenamePCs
  <2>5. ASSUME NEW t \in Tables, t \in Reach(c) PROVE UniqueOn(t)' /\ Within(t, t)'
    <3>1. CASE t = Opt(c).to
      <4>1. Within(t, h.tab)
        BY <1>t, <2>1, <3>1 DEF CountedBy, CounterBehind, RenamePCs
      <4> QED BY <1>o, <1>t, <2>1, <2>3, <2>5, <3>1, <4>1 DEF UniqueOn, Within
    <3>2. CASE t # Opt(c).to
      BY <1>o, <1>t, <2>1, <2>3, <2>5, <3>2 DEF UniqueOn, Within
    <3> QED BY <3>1, <3>2
  <2> QED BY <2>2, <2>3, <2>4, <2>5, OthersUnused DEF IdsStep
<1>5. CASE DeleteCounter(c)
  <2>1. /\ h.pc = "deleteCounter" /\ rows' = rows /\ seq' = [seq EXCEPT ![h.tab] = 0]
        /\ Renamed(c)
    BY <1>p, <1>5 DEF DeleteCounter, collVars
  <2>2. conn'[c].pc = "option"
    BY <2>1, EndsRename
  <2>3. Changes(c) /\ rows[h.tab] = {}
    BY <1>t, <2>1, Alone DEF RenamePCs, Emptied
  <2>4. CountedBy(c)' /\ Emptied(c)' /\ Carries(c)'
    BY <2>2 DEF CountedBy, CounterBehind, Emptied, Carries, RenamePCs
  <2>5. ASSUME NEW t \in Tables, t \in Reach(c) PROVE UniqueOn(t)' /\ Within(t, t)'
    BY <1>o, <1>t, <2>1, <2>3, <2>5 DEF UniqueOn, Within, CounterBehind
  <2> QED BY <2>2, <2>3, <2>4, <2>5, OthersUnused DEF IdsStep
<1> QED BY <1>1, <1>2, <1>3, <1>4, <1>5

\* Rows go, or lose their values.
LEMMA DropIds ==
  ASSUME TypeInv, Named, IdsFit, NEW c \in Conns, Keeps(c),
         \/ DropColumn(c) \/ TruncateDrop(c) \/ DropCollection(c) \/ DropCounter(c)
         \/ DropWholeDatabase(c)
  PROVE  IdsStep(c)
<1> DEFINE h == conn[c]
<1>t. /\ h \in Handler /\ conn \in [Conns -> Handler] /\ HandlerFits(h) /\ Stays(c)
      /\ rows \in [Tables -> SUBSET Row] /\ seq \in [Tables -> Nat]
      /\ CountedBy(c) /\ Emptied(c)
  BY Typed DEF Named, TypeInv, TypeOK, IdsFit
<1>p. /\ \A pc : Running(c, pc) => pc = h.pc
      /\ \A op : AtOption(c, op) => h.pc = "option" /\ h.rest # <<>> /\ Opt(c).op = op
  BY DEF AtOption, Running, Opt
<1>r. \A t \in Tables : \A r \in rows[t] : r.id \in Nat
  BY <1>t DEF Row
<1>1. h.pc \in {"option", "truncate", "dropCounter", "dropDatabase"}
  BY <1>p DEF DropColumn, TruncateDrop, DropCollection, DropCounter, DropWholeDatabase
<1>2. Changes(c)
  BY <1>t, <1>1 DEF Stays, Changes, HandlerFits, DataPCs
<1>o. \A t \in Tables : t \in Reach(c) => UniqueOn(t) /\ Within(t, t)
  BY <1>1, OwnCounted DEF CounterBehind, RenamePCs
\* It is enough that rows are removed or lose their values, and that a counter
\* is reset only where there are no rows.
<1>3. ASSUME NEW t \in Tables, t \in Reach(c),
             \/ rows'[t] = {}
             \/ /\ seq'[t] = seq[t] \/ rows[t] = {}
                /\ \/ rows'[t] = rows[t]
                   \/ \A r \in rows'[t] : r.id = 0
      PROVE  UniqueOn(t)' /\ Within(t, t)'
  <2>1. seq'[t] \in Nat
    <3>1. seq' = seq \/ seq' = [seq EXCEPT ![h.tab] = 0] \/ seq' = [s \in Tables |-> 0]
      BY DEF DropColumn, TruncateDrop, DropCollection, DropCounter, DropWholeDatabase
    <3> QED BY <1>t, <3>1
  <2>2. UniqueOn(t) /\ Within(t, t)
    BY <1>o, <1>3
  <2> QED BY <1>3, <2>1, <2>2 DEF UniqueOn, Within
<1>4. CASE DropColumn(c)
  <2>1. /\ h.pc = "option" /\ seq' = seq /\ Loads(c, h.ptr)
        /\ rows' = [rows EXCEPT ![h.tab] =
                      IF Opt(c).item = AutoCol THEN {[r EXCEPT !.id = 0] : r \in @} ELSE @]
    BY <1>p, <1>4 DEF DropColumn
  <2>2. conn'[c].pc \in {"option", "store"}
    BY <2>1, LoadsOn
  <2>3. \A t \in Tables : rows'[t] = rows[t] \/ \A r \in rows'[t] : r.id = 0
    <3> SUFFICES ASSUME NEW t \in Tables, rows'[t] # rows[t], NEW r \in rows'[t]
                 PROVE  r.id = 0
      OBVIOUS
    <3>1. rows'[t] = {[q EXCEPT !.id = 0] : q \in rows[t]}
      BY <1>t, <2>1
    <3>2. PICK q \in rows[t] : r = [q EXCEPT !.id = 0]
      BY <3>1
    <3>3. q \in Row
      BY <1>t
    <3> QED BY <3>2, <3>3 DEF Row
  <2>4. \A t \in Tables : t \in Reach(c) => UniqueOn(t)' /\ Within(t, t)'
    BY <1>3, <2>1, <2>3
  <2>5. CountedBy(c)' /\ Emptied(c)' /\ Carries(c)'
    BY <2>2 DEF CountedBy, CounterBehind, Emptied, Carries, RenamePCs
  <2> QED BY <1>2, <2>2, <2>4, <2>5, OthersUnused DEF IdsStep
<1>5. CASE TruncateDrop(c)
  <2>1. seq' = seq /\ rows' = [rows EXCEPT ![h.tab] = {}] /\ Goto(c, "recreate")
    BY <1>5 DEF TruncateDrop, Dropped
  <2>2. conn'[c].pc = "recreate"
    BY <2>1, GoesOn
  <2>3. \A t \in Tables : rows'[t] = rows[t] \/ rows'[t] = {}
    BY <1>t, <2>1
  <2>4. \A t \in Tables : t \in Reach(c) => UniqueOn(t)' /\ Within(t, t)'
    BY <1>3, <2>1, <2>3
  <2>5. CountedBy(c)' /\ Emptied(c)' /\ Carries(c)'
    BY <2>2 DEF CountedBy, CounterBehind, Emptied, Carries, RenamePCs
  <2> QED BY <1>2, <2>2, <2>4, <2>5, OthersUnused DEF IdsStep
<1>6. CASE DropCollection(c)
  <2>1. /\ seq' = seq /\ rows' = [rows EXCEPT ![Opt(c).tab] = {}]
        /\ h.pc = "option" /\ h.rest # <<>> /\ Opt(c).op = "dropTable"
        /\ conn' = [conn EXCEPT ![c].pc = "dropCounter", ![c].tab = Opt(c).tab]
    BY <1>6, <1>p DEF DropCollection, Dropped
  <2>2. conn'[c].pc = "dropCounter" /\ conn'[c].tab = Opt(c).tab
    BY <1>t, <2>1 DEF Handler
  <2>3. \A t \in Tables : rows'[t] = rows[t] \/ rows'[t] = {}
    BY <1>t, <2>1
  <2>4. \A t \in Tables : t \in Reach(c) => UniqueOn(t)' /\ Within(t, t)'
    BY <1>3, <2>1, <2>3
  <2>6. Opt(c).tab \in Tables
    <3>1. Opt(c) \in AlterOption \cup IndexOption \cup RenamePair \cup DropName
      BY <1>t, <2>1 DEF HandlerFits, OptionsFit, Opt
    <3> QED BY <2>1, <3>1 DEF AlterOption, IndexOption, RenamePair, DropName
  <2>5. CountedBy(c)' /\ Emptied(c)' /\ Carries(c)'
    BY <1>t, <2>1, <2>2, <2>6 DEF CountedBy, CounterBehind, Emptied, Carries, RenamePCs
  <2> QED BY <1>2, <2>2, <2>4, <2>5, OthersUnused DEF IdsStep
<1>7. CASE DropCounter(c)
  <2>1. /\ rows' = rows /\ seq' = [seq EXCEPT ![h.tab] = 0] /\ h.pc = "dropCounter"
        /\ conn' = [conn EXCEPT ![c] = NextOption(c)]
    BY <1>7, <1>p DEF DropCounter, collVars
  <2>2. conn'[c].pc = "option"
    BY <2>1, GoesToNext
  <2>3. rows[h.tab] = {} /\ \A t \in Tables \ {h.tab} : seq'[t] = seq[t]
    BY <1>t, <2>1 DEF Emptied
  <2>4. \A t \in Tables : t \in Reach(c) => UniqueOn(t)' /\ Within(t, t)'
    BY <1>3, <2>1, <2>3
  <2>5. CountedBy(c)' /\ Emptied(c)' /\ Carries(c)'
    BY <2>2 DEF CountedBy, CounterBehind, Emptied, Carries, RenamePCs
  <2> QED BY <1>2, <2>2, <2>4, <2>5, OthersUnused DEF IdsStep
<1>8. CASE DropWholeDatabase(c)
  <2>1. rows' = [t \in Tables |-> {}] /\ Finish(c)
    BY <1>8 DEF DropWholeDatabase
  <2>2. conn'[c].pc = "idle"
    BY <2>1, Ends
  <2>4. \A t \in Tables : t \in Reach(c) => UniqueOn(t)' /\ Within(t, t)'
    BY <1>3, <2>1
  <2>5. CountedBy(c)' /\ Emptied(c)' /\ Carries(c)'
    BY <2>2 DEF CountedBy, CounterBehind, Emptied, Carries, RenamePCs
  <2> QED BY <1>2, <2>2, <2>4, <2>5, OthersUnused DEF IdsStep
<1> QED BY <1>4, <1>5, <1>6, <1>7, <1>8

\* INSERT takes a value and stores it later; other INSERTs into the table may do
\* the same meanwhile.
LEMMA DataIds ==
  ASSUME Unnumbered, TypeInv, Named, IdsFit, NEW c \in Conns, Keeps(c),
         NextAutoIncrement(c) \/ NoAutoIncrement(c) \/ InsertMany(c) \/ DeleteMany(c)
  PROVE  IdsStep(c)
<1> DEFINE h == conn[c]
           t == h.tab
<1>t. /\ h \in Handler /\ conn \in [Conns -> Handler] /\ HandlerFits(h) /\ Stays(c)
      /\ HoldsNamed(c) /\ rows \in [Tables -> SUBSET Row] /\ seq \in [Tables -> Nat]
      /\ \A d \in Conns : conn[d] \in Handler /\ HandlerFits(conn[d]) /\ Unused(d)
      /\ \A d \in Conns \ {c} : conn'[d] = conn[d] /\ Distinct(c, d)
  BY Typed DEF Named, TypeInv, TypeOK, IdsFit, Keeps
<1>p. /\ \A pc : Running(c, pc) => pc = h.pc
  BY DEF Running
<1>1. h.pc \in DataPCs /\ h.pc \notin RenamePCs /\ t \in Tables /\ t \in Reach(c)
  <2>1. h.pc \in {"applyDefaults", "insertMany", "deleteMany"}
    BY <1>p DEF NextAutoIncrement, NoAutoIncrement, InsertMany, DeleteMany
  <2>2. t # None
    BY <1>t, <2>1 DEF HandlerFits, OneTablePCs
  <2> QED BY <1>t, <2>1, <2>2, OwnTable DEF DataPCs, RenamePCs
<1>o. \A s \in Tables : s \in Reach(c) => UniqueOn(s) /\ Within(s, s)
  BY <1>1, OwnCounted DEF CounterBehind
<1>r. \A s \in Tables : \A r \in rows[s] : r.id \in Nat /\ r \in Row
  BY <1>t DEF Row
<1>b. ASSUME NEW d \in Conns, Bringing(d) PROVE conn[d].tab \in Tables /\ conn[d].id \in Nat
  BY <1>b, <1>t DEF Bringing, HandlerFits, OneTablePCs, Handler
<1>2. CASE NextAutoIncrement(c)
  <2>1. /\ h.pc = "applyDefaults" /\ rows' = rows /\ heap[call[c].ptr].name = t
        /\ seq' = [seq EXCEPT ![t] = @ + 1]
        /\ conn' = [conn EXCEPT ![c].pc = "insertMany", ![c].id = seq[t] + 1]
    BY <1>2, <1>p, <1>t DEF NextAutoIncrement, NeedsId, HoldsNamed, collVars
  <2>2. conn'[c].pc = "insertMany" /\ conn'[c].id = seq[t] + 1 /\ conn'[c].tab = t
    BY <1>t, <2>1 DEF Handler
  <2>3. seq'[t] = seq[t] + 1 /\ seq[t] \in Nat /\ \A s \in Tables \ {t} : seq'[s] = seq[s]
    BY <1>t, <1>1, <2>1
  <2>4. ASSUME NEW s \in Tables, s \in Reach(c) PROVE UniqueOn(s)' /\ Within(s, s)'
    BY <1>o, <1>r, <2>1, <2>3, <2>4 DEF UniqueOn, Within
  <2>5. CountedBy(c)' /\ Emptied(c)' /\ Carries(c)'
    BY <2>2 DEF CountedBy, CounterBehind, Emptied, Carries, RenamePCs
  <2>6. Within(t, t)
    BY <1>o, <1>1
  <2>7. Unused(c)'
    <3>1. \A r \in rows[t] : r.id \in Nat /\ r.id <= seq[t]
      BY <1>r, <1>1, <2>6 DEF Within
    <3>2. \A r \in rows[t] : r.id # seq[t] + 1
      BY <2>3, <3>1
    <3>3. conn'[c].id <= seq'[conn'[c].tab]
      BY <2>2, <2>3
    <3>4. \A r \in rows'[conn'[c].tab] : r.id # conn'[c].id
      BY <2>1, <2>2, <3>2
    <3> QED BY <3>3, <3>4 DEF Unused
  <2>8. ASSUME NEW d \in Conns \ {c} PROVE Unused(d)' /\ Distinct(c, d)'
    <3>1. Unused(d)'
      BY <1>b, <1>t, <2>1, <2>3 DEF Unused, Bringing
    <3>2. Bringing(d) /\ conn[d].tab = t => conn[d].id <= seq[t] /\ conn[d].id \in Nat
      BY <1>b, <1>t DEF Unused
    <3>3. Distinct(c, d)'
      BY <1>t, <2>2, <2>3, <3>2 DEF Distinct, Bringing
    <3> QED BY <3>1, <3>3
  <2> QED BY <2>4, <2>5, <2>7, <2>8 DEF IdsStep
<1>3. CASE NoAutoIncrement(c)
  <2>1. /\ h.pc = "applyDefaults" /\ rows' = rows /\ seq' = seq
        /\ conn' = [conn EXCEPT ![c].pc = "insertMany", ![c].id = h.stmt.id]
    BY <1>3, <1>p DEF NoAutoIncrement, mongoVars
  <2>2. h.stmt \in Workload
    BY <1>t, <2>1 DEF HandlerFits, Handler
  <2>3. conn'[c].pc = "insertMany" /\ conn'[c].id = 0
    BY <1>t, <2>1, <2>2 DEF Handler, Unnumbered
  <2>4. ASSUME NEW s \in Tables, s \in Reach(c) PROVE UniqueOn(s)' /\ Within(s, s)'
    BY <1>o, <2>1, <2>4 DEF UniqueOn, Within
  <2>5. CountedBy(c)' /\ Emptied(c)' /\ Carries(c)' /\ Unused(c)'
    BY <2>3 DEF CountedBy, CounterBehind, Emptied, Carries, RenamePCs, Unused, Bringing
  <2>6. ASSUME NEW d \in Conns \ {c} PROVE Unused(d)' /\ Distinct(c, d)'
    BY <1>t, <2>1, <2>3 DEF Unused, Distinct, Bringing
  <2> QED BY <2>4, <2>5, <2>6 DEF IdsStep
<1>4. CASE InsertMany(c)
  <2> DEFINE new == [id |-> h.id, nr |-> h.nr]
  <2>1. /\ h.pc = "insertMany" /\ seq' = seq /\ Finish(c)
        /\ rows' = [rows EXCEPT ![t] = @ \cup {new}]
    BY <1>4, <1>p DEF InsertMany
  <2>2. conn'[c].pc = "idle"
    BY <2>1, Ends
  <2>3. rows'[t] = rows[t] \cup {new} /\ \A s \in Tables \ {t} : rows'[s] = rows[s]
    BY <1>t, <1>1, <2>1
  <2>4. new.id # 0 => /\ new.id <= seq[t] /\ \A r \in rows[t] : r.id # new.id
    BY <1>t, <2>1 DEF Unused, Bringing
  <2>5. new.id = h.id /\ h.id \in Nat /\ seq[t] \in Nat
    BY <1>t, <1>1 DEF Handler
  <2>6. ASSUME NEW s \in Tables, s \in Reach(c) PROVE UniqueOn(s)' /\ Within(s, s)'
    <3>1. UniqueOn(s) /\ Within(s, s)
      BY <1>o, <2>6
    <3>2. CASE s = t
      BY <2>1, <2>3, <2>4, <2>5, <3>1, <3>2 DEF UniqueOn, Within
    <3>3. CASE s # t
      BY <2>1, <2>3, <3>1, <3>3 DEF UniqueOn, Within
    <3> QED BY <3>2, <3>3
  <2>7. CountedBy(c)' /\ Emptied(c)' /\ Carries(c)' /\ Unused(c)'
    BY <2>2 DEF CountedBy, CounterBehind, Emptied, Carries, RenamePCs, Unused, Bringing
  <2>8. ASSUME NEW d \in Conns \ {c} PROVE Unused(d)' /\ Distinct(c, d)'
    <3>1. Bringing(d) /\ conn[d].tab = t => new.id # conn[d].id
      <4>1. h.id = 0 => new.id = 0
        BY <2>5
      <4> QED BY <1>t, <2>1, <2>5 DEF Distinct, Bringing
    <3>2. Unused(d)'
      BY <1>b, <1>t, <2>1, <2>3, <3>1 DEF Unused, Bringing
    <3> QED BY <2>2, <3>2 DEF Distinct, Bringing
  <2> QED BY <2>6, <2>7, <2>8 DEF IdsStep
<1>5. CASE DeleteMany(c)
  <2>1. seq' = seq /\ Finish(c) /\ \A s \in Tables : rows'[s] \subseteq rows[s]
    BY <1>5, <1>t DEF DeleteMany
  <2>2. conn'[c].pc = "idle"
    BY <2>1, Ends
  <2>3. ASSUME NEW s \in Tables, s \in Reach(c) PROVE UniqueOn(s)' /\ Within(s, s)'
    BY <1>o, <2>1, <2>3 DEF UniqueOn, Within
  <2>4. CountedBy(c)' /\ Emptied(c)' /\ Carries(c)' /\ Unused(c)'
    BY <2>2 DEF CountedBy, CounterBehind, Emptied, Carries, RenamePCs, Unused, Bringing
  <2>5. ASSUME NEW d \in Conns \ {c} PROVE Unused(d)' /\ Distinct(c, d)'
    BY <1>b, <1>t, <2>1, <2>2 DEF Unused, Distinct, Bringing
  <2> QED BY <2>3, <2>4, <2>5 DEF IdsStep
<1> QED BY <1>2, <1>3, <1>4, <1>5

LEMMA HandleBudgets ==
  ASSUME NEW c \in Conns, Handle(c)
  PROVE  UNCHANGED <<restarts, faults>>
BY DEF Handle, CheckExists, CreateFails, CreateCollection, CreateIndexes, TruncateDrop,
   TruncateCreate, DropWholeDatabase, Start, AddColumn, ModifyColumn, DropColumn, AddIndex,
   DropKey, IndexStatement, Load, Store, EndOptions, Finished, DropCollection, DropCounter,
   RenameFails, RenameCollection, MigrateSchema, DropOldSchema, FindCounter, SetCounter,
   DeleteCounter, NextAutoIncrement, NoAutoIncrement, InsertMany, UpdateMany, DeleteMany, budgets

LEMMA HandleIds ==
  ASSUME Unnumbered, TypeInv, Named, IdsFit, NEW c \in Conns, Handle(c)
  PROVE  IdsFit'
<1>1. Keeps(c)
  BY HandleKeeps
<1>2. CASE QuietStep(c)
  BY <1>1, <1>2, QuietGoes, RowsStay, IdsNext
<1>3. CASE \/ RenameCollection(c) \/ MigrateSchema(c) \/ DropOldSchema(c) \/ FindCounter(c)
           \/ SetCounter(c) \/ DeleteCounter(c)
  BY <1>1, <1>3, RenameIds, IdsNext
<1>4. CASE \/ DropColumn(c) \/ TruncateDrop(c) \/ DropCollection(c) \/ DropCounter(c)
           \/ DropWholeDatabase(c)
  BY <1>1, <1>4, DropIds, IdsNext
<1>5. CASE NextAutoIncrement(c) \/ NoAutoIncrement(c) \/ InsertMany(c) \/ DeleteMany(c)
  BY <1>1, <1>5, DataIds, IdsNext
<1> QED BY <1>2, <1>3, <1>4, <1>5 DEF Handle, QuietStep

\* The ids are in rows, counters and handlers; a store call touches none.
LEMMA CallIds ==
  ASSUME IdsFit, UNCHANGED <<conn, rows, seq>>
  PROVE  IdsFit'
BY DEF IdsFit, UniqueOn, Counted, CountedBy, CounterBehind, Within, Opt, Emptied, Carries, Unused,
   Distinct, Bringing

LEMMA BeginIds ==
  ASSUME TypeInv, IdsFit, NEW c \in Conns, NEW s \in Workload, Begin(c, s)
  PROVE  IdsFit'
<1>1. FirstStep(s) \notin RenamePCs \cup {"dropCounter", "insertMany"}
  BY StatementShape, BeginsOwn
<1>2. /\ conn[c].pc = "idle" /\ UNCHANGED <<rows, seq>>
      /\ \A d \in Conns \ {c} : conn'[d] = conn[d]
      /\ conn'[c].pc = FirstStep(s)
  BY Typed DEF Begin, mongoVars
<1>3. /\ CountedBy(c)' /\ Emptied(c)' /\ Carries(c)' /\ ~Bringing(c)'
  BY <1>1, <1>2 DEF CountedBy, CounterBehind, Emptied, Carries, Bringing, RenamePCs
<1>4. ASSUME NEW d \in Conns \ {c}
      PROVE  CountedBy(d)' /\ Emptied(d)' /\ Carries(d)' /\ Unused(d)'
  BY <1>2 DEF IdsFit, CountedBy, CounterBehind, Within, Opt, Emptied, Carries, Unused, Bringing
<1>5. ASSUME NEW t \in Tables PROVE UniqueOn(t)' /\ Counted(t)'
  <2>1. \A d \in Conns : CounterBehind(d) => d # c
    BY <1>2 DEF CounterBehind, RenamePCs
  <2> QED BY <1>2, <2>1 DEF IdsFit, UniqueOn, Counted, CounterBehind, Within, Opt
<1>6. ASSUME NEW d \in Conns, NEW e \in Conns \ {d} PROVE Distinct(d, e)'
  BY <1>2, <1>3 DEF IdsFit, Distinct, Bringing
<1> QED BY <1>3, <1>4, <1>5, <1>6 DEF IdsFit, Unused

LEMMA IdsKept ==
  ASSUME Unnumbered, TypeInv, Named, IdsInv, [Next]_vars
  PROVE  IdsInv'
<1> SUFFICES ASSUME Uninterrupted' PROVE IdsFit'
  BY DEF IdsInv
<1>0. ASSUME UNCHANGED <<restarts, faults>> PROVE IdsFit
  BY <1>0 DEF IdsInv, Uninterrupted
<1>1. ASSUME NEW c \in Conns, NEW s \in Workload, Begin(c, s) PROVE IdsFit'
  BY <1>0, <1>1, BeginIds DEF Begin
<1>2. ASSUME NEW c \in Conns, CallStep(c) PROVE IdsFit'
  BY <1>0, <1>2, CallIds DEF CallStep, budgets
<1>3. ASSUME NEW c \in Conns, Handle(c) PROVE IdsFit'
  BY <1>0, <1>3, HandleBudgets, HandleIds
<1>4. ASSUME NEW c \in Conns, Fault(c) PROVE FALSE
  BY <1>4 DEF Fault, TypeInv, TypeOK, Uninterrupted
<1>5. CASE Restart
  BY <1>5 DEF Restart, TypeInv, TypeOK, Uninterrupted
<1>6. CASE UNCHANGED vars
  BY <1>0, <1>6, CallIds DEF vars
<1> QED BY <1>1, <1>2, <1>3, <1>4, <1>5, <1>6 DEF Next, Quiet

\* No two rows of a table ever have the same AUTO_INCREMENT value, although
\* tables are dropped and created again, truncated and renamed, one place after
\* another, with INSERTs of any number of connections in between: if clients are
\* Serial, leave the values to the counter, and no round trip and no process has
\* failed.
THEOREM IdsCorrect ==
  ASSUME Serial, Unnumbered
  PROVE  Spec => []IdsStayUnique
<1>1. Init => IdsInv
  BY DEF Init, IdsInv, IdsFit, UniqueOn, Counted, CountedBy, CounterBehind, Within, Emptied,
     Carries, Unused, Distinct, Bringing, Idle, RenamePCs
<1>2. TypeInv /\ Named /\ IdsInv /\ [Next]_vars => IdsInv'
  BY IdsKept
<1>3. IdsInv => IdsStayUnique
  BY DEF IdsInv, IdsFit, UniqueOn, IdsStayUnique, UniqueIds
<1> QED BY <1>1, <1>2, <1>3, ShapeCorrect, NamedInvariant, PTL DEF Spec

----------------------------------------------------------------------------
(* What is left of a table that is gone.  DROP DATABASE is not covered: it  *)
(* leaves the cache entries of its tables.                                  *)

NoDropDatabase == \A s \in Workload : s.kind # "dropDatabase"

\* Whoever holds a schema, or creates or renames a table, has the collection.
Present(c) ==
  /\ conn[c].pc = "createIndexes" => conn[c].tab \in colls
  /\ conn[c].pc \in RenamePCs => Opt(c).to \in colls
  /\ conn[c].pc \notin RenamePCs \cup {"recreate"} /\ (call[c].ptr # None \/ conn[c].ptr # None)
       => conn[c].tab \in colls

\* How far a table that is dropped, or the old name of one that is renamed, has
\* been cleared.  The cache entry of the old name is Vacated's matter.
Cleared(c) ==
  /\ conn[c].pc = "dropCounter" /\ ~At(c, "evict") => cache[conn[c].tab] = None
  /\ /\ Returned(c)
     /\ \/ conn[c].pc \in CounterPCs \cup {"dropCounter"}
        \/ conn[c].pc = "migrate" /\ call[c].ptr = None
     => docs[conn[c].tab] = None

Vanishing(c, t) ==
  conn[c].tab = t /\ conn[c].pc \in RenamePCs \cup {"dropCounter", "recreate"}

Gone(t) == cache[t] = None /\ docs[t] = None /\ seq[t] = 0

NothingLeft ==
  /\ \A c \in Conns : Present(c) /\ Cleared(c)
  /\ \A t \in Tables : t \in colls \/ Gone(t) \/ \E c \in Conns : Vanishing(c, t)

NothingLeftInv == Uninterrupted => NothingLeft

\* What a step of c has to show.
LeftStep(c) ==
  /\ Present(c)' /\ Cleared(c)'
  /\ \A t \in Tables : t \in Reach(c) => t \in colls' \/ Gone(t)' \/ Vanishing(c, t)'
  /\ Changes(c) \/ colls \subseteq colls'

LEMMA VanishingReached ==
  ASSUME TypeInv, Named, NEW c \in Conns, NEW t \in Tables, Vanishing(c, t)
  PROVE  Changes(c) /\ t \in Reach(c)
BY Typed, NoneIsDistinct DEF Vanishing, HandlerFits, Named, Stays, Changes, RenamePCs, DataPCs

LEMMA OwnLeft ==
  ASSUME TypeInv, Named, NothingLeft, NEW c \in Conns, NEW t \in Tables, t \in Reach(c)
  PROVE  t \in colls \/ Gone(t) \/ Vanishing(c, t)
BY VanishingReached DEF NothingLeft, Named, Apart

LEMMA LeftNext ==
  ASSUME TypeInv, Named, NothingLeft, NEW c \in Conns, Keeps(c), LeftStep(c)
  PROVE  NothingLeft'
<1>1. ASSUME NEW d \in Conns \ {c} PROVE Present(d)' /\ Cleared(d)'
  <2>1. conn'[d] = conn[d] /\ call'[d] = call[d] /\ Present(d) /\ Cleared(d) /\ Stays(d)
    BY DEF Keeps, NothingLeft, Named
  <2>2. Opt(d)' = Opt(d)
    BY <2>1 DEF Opt
  <2>3. ASSUME NEW t \in Tables, t \in Reach(d), t \in colls PROVE t \in colls'
    BY <2>3 DEF LeftStep, Keeps, Named, Apart
  <2>4. conn[d].tab \in colls => conn[d].tab \in colls'
    BY <2>1, <2>3, NoneIsDistinct DEF TypeInv, TypeOK, Stays
  <2>5. conn[d].pc \in RenamePCs => (Opt(d).to \in colls => Opt(d).to \in colls')
    BY <2>3, RenameReach
  <2>6. Present(d)'
    BY <2>1, <2>2, <2>4, <2>5 DEF Present
  <2>7. ASSUME conn[d].pc \in RenamePCs \cup {"dropCounter"}
        PROVE  cache'[conn[d].tab] = cache[conn[d].tab] /\ docs'[conn[d].tab] = docs[conn[d].tab]
    BY <2>7, Alone DEF Keeps
  <2>8. Cleared(d)'
    BY <2>1, <2>7 DEF Cleared, At, Returned, CounterPCs, RenamePCs
  <2> QED BY <2>6, <2>8
<1>2. ASSUME NEW t \in Tables \ Reach(c)
      PROVE  t \in colls' \/ Gone(t)' \/ \E d \in Conns : Vanishing(d, t)'
  <2>1. (t \in colls => t \in colls') /\ (Gone(t) => Gone(t)')
    BY DEF Keeps, Gone
  <2>2. ASSUME NEW d \in Conns, Vanishing(d, t) PROVE Vanishing(d, t)'
    BY <2>2, VanishingReached DEF Keeps, Vanishing
  <2> QED BY <2>1, <2>2 DEF NothingLeft
<1> QED BY <1>1, <1>2 DEF NothingLeft, LeftStep

\* A table with a schema that nobody is removing is there.
LEMMA Alive ==
  ASSUME TypeInv, Named, NothingLeft, NEW c \in Conns, conn[c].tab # None,
         conn[c].pc \notin RenamePCs \cup {"dropCounter", "recreate"},
         cache[conn[c].tab] # None \/ docs[conn[c].tab] # None
  PROVE  conn[c].tab \in colls
<1>1. conn[c].tab \in Tables /\ conn[c].tab \in Reach(c)
  BY OwnTable DEF Named
<1> QED BY <1>1, OwnLeft DEF Gone, Vanishing

\* A step outside of renames and removals that creates collections at most.
LEMMA OrdinaryLeft ==
  ASSUME TypeInv, Named, NothingLeft, NEW c \in Conns, UNCHANGED <<cache, docs, seq>>,
         colls \subseteq colls',
         conn[c].pc \notin RenamePCs \cup {"dropCounter", "recreate"},
         conn'[c].pc \notin RenamePCs \cup {"dropCounter"},
         Present(c)'
  PROVE  LeftStep(c)
<1>1. Cleared(c)'
  BY DEF Cleared, CounterPCs, RenamePCs
<1>2. \A t \in Tables : t \in Reach(c) => t \in colls' \/ Gone(t)'
  BY OwnLeft DEF Gone, Vanishing
<1> QED BY <1>1, <1>2 DEF LeftStep

LEMMA PresentGoes ==
  ASSUME NothingLeft, NEW c \in Conns, colls \subseteq colls',
         conn[c].pc \notin RenamePCs \cup {"recreate"},
         conn'[c].pc \notin RenamePCs \cup {"recreate", "createIndexes"},
         call'[c].ptr # None \/ conn'[c].ptr # None =>
           /\ call[c].ptr # None \/ conn[c].ptr # None
           /\ conn'[c].tab = conn[c].tab
  PROVE  Present(c)'
BY DEF NothingLeft, Present

LEMMA CallLeft ==
  ASSUME TypeInv, Named, NothingLeft, NEW c \in Conns, CallStep(c)
  PROVE  LeftStep(c)
<1> DEFINE k == call[c]
           h == conn[c]
           Getting == {"start", "load", "migrate", "applyDefaults", "updateMany"}
<1>t. /\ Stays(c) /\ HoldsNamed(c) /\ Present(c) /\ Cleared(c)
      /\ k \in Call /\ CallFits(k) /\ h \in Handler /\ HandlerFits(h)
      /\ call \in [Conns -> Call] /\ docs \in [Tables -> {None} \cup Listing]
      /\ cache \in [Tables -> {None} \cup Ptrs] /\ heap \in [Ptrs -> {None} \cup TableSchema]
  BY Typed DEF Named, NothingLeft
<1>c. UNCHANGED <<conn, colls, seq>> /\ Opt(c)' = Opt(c)
  BY DEF CallStep, Opt
<1>r. \A p : Return(c, p) => call'[c].at = "returned" /\ call'[c].ptr = p
  BY <1>t DEF Return, NoCall
<1>a. \A at : call' = [call EXCEPT ![c].at = at] =>
        call'[c].at = at /\ call'[c].tab = k.tab /\ call'[c].ptr = k.ptr
  BY <1>t DEF Call
<1>o. \A t \in Tables : t \in Reach(c) => t \in colls \/ Gone(t) \/ Vanishing(c, t)
  BY OwnLeft
<1>v. \A t : Vanishing(c, t) => Vanishing(c, t)'
  BY <1>c DEF Vanishing
<1>1. CASE Lookup(c) \/ FindMissing(c) \/ \E p \in Fresh : FindDocument(c, p)
  <2>1. /\ k.at \in {"lookup", "find"} /\ k.tab = h.tab /\ h.tab # None /\ h.pc \in Getting
        /\ UNCHANGED <<cache, docs>>
    BY <1>t, <1>1 DEF Lookup, FindMissing, FindDocument, At, Stays, CallPCs, CallFits
  <2>2. /\ call'[c].at = "returned" /\ call'[c].ptr = None => docs[h.tab] = None
        /\ call'[c].ptr # None => \/ cache[h.tab] # None \/ docs[h.tab] # None
                                  \/ k.ptr # None
    <3>1. CASE Lookup(c) /\ cache[k.tab] # None
      BY <1>r, <2>1, <3>1 DEF Lookup
    <3>2. CASE Lookup(c) /\ cache[k.tab] = None
      BY <1>a, <2>1, <3>2 DEF Lookup
    <3>3. CASE FindMissing(c)
      BY <1>r, <2>1, <3>3 DEF FindMissing
    <3>4. CASE \E p \in Fresh : FindDocument(c, p)
      <4>1. call'[c].at = "fill" /\ docs[h.tab] # None
        BY <1>t, <2>1, <3>4 DEF FindDocument, Call
      <4> QED BY <4>1
    <3> QED BY <1>1, <3>1, <3>2, <3>3, <3>4
  <2>3. Present(c)'
    <3>1. h.pc # "migrate" /\ call'[c].ptr # None => h.tab \in colls
      BY <1>t, <2>1, <2>2, Alive DEF RenamePCs, Present
    <3> QED BY <1>t, <1>c, <2>1, <3>1 DEF Present, RenamePCs
  <2>4. Cleared(c)'
    BY <1>c, <2>1, <2>2 DEF Cleared, Returned, CounterPCs
  <2>5. \A t \in Tables : Gone(t) => Gone(t)'
    BY <1>c, <2>1 DEF Gone
  <2> QED BY <1>c, <1>o, <1>v, <2>3, <2>4, <2>5 DEF LeftStep
<1>2. CASE Fill(c)
  <2>1. /\ k.tab = h.tab /\ h.tab # None /\ h.pc \in Getting /\ k.ptr # None
        /\ UNCHANGED docs /\ cache' = [cache EXCEPT ![h.tab] = k.ptr]
        /\ call'[c].at = "returned" /\ call'[c].ptr = k.ptr
    BY <1>t, <1>r, <1>2 DEF Fill, At, Stays, CallPCs, CallFits
  <2>2. Present(c)'
    BY <1>t, <1>c, <2>1 DEF Present
  <2>3. Cleared(c)'
    BY <1>c, <2>1 DEF Cleared, CounterPCs
  <2>4. h.tab \in colls \/ Vanishing(c, h.tab)
    BY <1>t, <2>1 DEF Present, Vanishing, RenamePCs
  <2>5. \A t \in Tables : t # h.tab /\ Gone(t) => Gone(t)'
    BY <1>c, <1>t, <2>1 DEF Gone
  <2> QED BY <1>c, <1>o, <1>v, <2>2, <2>3, <2>4, <2>5 DEF LeftStep
\* What is stored and cached is stored and cached for a table that is there.
<1>3. CASE Upsert(c) \/ Publish(c)
  <2> DEFINE n == heap[k.ptr].name
  <2>1. /\ h.pc \in {"createIndexes", "dropOld", "finish"} /\ k.ptr # None
        /\ n = IF h.pc = "dropOld" THEN Opt(c).to ELSE h.tab
    BY <1>t, <1>3 DEF Upsert, Publish, At, Stays, CallPCs, CallFits, HoldsNamed
  <2>2. n \in colls
    BY <1>t, <2>1 DEF Present, RenamePCs
  <2>3. \A t \in Tables : t # n => cache'[t] = cache[t] /\ docs'[t] = docs[t]
    BY <1>3, <1>t DEF Upsert, Publish
  <2>4. call'[c].ptr = k.ptr
    BY <1>3, <1>a, <1>r DEF Upsert, Publish
  <2>5. Present(c)' /\ Cleared(c)'
    BY <1>t, <1>c, <2>1, <2>4 DEF Present, Cleared, CounterPCs, RenamePCs
  <2>6. ASSUME NEW t \in Tables, t \in Reach(c) PROVE t \in colls' \/ Gone(t)' \/ Vanishing(c, t)'
    <3>1. CASE t = n
      BY <1>c, <2>2, <3>1
    <3>2. CASE t # n
      BY <1>c, <1>o, <1>v, <2>3, <2>6, <3>2 DEF Gone
    <3> QED BY <3>1, <3>2
  <2> QED BY <1>c, <2>5, <2>6 DEF LeftStep
<1>4. CASE Evict(c) \/ Erase(c)
  <2>1. /\ k.tab = h.tab /\ h.tab # None /\ h.tab \in Tables /\ h.pc \in {"dropCounter", "findCounter"}
    BY <1>t, <1>4 DEF Evict, Erase, At, Stays, CallPCs, CallFits, Handler
  <2>2. \A t \in Tables : /\ cache'[t] \in {None, cache[t]} /\ docs'[t] \in {None, docs[t]}
    BY <1>4, <1>t DEF Evict, Erase
  <2>3. /\ At(c, "evict") => /\ call'[c].at = "erase" /\ cache'[h.tab] = None
                             /\ call'[c].ptr = k.ptr
        /\ ~At(c, "evict") => /\ call'[c].at = "returned" /\ docs'[h.tab] = None
                              /\ call'[c].ptr = None /\ cache' = cache
    <3>1. CASE Evict(c)
      BY <1>a, <1>t, <2>1, <3>1 DEF Evict
    <3>2. CASE Erase(c)
      BY <1>r, <1>t, <2>1, <3>2 DEF Erase, At
    <3> QED BY <1>4, <3>1, <3>2
  <2>4. Present(c)'
    BY <1>t, <1>c, <2>3 DEF Present
  <2>5. Cleared(c)'
    BY <1>t, <1>c, <2>1, <2>3 DEF Cleared, At, Returned
  <2>6. \A t \in Tables : Gone(t) => Gone(t)'
    BY <1>c, <2>2 DEF Gone
  <2> QED BY <1>c, <1>o, <1>v, <2>4, <2>5, <2>6 DEF LeftStep
<1> QED BY <1>1, <1>2, <1>3, <1>4 DEF CallStep, StoreStep

\* The steps outside of renames and removals.
LEMMA OrdinaryHandle ==
  ASSUME TypeInv, Named, NothingLeft, NEW c \in Conns,
         \/ CheckExists(c) \/ CreateFails(c) \/ CreateIndexes(c)
         \/ Start(c) \/ AddColumn(c) \/ ModifyColumn(c) \/ DropColumn(c) \/ AddIndex(c) \/ DropKey(c)
         \/ IndexStatement(c) \/ Load(c) \/ Store(c) \/ EndOptions(c) \/ Finished(c)
         \/ RenameFails(c) \/ NoAutoIncrement(c) \/ InsertMany(c) \/ UpdateMany(c) \/ DeleteMany(c)
  PROVE  LeftStep(c)
<1> DEFINE h == conn[c]
<1>t. h \in Handler /\ conn \in [Conns -> Handler] /\ call \in [Conns -> Call]
  BY Typed
<1>1. UNCHANGED <<cache, docs, seq>> /\ colls \subseteq colls'
  BY DEF CheckExists, CreateFails, CreateIndexes, Start, AddColumn, ModifyColumn, DropColumn,
     AddIndex, DropKey, IndexStatement, Load, Store, EndOptions, Finished, RenameFails,
     NoAutoIncrement, InsertMany, UpdateMany, DeleteMany, mongoVars, Indexed, Unindexed
<1>2. h.pc \notin RenamePCs \cup {"dropCounter", "recreate"}
  BY DEF CheckExists, CreateFails, CreateIndexes, Start, AddColumn, ModifyColumn, DropColumn,
     AddIndex, DropKey, IndexStatement, Load, Store, EndOptions, Finished, RenameFails,
     NoAutoIncrement, InsertMany, UpdateMany, DeleteMany, Running, AtOption, RenamePCs
<1> DEFINE Goes == /\ conn'[c].pc \in {"idle", "create", "option", "store", "load", "finish",
                                     "insertMany"}
                   /\ call'[c].ptr # None \/ conn'[c].ptr # None =>
                        /\ call[c].ptr # None \/ conn[c].ptr # None
                        /\ conn'[c].tab = conn[c].tab
<1>3. Finish(c) => Goes
  BY Ends
<1>4. \A p : Loads(c, p) /\ p \in {h.ptr, call[c].ptr} /\ call' = call => Goes
  <2> SUFFICES ASSUME NEW p, Loads(c, p), p \in {h.ptr, call[c].ptr}, call' = call PROVE Goes
    OBVIOUS
  <2>1. /\ conn'[c].tab = h.tab
        /\ IF p = None THEN conn'[c].pc = "option" /\ conn'[c].ptr = h.ptr
                       ELSE conn'[c].pc = "store" /\ conn'[c].ptr = p
    BY LoadsOn
  <2> QED BY <2>1
<1>5. Goes
  <2>1. CASE AddColumn(c) \/ ModifyColumn(c) \/ DropColumn(c) \/ AddIndex(c) \/ DropKey(c) \/ Load(c)
    BY <1>4, <2>1 DEF AddColumn, ModifyColumn, DropColumn, AddIndex, DropKey, Load
  <2>2. CASE Start(c)
    <3>1. /\ conn'[c].pc = "option" /\ conn'[c].tab = h.tab /\ conn'[c].ptr = call[c].ptr
          /\ call' = call
      BY <1>t, <2>2 DEF Start, Handler
    <3> QED BY <3>1
  <2>3. CASE IndexStatement(c)
    <3>1. Goto(c, "load") /\ call'[c] = GetOf(h.tab)
      BY <1>t, <2>3 DEF IndexStatement, Begins
    <3> QED BY <3>1, GoesOn DEF GetOf
  <2>4. CASE Store(c)
    <3>1. conn' = [conn EXCEPT ![c] = NextOption(c)] /\ call' = call
      BY <2>4 DEF Store
    <3> QED BY <3>1, GoesToNext
  <2>5. CASE EndOptions(c) /\ ~Finish(c)
    <3>1. Goto(c, "finish") /\ call'[c] = SaveOf(h.ptr)
      BY <1>t, <2>5 DEF EndOptions, Begins
    <3> QED BY <3>1, GoesOn DEF SaveOf
  <2>6. CASE NoAutoIncrement(c)
    <3>1. /\ conn'[c].pc = "insertMany" /\ conn'[c].tab = h.tab /\ conn'[c].ptr = h.ptr
          /\ call' = call
      BY <1>t, <2>6 DEF NoAutoIncrement, Handler
    <3> QED BY <3>1
  <2>7. CASE CheckExists(c) /\ ~Finish(c)
    <3>1. Goto(c, "create") /\ call' = call
      BY <2>7 DEF CheckExists
    <3> QED BY <3>1, GoesOn
  <2> QED
    BY <1>3, <2>1, <2>2, <2>3, <2>4, <2>5, <2>6, <2>7 DEF CreateFails, CreateIndexes, Finished,
       RenameFails, InsertMany, UpdateMany, DeleteMany
<1>6. Present(c)'
  BY <1>1, <1>2, <1>5, PresentGoes DEF RenamePCs
<1> QED BY <1>1, <1>2, <1>5, <1>6, OrdinaryLeft DEF RenamePCs

LEMMA CreateLeft ==
  ASSUME TypeInv, Named, NothingLeft, NEW c \in Conns,
         \/ \E p \in Fresh : CreateCollection(c, p)
         \/ TruncateDrop(c) \/ TruncateCreate(c) \/ NextAutoIncrement(c)
  PROVE  LeftStep(c)
<1> DEFINE h == conn[c]
<1>t. /\ h \in Handler /\ HandlerFits(h) /\ conn \in [Conns -> Handler] /\ call \in [Conns -> Call]
      /\ Present(c) /\ Stays(c) /\ HoldsNamed(c)
  BY Typed DEF NothingLeft, Named
<1>p. \A pc : Running(c, pc) => pc = h.pc /\ Returned(c)
  BY DEF Running
<1>o. \A t \in Tables : t \in Reach(c) => t \in colls \/ Gone(t) \/ Vanishing(c, t)
  BY OwnLeft
<1>1. CASE \E p \in Fresh : CreateCollection(c, p)
  <2>1. /\ h.pc = "create" /\ colls' = colls \cup {h.tab} /\ Goto(c, "createIndexes")
        /\ UNCHANGED <<cache, docs, seq>>
    BY <1>p, <1>1 DEF CreateCollection
  <2>2. conn'[c].pc = "createIndexes" /\ conn'[c].tab = h.tab
    BY <2>1, GoesOn
  <2>3. Present(c)'
    BY <2>1, <2>2 DEF Present, RenamePCs
  <2> QED BY <2>1, <2>2, <2>3, OrdinaryLeft DEF RenamePCs
<1>2. CASE TruncateDrop(c)
  <2>1. /\ h.pc = "truncate" /\ colls' = colls \ {h.tab} /\ Goto(c, "recreate")
        /\ UNCHANGED <<cache, docs, seq>>
    BY <1>p, <1>2 DEF TruncateDrop, Dropped
  <2>2. conn'[c].pc = "recreate" /\ conn'[c].tab = h.tab
    BY <2>1, GoesOn
  <2>3. Present(c)' /\ Cleared(c)'
    BY <2>2 DEF Present, Cleared, RenamePCs, CounterPCs
  <2>4. Changes(c)
    BY <1>t, <2>1 DEF Stays, Changes, HandlerFits, DataPCs
  <2>5. ASSUME NEW t \in Tables, t \in Reach(c) PROVE t \in colls' \/ Gone(t)' \/ Vanishing(c, t)'
    BY <1>o, <2>1, <2>2, <2>5 DEF Gone, Vanishing, RenamePCs
  <2> QED BY <2>3, <2>4, <2>5 DEF LeftStep
<1>3. CASE TruncateCreate(c)
  <2>1. /\ h.pc = "recreate" /\ colls' = colls \cup {h.tab} /\ Finish(c)
        /\ UNCHANGED <<cache, docs, seq>>
    BY <1>p, <1>3 DEF TruncateCreate
  <2>2. Present(c)' /\ Cleared(c)'
    BY <2>1, Ends DEF Present, Cleared, RenamePCs, CounterPCs
  <2>3. ASSUME NEW t \in Tables, t \in Reach(c) PROVE t \in colls' \/ Gone(t)'
    BY <1>o, <2>1, <2>3 DEF Gone, Vanishing
  <2> QED BY <2>1, <2>2, <2>3 DEF LeftStep
\* A counter is taken from only if there is a schema, and so a collection.
<1>4. CASE NextAutoIncrement(c)
  <2>1. /\ h.pc = "applyDefaults" /\ call[c].ptr # None /\ UNCHANGED <<cache, docs, colls, call>>
        /\ seq' = [seq EXCEPT ![h.tab] = @ + 1]
        /\ conn' = [conn EXCEPT ![c].pc = "insertMany", ![c].id = seq[h.tab] + 1]
    <3>1. /\ h.pc = "applyDefaults" /\ call[c].ptr # None
      BY <1>p, <1>4 DEF NextAutoIncrement, NeedsId
    <3>2. heap[call[c].ptr].name = h.tab
      BY <1>t, <3>1 DEF HoldsNamed
    <3> QED BY <1>4, <3>1, <3>2 DEF NextAutoIncrement, collVars
  <2>2. conn'[c].pc = "insertMany" /\ conn'[c].tab = h.tab /\ conn'[c].ptr = h.ptr
    BY <1>t, <2>1 DEF Handler
  <2>3. h.tab \in colls
    BY <1>t, <2>1 DEF Present, RenamePCs
  <2>4. Present(c)' /\ Cleared(c)'
    BY <2>1, <2>2, <2>3 DEF Present, Cleared, RenamePCs, CounterPCs
  <2>5. ASSUME NEW t \in Tables, t \in Reach(c) PROVE t \in colls' \/ Gone(t)'
    <3>1. CASE t = h.tab
      BY <2>1, <2>3, <3>1
    <3>2. CASE t # h.tab
      BY <1>o, <2>1, <2>5, <3>2 DEF Gone, Vanishing, RenamePCs
    <3> QED BY <3>1, <3>2
  <2> QED BY <2>1, <2>4, <2>5 DEF LeftStep
<1> QED BY <1>1, <1>2, <1>3, <1>4

\* DROP TABLE removes the places one after another.
LEMMA DropLeft ==
  ASSUME TypeInv, Named, NothingLeft, NEW c \in Conns, DropCollection(c) \/ DropCounter(c)
  PROVE  LeftStep(c)
<1> DEFINE h == conn[c]
<1>t. /\ h \in Handler /\ HandlerFits(h) /\ conn \in [Conns -> Handler] /\ call \in [Conns -> Call]
      /\ seq \in [Tables -> Nat] /\ Present(c) /\ Cleared(c) /\ Stays(c)
  BY Typed DEF NothingLeft, Named, TypeInv, TypeOK
<1>p. /\ \A pc : Running(c, pc) => pc = h.pc /\ Returned(c)
      /\ \A op : AtOption(c, op) => h.pc = "option" /\ h.rest # <<>> /\ Opt(c).op = op
  BY DEF AtOption, Running, Opt
<1>o. \A t \in Tables : t \in Reach(c) => t \in colls \/ Gone(t) \/ Vanishing(c, t)
  BY OwnLeft
<1>c. h.pc \in {"option", "dropCounter"} => Changes(c)
  BY <1>t DEF Stays, Changes, HandlerFits, DataPCs
<1>1. CASE DropCollection(c)
  <2>1. /\ h.pc = "option" /\ h.rest # <<>> /\ Opt(c).op = "dropTable"
        /\ colls' = colls \ {Opt(c).tab} /\ UNCHANGED <<cache, docs, seq>>
        /\ conn' = [conn EXCEPT ![c].pc = "dropCounter", ![c].tab = Opt(c).tab]
        /\ call'[c] = DeleteOf(Opt(c).tab)
    BY <1>p, <1>t, <1>1 DEF DropCollection, Dropped, Begins
  <2>2. conn'[c].pc = "dropCounter" /\ conn'[c].tab = Opt(c).tab /\ conn'[c].ptr = h.ptr
    BY <1>t, <2>1 DEF Handler
  <2>3. call'[c].at = "evict" /\ call'[c].ptr = None
    BY <2>1 DEF DeleteOf
  <2>4. h.ptr = None
    <3>1. Opt(c) \notin AlterOption \cup IndexOption \cup RenamePair
      BY <2>1 DEF AlterOption, IndexOption, RenamePair
    <3> QED BY <1>t, <2>1, <3>1 DEF Stays, HandlerFits, OptionsFit, Opt
  <2>5. Present(c)' /\ Cleared(c)'
    BY <2>2, <2>3, <2>4 DEF Present, Cleared, RenamePCs, At, Returned
  <2>6. ASSUME NEW t \in Tables, t \in Reach(c) PROVE t \in colls' \/ Gone(t)' \/ Vanishing(c, t)'
    <3>1. CASE t = Opt(c).tab
      BY <2>2, <3>1 DEF Vanishing
    <3>2. CASE t # Opt(c).tab
      BY <1>o, <2>1, <2>6, <3>2 DEF Gone, Vanishing, RenamePCs
    <3> QED BY <3>1, <3>2
  <2> QED BY <1>c, <2>1, <2>5, <2>6 DEF LeftStep
<1>2. CASE DropCounter(c)
  <2>1. /\ h.pc = "dropCounter" /\ Returned(c) /\ UNCHANGED <<cache, docs, colls, call>>
        /\ seq' = [seq EXCEPT ![h.tab] = 0] /\ conn' = [conn EXCEPT ![c] = NextOption(c)]
    BY <1>p, <1>2 DEF DropCounter, collVars
  <2>2. conn'[c].pc = "option" /\ conn'[c].tab = h.tab /\ conn'[c].ptr = h.ptr
    BY <2>1, GoesToNext
  <2>3. Present(c)' /\ Cleared(c)'
    BY <1>t, <2>1, <2>2 DEF Present, Cleared, RenamePCs, CounterPCs
  <2>4. ASSUME NEW t \in Tables, t \in Reach(c) PROVE t \in colls' \/ Gone(t)'
    <3>1. CASE t = h.tab
      BY <1>t, <2>1, <2>4, <3>1 DEF Gone, Cleared, At, Returned
    <3>2. CASE t # h.tab
      BY <1>o, <1>t, <2>1, <2>4, <3>2 DEF Gone, Vanishing
    <3> QED BY <3>1, <3>2
  <2> QED BY <2>1, <2>3, <2>4 DEF LeftStep
<1> QED BY <1>1, <1>2

\* RENAME clears the old name last.
LEMMA RenameLeft ==
  ASSUME TypeInv, Named, NothingLeft, NEW c \in Conns,
         \/ RenameCollection(c) \/ MigrateSchema(c) \/ DropOldSchema(c) \/ FindCounter(c)
         \/ SetCounter(c) \/ DeleteCounter(c)
  PROVE  LeftStep(c)
<1> DEFINE h == conn[c]
           k == call[c]
<1>t. /\ h \in Handler /\ HandlerFits(h) /\ conn \in [Conns -> Handler] /\ call \in [Conns -> Call]
      /\ seq \in [Tables -> Nat] /\ Present(c) /\ Cleared(c) /\ Stays(c) /\ HoldsNamed(c)
  BY Typed DEF NothingLeft, Named, TypeInv, TypeOK
<1>p. /\ \A pc : Running(c, pc) => pc = h.pc /\ Returned(c)
      /\ \A op : AtOption(c, op) => h.pc = "option" /\ h.rest # <<>> /\ Opt(c).op = op
  BY DEF AtOption, Running, Opt
<1>o. \A t \in Tables : t \in Reach(c) => t \in colls \/ Gone(t) \/ Vanishing(c, t)
  BY OwnLeft
<1>c. h.pc \in RenamePCs \cup {"option"} => Changes(c)
  BY <1>t DEF Stays, Changes, HandlerFits, DataPCs, RenamePCs
<1>1. CASE RenameCollection(c)
  <2>1. /\ h.pc = "option" /\ h.rest # <<>> /\ Opt(c).op = "rename"
        /\ colls' = (colls \ {From(c)}) \cup {Opt(c).to} /\ UNCHANGED <<cache, docs, seq>>
        /\ conn' = [conn EXCEPT ![c].pc = "migrate", ![c].tab = From(c)]
        /\ call'[c] = GetOf(From(c))
    BY <1>p, <1>t, <1>1 DEF RenameCollection, Begins
  <2>2. conn'[c].pc = "migrate" /\ conn'[c].tab = From(c) /\ conn'[c].rest = h.rest
    BY <1>t, <2>1 DEF Handler
  <2>3. call'[c].at = "lookup"
    BY <2>1 DEF GetOf
  <2>4. Present(c)' /\ Cleared(c)'
    BY <2>1, <2>2, <2>3 DEF Present, Cleared, RenamePCs, Opt, Returned
  <2>5. ASSUME NEW t \in Tables, t \in Reach(c) PROVE t \in colls' \/ Gone(t)' \/ Vanishing(c, t)'
    <3>1. CASE t = From(c)
      BY <2>2, <3>1 DEF Vanishing, RenamePCs
    <3>2. CASE t # From(c)
      BY <1>o, <2>1, <2>5, <3>2 DEF Gone, Vanishing, RenamePCs
    <3> QED BY <3>1, <3>2
  <2> QED BY <1>c, <2>1, <2>4, <2>5 DEF LeftStep
<1>2. CASE \/ MigrateSchema(c) \/ DropOldSchema(c) \/ SetCounter(c)
           \/ FindCounter(c) /\ ~Renamed(c)
  <2>1. /\ h.pc \in RenamePCs /\ Returned(c) /\ UNCHANGED <<cache, docs, colls>>
        /\ seq' = seq \/ seq' = [seq EXCEPT ![Opt(c).to] = h.id]
    BY <1>p, <1>2 DEF MigrateSchema, DropOldSchema, SetCounter, FindCounter, mongoVars, collVars,
       RenamePCs
  <2>2. /\ conn'[c].pc \in RenamePCs /\ conn'[c].tab = h.tab /\ conn'[c].rest = h.rest
        /\ \/ conn'[c].pc = "dropOld"
           \/ call'[c].at = "evict"
           \/ /\ call' = call /\ conn'[c].pc # "migrate"
              /\ h.pc = "migrate" => k.ptr = None
              /\ h.pc \in CounterPCs \/ h.pc = "migrate"
    <3>1. \A pc : Goto(c, pc) => /\ conn'[c].pc = pc /\ conn'[c].tab = h.tab
                                 /\ conn'[c].rest = h.rest
      BY GoesOn
    <3>2. CASE MigrateSchema(c)
      BY <1>p, <3>1, <3>2 DEF MigrateSchema, RenamePCs
    <3>3. CASE DropOldSchema(c)
      <4>1. Goto(c, "findCounter") /\ call'[c] = DeleteOf(h.tab)
        BY <1>t, <3>3 DEF DropOldSchema, Begins
      <4> QED BY <3>1, <4>1 DEF DeleteOf, RenamePCs
    <3>4. CASE SetCounter(c)
      <4>1. h.pc = "setCounter" /\ Goto(c, "deleteCounter") /\ call' = call
        BY <1>p, <3>4 DEF SetCounter
      <4> QED BY <3>1, <4>1 DEF RenamePCs, CounterPCs
    <3>5. CASE FindCounter(c) /\ ~Renamed(c)
      <4>1. /\ conn' = [conn EXCEPT ![c].pc = "setCounter", ![c].id = seq[h.tab]]
            /\ call' = call /\ h.pc = "findCounter"
        BY <1>p, <3>5 DEF FindCounter
      <4>2. conn'[c].pc = "setCounter" /\ conn'[c].tab = h.tab /\ conn'[c].rest = h.rest
        BY <1>t, <4>1 DEF Handler
      <4> QED BY <4>1, <4>2 DEF RenamePCs, CounterPCs
    <3> QED BY <1>2, <3>2, <3>3, <3>4, <3>5
  <2>3. Opt(c)' = Opt(c) /\ Opt(c).to \in colls
    BY <1>t, <2>1, <2>2 DEF Opt, Present
  <2>4. Present(c)'
    BY <2>1, <2>2, <2>3 DEF Present, RenamePCs
  <2>5. Cleared(c)'
    BY <1>t, <2>1, <2>2 DEF Cleared, RenamePCs, CounterPCs, At, Returned
  <2>6. ASSUME NEW t \in Tables, t \in Reach(c) PROVE t \in colls' \/ Gone(t)' \/ Vanishing(c, t)'
    <3>1. Vanishing(c, t) => Vanishing(c, t)'
      BY <2>2 DEF Vanishing
    <3>2. t # Opt(c).to /\ Gone(t) => Gone(t)'
      BY <1>t, <2>1 DEF Gone
    <3> QED BY <1>o, <2>1, <2>3, <2>6, <3>1, <3>2
  <2> QED BY <2>1, <2>4, <2>5, <2>6 DEF LeftStep
\* The rename is done: nothing has the old name any more.
<1>3. CASE Renamed(c) /\ (FindCounter(c) \/ DeleteCounter(c))
  <2>1. /\ h.pc \in {"findCounter", "deleteCounter"} /\ Returned(c)
        /\ UNCHANGED <<cache, docs, colls, call>>
    BY <1>p, <1>3 DEF FindCounter, DeleteCounter, mongoVars, collVars
  <2>2. conn'[c].pc = "option" /\ conn'[c].tab = Opt(c).to /\ Opt(c).to \in colls
    BY <1>t, <1>3, <2>1, EndsRename DEF Present, RenamePCs
  <2>3. h.tab \in Tables /\ \A t \in Tables : seq'[t] = (IF t = h.tab THEN 0 ELSE seq[t])
    <3>1. h.tab \in Tables
      BY <2>1, Alone DEF RenamePCs
    <3>2. CASE FindCounter(c)
      <4>1. seq[h.tab] # 0 => conn' = [conn EXCEPT ![c].pc = "setCounter", ![c].id = seq[h.tab]]
        BY <3>2 DEF FindCounter
      <4>2. seq[h.tab] # 0 => conn'[c].pc = "setCounter"
        BY <1>t, <4>1 DEF Handler
      <4> QED BY <2>2, <3>1, <3>2, <4>2 DEF FindCounter, mongoVars
    <3>3. CASE DeleteCounter(c)
      BY <1>t, <3>1, <3>3 DEF DeleteCounter
    <3> QED BY <1>3, <3>1, <3>2, <3>3
  <2>4. cache[h.tab] = None /\ docs[h.tab] = None
    BY <1>t, <2>1 DEF HoldsNamed, Vacated, Cleared, CounterPCs, At, Returned
  <2>5. Present(c)' /\ Cleared(c)'
    BY <2>1, <2>2 DEF Present, Cleared, RenamePCs, CounterPCs
  <2>6. ASSUME NEW t \in Tables, t \in Reach(c) PROVE t \in colls' \/ Gone(t)'
    <3>1. CASE t = h.tab
      BY <2>1, <2>3, <2>4, <3>1 DEF Gone
    <3>2. CASE t # h.tab
      BY <1>o, <2>1, <2>3, <2>6, <3>2 DEF Gone, Vanishing
    <3> QED BY <3>1, <3>2
  <2> QED BY <2>1, <2>5, <2>6 DEF LeftStep
<1> QED BY <1>1, <1>2, <1>3 DEF DeleteCounter

LEMMA HandleLeft ==
  ASSUME NoDropDatabase, TypeInv, Named, NothingLeft, NEW c \in Conns, Handle(c)
  PROVE  NothingLeft'
<1>1. ~DropWholeDatabase(c)
  BY Typed DEF DropWholeDatabase, Running, Named, Stays, NoDropDatabase, Handler, HandlerFits
<1>2. LeftStep(c)
  BY <1>1, OrdinaryHandle, CreateLeft, DropLeft, RenameLeft DEF Handle
<1> QED BY <1>2, HandleKeeps, LeftNext

LEMMA BeginLeft ==
  ASSUME TypeInv, NothingLeft, NEW c \in Conns, NEW s \in Workload, Begin(c, s)
  PROVE  NothingLeft'
<1>1. FirstStep(s) \notin RenamePCs \cup {"dropCounter", "createIndexes"} /\ FirstCall(s).ptr = None
  BY StatementShape, BeginsOwn
<1>2. /\ conn[c].pc = "idle" /\ UNCHANGED <<cache, docs, colls, seq>>
      /\ \A d \in Conns \ {c} : conn'[d] = conn[d] /\ call'[d] = call[d]
      /\ conn'[c].pc = FirstStep(s) /\ conn'[c].ptr = None /\ call'[c] = FirstCall(s)
  BY Typed DEF Begin, Begins, mongoVars
<1>3. Present(c)' /\ Cleared(c)'
  BY <1>1, <1>2 DEF Present, Cleared, CounterPCs, RenamePCs
<1>4. ASSUME NEW d \in Conns \ {c} PROVE Present(d)' /\ Cleared(d)'
  BY <1>2 DEF NothingLeft, Present, Cleared, Opt, At, Returned
<1>5. ASSUME NEW t \in Tables
      PROVE  t \in colls' \/ Gone(t)' \/ \E d \in Conns : Vanishing(d, t)'
  <2>1. \A d \in Conns : Vanishing(d, t) => Vanishing(d, t)'
    BY <1>2 DEF Vanishing, RenamePCs
  <2> QED BY <1>2, <2>1 DEF NothingLeft, Gone
<1> QED BY <1>3, <1>4, <1>5 DEF NothingLeft

LEMMA NothingLeftStutter ==
  ASSUME NothingLeft, UNCHANGED vars
  PROVE  NothingLeft'
BY DEF vars, NothingLeft, Present, Cleared, Gone, Vanishing, Opt, At, Returned

LEMMA NothingLeftKept ==
  ASSUME NoDropDatabase, TypeInv, Named, NothingLeftInv, [Next]_vars
  PROVE  NothingLeftInv'
<1> SUFFICES ASSUME Uninterrupted' PROVE NothingLeft'
  BY DEF NothingLeftInv
<1>0. ASSUME UNCHANGED <<restarts, faults>> PROVE NothingLeft
  BY <1>0 DEF NothingLeftInv, Uninterrupted
<1>1. ASSUME NEW c \in Conns, NEW s \in Workload, Begin(c, s) PROVE NothingLeft'
  BY <1>0, <1>1, BeginLeft DEF Begin
<1>2. ASSUME NEW c \in Conns, CallStep(c) PROVE NothingLeft'
  BY <1>0, <1>2, CallKeeps, CallLeft, LeftNext DEF CallStep, budgets
<1>3. ASSUME NEW c \in Conns, Handle(c) PROVE NothingLeft'
  BY <1>0, <1>3, HandleBudgets, HandleLeft
<1>4. ASSUME NEW c \in Conns, Fault(c) PROVE FALSE
  BY <1>4 DEF Fault, TypeInv, TypeOK, Uninterrupted
<1>5. CASE Restart
  BY <1>5 DEF Restart, TypeInv, TypeOK, Uninterrupted
<1>6. CASE UNCHANGED vars
  BY <1>0, <1>6, NothingLeftStutter DEF vars
<1> QED BY <1>1, <1>2, <1>3, <1>4, <1>5, <1>6 DEF Next, Quiet

LEMMA LeftoversGone ==
  ASSUME TypeInv, Named, NothingLeft
  PROVE  NothingLeftBehind
<1> SUFFICES ASSUME NEW t \in Tables, Settled(t), t \notin colls PROVE Gone(t)
  BY DEF NothingLeftBehind, Gone
<1>1. \A c \in Conns : ~Vanishing(c, t)
  BY VanishingReached DEF Settled, Changes, Reach
<1> QED BY <1>1 DEF NothingLeft

\* Between two DDL statements a table that is gone has neither a schema nor a
\* counter left, however often it was dropped, renamed, truncated, created again
\* or written to by mistake: if clients are Serial and do not drop the database,
\* and no round trip and no process has failed.
THEOREM NothingLeftCorrect ==
  ASSUME Serial, NoDropDatabase
  PROVE  Spec => []NothingLeftBehind
<1>1. Init => NothingLeftInv
  BY DEF Init, StoreInit, NothingLeftInv, NothingLeft, Present, Cleared, Gone, Idle, NoCall,
     RenamePCs, CounterPCs
<1>2. TypeInv /\ Named /\ NothingLeftInv /\ [Next]_vars => NothingLeftInv'
  BY NothingLeftKept
<1>3. TypeInv /\ Named /\ NothingLeftInv => NothingLeftBehind
  BY LeftoversGone DEF NothingLeftInv, NothingLeftBehind
<1> QED BY <1>1, <1>2, <1>3, ShapeCorrect, NamedInvariant, PTL DEF Spec

----------------------------------------------------------------------------
(* The indexes.  Orderly workloads do not drop the database; what else the *)
(* listing needs is that indexes and schema are changed together:          *)
(* TRUNCATE takes the indexes and leaves the schema as it is, and DROP     *)
(* INDEX forgets one entry of a name that may be listed twice.             *)

IndexesKept ==
  \A s \in Workload :
    /\ s.kind # "truncate"
    /\ \A k \in DOMAIN s.opts : s.opts[k].op # "removeIndex"

ListedIn(l) == {i \in Indexes : l[i] > 0}

IndexesFit(t) == docs[t] # None => phys[t] = ListedIn(docs[t])

\* The document of a table is behind its indexes, or about to go.
Behind(c, t) ==
  /\ conn[c].tab = t
  /\ \/ conn[c].pc \in {"createIndexes", "load", "store", "dropCounter"} \cup RenamePCs
     \/ conn[c].pc \in {"option", "finish"} /\ conn[c].ptr # None

\* What the indexes of the table at hand agree with meanwhile: what CREATE TABLE
\* is about to create, the schema object, or what it is about to become.
TracksTable(c) ==
  LET t == conn[c].tab
      p == conn[c].ptr
      soon(l) == ListedIn(Edited(l, Opt(c).op, Opt(c).item))
  IN  /\ conn[c].pc = "createIndexes" =>
           /\ phys[t] = {}
           /\ docs[t] # None => ListedIn(docs[t]) = conn[c].stmt.items \cap Indexes
           /\ call[c].ptr # None =>
                ListedIn(heap[call[c].ptr].items) = conn[c].stmt.items \cap Indexes
      /\ conn[c].pc = "load" /\ docs[t] # None => phys[t] = soon(docs[t])
      /\ conn[c].pc = "store" => conn[c].seen = heap[p].items /\ phys[t] = soon(heap[p].items)
      /\ conn[c].pc \in {"option", "finish"} /\ p # None => phys[t] = ListedIn(heap[p].items)

\* A handler without a schema works on a table without a document.
TracksMissing(c) ==
  /\ \/ conn[c].pc \in {"start", "load"} /\ Returned(c) /\ call[c].ptr = None
     \/ /\ conn[c].pc \in {"option", "migrate"} /\ conn[c].rest # <<>>
        /\ conn[c].stmt.kind = "alter" /\ conn[c].ptr = None
     => docs[conn[c].tab] = None
  /\ conn[c].pc \in RenamePCs /\ conn[c].stmt.kind = "alter" /\ conn[c].ptr = None
       => docs[Opt(c).to] = None /\ conn[c].pc # "dropOld"

\* The indexes have moved to the new name, the schema follows.
TracksRename(c) ==
  /\ conn[c].pc = "migrate" =>
       /\ docs[Opt(c).to] = None
       /\ docs[conn[c].tab] # None => phys[Opt(c).to] = ListedIn(docs[conn[c].tab])
  /\ conn[c].pc = "dropOld" /\ call[c].ptr # None =>
       phys[Opt(c).to] = ListedIn(heap[call[c].ptr].items)

Tracks(c) == /\ conn[c].pc # "truncate"
             /\ TracksTable(c) /\ TracksMissing(c) /\ TracksRename(c)

Tracked ==
  /\ \A t \in Tables :
       /\ t \in colls \/ phys[t] = {}
       /\ IndexesFit(t) \/ \E c \in Conns : Behind(c, t)
  /\ \A c \in Conns : Tracks(c)

TrackedInv == Uninterrupted => Tracked

\* What a step of c has to show.
TrackedStep(c) ==
  /\ Tracks(c)'
  /\ \A t \in Tables : t \in Reach(c) =>
       /\ t \in colls' \/ phys'[t] = {}
       /\ IndexesFit(t)' \/ Behind(c, t)'

LEMMA BehindReached ==
  ASSUME TypeInv, Named, NEW c \in Conns, NEW t \in Tables, Behind(c, t)
  PROVE  Changes(c) /\ t \in Reach(c)
BY Typed, NoneIsDistinct
   DEF Behind, HandlerFits, Named, Stays, Changes, RenamePCs, DataPCs

LEMMA OwnIndexes ==
  ASSUME TypeInv, Named, Tracked, NEW c \in Conns, NEW t \in Tables, t \in Reach(c)
  PROVE  IndexesFit(t) \/ Behind(c, t)
BY BehindReached DEF Tracked, Named, Apart

LEMMA TracksKept ==
  ASSUME TypeInv, Named, Tracked, NEW c \in Conns, Keeps(c), NEW d \in Conns \ {c}
  PROVE  Tracks(d)'
<1>t. /\ Stays(d) /\ HoldsNamed(d) /\ HandlerFits(conn[d]) /\ conn[d] \in Handler
      /\ call[d] \in Call /\ Tracks(d) /\ conn'[d] = conn[d] /\ call'[d] = call[d]
  BY Typed DEF Named, Tracked, Keeps
<1>1. Opt(d)' = Opt(d)
  BY <1>t DEF Opt
<1>2. CASE ~Changes(d)
  <2>1. conn[d].pc \in DataPCs \cup {"idle"} /\ conn[d].ptr = None
    BY <1>t, <1>2 DEF Stays, Changes, HandlerFits
  <2> QED BY <1>t, <2>1 DEF Tracks, TracksTable, TracksMissing, TracksRename, DataPCs, RenamePCs
<1>3. CASE Changes(d)
  <2>1. ASSUME NEW t \in Tables, t \in Reach(d) PROVE docs'[t] = docs[t] /\ phys'[t] = phys[t]
    BY <1>3, <2>1 DEF Keeps, Named, Apart
  <2>2. conn[d].tab # None => /\ docs'[conn[d].tab] = docs[conn[d].tab]
                              /\ phys'[conn[d].tab] = phys[conn[d].tab]
    BY <1>t, <2>1, OwnTable
  <2>3. conn[d].pc \in RenamePCs => /\ docs'[Opt(d).to] = docs[Opt(d).to]
                                    /\ phys'[Opt(d).to] = phys[Opt(d).to]
    BY <2>1, RenameReach
  <2>4. /\ conn[d].ptr # None => heap'[conn[d].ptr] = heap[conn[d].ptr]
        /\ call[d].ptr # None => heap'[call[d].ptr] = heap[call[d].ptr]
    BY Undisturbed DEF Owned
  <2>5. /\ conn[d].pc \in {"createIndexes", "load", "start"} \cup RenamePCs => conn[d].tab # None
        /\ conn[d].pc \in {"option", "store", "finish"} /\ conn[d].ptr # None => conn[d].tab # None
        /\ conn[d].pc = "store" => conn[d].ptr # None
    <3>1. conn[d].pc \in {"option", "store", "finish"} /\ conn[d].ptr # None => conn[d].tab # None
      <4>1. conn[d].ptr # None => conn[d].ptr \in Ptrs /\ heap[conn[d].ptr] \in TableSchema
        BY <1>t, HeldNames DEF Owned
      <4> QED BY <1>t, <4>1, NoneIsDistinct DEF HoldsNamed, CounterPCs, TableSchema
    <3> QED BY <1>t, <3>1 DEF HandlerFits, OneTablePCs
  <2>6. conn[d].rest # <<>> /\ conn[d].stmt.kind = "alter" => conn[d].tab # None
    BY <1>t, NoneIsDistinct DEF HandlerFits, OptionsFit
  <2>7. TracksTable(d)'
    BY <1>t, <1>1, <2>2, <2>4, <2>5 DEF Tracks, TracksTable
  <2>8. TracksMissing(d)'
    BY <1>t, <1>1, <2>2, <2>3, <2>5, <2>6 DEF Tracks, TracksMissing, Returned, RenamePCs
  <2>9. TracksRename(d)'
    BY <1>t, <1>1, <2>2, <2>3, <2>4, <2>5 DEF Tracks, TracksRename, RenamePCs
  <2> QED BY <1>t, <2>7, <2>8, <2>9 DEF Tracks
<1> QED BY <1>2, <1>3

LEMMA TrackedNext ==
  ASSUME TypeInv, Named, Tracked, NEW c \in Conns, Keeps(c), TrackedStep(c)
  PROVE  Tracked'
<1>1. ASSUME NEW t \in Tables \ Reach(c)
      PROVE  /\ t \in colls' \/ phys'[t] = {}
             /\ IndexesFit(t)' \/ \E d \in Conns : Behind(d, t)'
  <2>1. /\ t \in colls => t \in colls'
        /\ phys'[t] = phys[t] /\ docs'[t] = docs[t]
    BY DEF Keeps
  <2>2. ASSUME NEW d \in Conns, Behind(d, t) PROVE Behind(d, t)'
    BY <2>2, BehindReached DEF Keeps, Behind
  <2> QED BY <2>1, <2>2 DEF Tracked, IndexesFit
<1> QED BY <1>1, TracksKept DEF Tracked, TrackedStep

LEMMA ListedAfterEdit ==
  ASSUME NEW l \in Listing, NEW i \in Items, NEW op
  PROVE  /\ op \in {"addIndex", "createIndex"} /\ i \in Indexes =>
              ListedIn(Edited(l, op, i)) = ListedIn(l) \cup {i}
         /\ op = "dropIndex" => ListedIn(Edited(l, op, i)) = ListedIn(l) \ {i}
         /\ op \in {"add", "drop", "modify"} /\ i \notin Indexes =>
              ListedIn(Edited(l, op, i)) = ListedIn(l)
<1>1. \A j \in Indexes : j \in Items /\ l[j] \in Nat
  BY ItemsAssumption DEF Listing
<1>2. /\ [l EXCEPT ![i] = @ + 1] = [j \in Items |-> IF j = i THEN l[i] + 1 ELSE l[j]]
      /\ [l EXCEPT ![i] = 0] = [j \in Items |-> IF j = i THEN 0 ELSE l[j]]
  BY DEF Listing
<1>3. ASSUME op \in {"addIndex", "createIndex"}, i \in Indexes
      PROVE  ListedIn(Edited(l, op, i)) = ListedIn(l) \cup {i}
  <2>1. Edited(l, op, i) = [j \in Items |-> IF j = i THEN l[i] + 1 ELSE l[j]]
    BY <1>2, <1>3 DEF Edited
  <2> QED BY <1>1, <1>3, <2>1 DEF ListedIn
<1>4. ASSUME op = "dropIndex" PROVE ListedIn(Edited(l, op, i)) = ListedIn(l) \ {i}
  <2>1. Edited(l, op, i) = [j \in Items |-> IF j = i THEN 0 ELSE l[j]]
    BY <1>2, <1>4 DEF Edited
  <2> QED BY <1>1, <2>1 DEF ListedIn
<1>5. ASSUME op \in {"add", "drop", "modify"}, i \notin Indexes
      PROVE  ListedIn(Edited(l, op, i)) = ListedIn(l)
  <2>1. \A j \in Indexes : Edited(l, op, i)[j] = l[j]
    BY <1>1, <1>2, <1>5 DEF Edited
  <2> QED BY <2>1 DEF ListedIn
<1> QED BY <1>3, <1>4, <1>5

LEMMA ListedOnCreate ==
  ASSUME NEW is \in SUBSET Items
  PROVE  ListedIn(Lists(is)) = is \cap Indexes
BY ItemsAssumption DEF ListedIn, Lists

\* A table that is cached as it is stored has a document.
LEMMA CachedDocument ==
  ASSUME TypeInv, NEW t \in Tables, CoherentOn(t), cache[t] # None
  PROVE  /\ cache[t] \in Ptrs /\ heap[cache[t]] \in TableSchema
         /\ docs[t] = heap[cache[t]].items /\ docs[t] \in Listing /\ docs[t] # None
<1>1. cache[t] \in Ptrs /\ heap[cache[t]] \in TableSchema
  BY Typed DEF TypeInv, Shape
<1>2. heap[cache[t]].items = docs[t] /\ heap[cache[t]].items \in Listing
  BY <1>1 DEF CoherentOn, TableSchema
<1> QED BY <1>1, <1>2, NoneIsDistinct

\* So has one whose schema a handler holds, until it begins to change it.
LEMMA HeldDocument ==
  ASSUME TypeInv, Named, Coherent, NEW c \in Conns, NEW t \in Tables, t \in Reach(c),
         NEW p, p # None, cache[t] = p, ~Open(c, t)
  PROVE  p \in Ptrs /\ heap[p] \in TableSchema /\ docs[t] = heap[p].items /\ docs[t] \in Listing
         /\ docs[t] # None
BY OwnOpen, CachedDocument

\* Steps that change neither documents nor indexes.
LEMMA PlainTracked ==
  ASSUME TypeInv, Named, Tracked, NEW c \in Conns, docs' = docs, phys' = phys, colls \subseteq colls',
         Tracks(c)',
         \A t \in Tables : t \in Reach(c) /\ Behind(c, t) => Behind(c, t)' \/ IndexesFit(t)
  PROVE  TrackedStep(c)
<1>1. ASSUME NEW t \in Tables, t \in Reach(c)
      PROVE  (t \in colls' \/ phys'[t] = {}) /\ (IndexesFit(t)' \/ Behind(c, t)')
  BY <1>1, OwnIndexes DEF Tracked, IndexesFit
<1> QED BY <1>1 DEF TrackedStep

LEMMA TracksNothing ==
  ASSUME NEW c \in Conns,
         \/ conn'[c].pc \notin {"createIndexes", "load", "store", "option", "finish", "start",
                               "truncate"} \cup RenamePCs
         \/ conn'[c].pc = "option" /\ conn'[c].ptr = None /\ conn'[c].stmt.kind # "alter"
  PROVE  Tracks(c)'
BY DEF Tracks, TracksTable, TracksMissing, TracksRename, RenamePCs

LEMMA CallTracked ==
  ASSUME TypeInv, Named, Coherent, Tracked, NEW c \in Conns, CallStep(c)
  PROVE  TrackedStep(c)
<1> DEFINE h == conn[c]
           k == call[c]
<1>t. /\ Stays(c) /\ HoldsNamed(c) /\ HandlerFits(h) /\ CallFits(k) /\ Tracks(c)
      /\ k \in Call /\ h \in Handler /\ heap \in [Ptrs -> {None} \cup TableSchema]
      /\ docs \in [Tables -> {None} \cup Listing] /\ call \in [Conns -> Call]
      /\ cache \in [Tables -> {None} \cup Ptrs]
  BY Typed DEF Named, Tracked
<1>c. /\ UNCHANGED <<colls, phys, conn>> /\ Opt(c)' = Opt(c)
  BY DEF CallStep, Opt
<1>b. \A t \in Tables : Behind(c, t)' <=> Behind(c, t)
  BY <1>c DEF Behind
<1>r. \A p : Return(c, p) => call'[c].at = "returned" /\ call'[c].ptr = p
  BY <1>t DEF Return, NoCall
<1>a. \A s : call' = [call EXCEPT ![c].at = s] => call'[c].at = s /\ call'[c].ptr = k.ptr
  BY <1>t DEF Call
<1>u. /\ h.ptr # None => h.ptr \in Ptrs \ Fresh
      /\ k.ptr # None => k.ptr \in Ptrs \ Fresh
  BY InUse
<1>1. CASE Lookup(c)
  <2>1. /\ h.pc \in {"start", "load", "migrate", "applyDefaults", "updateMany"}
        /\ UNCHANGED <<heap, cache, docs>>
    BY <1>t, <1>1 DEF Lookup, At, Stays, CallPCs
  <2>2. call'[c].at = "find" \/ call'[c].ptr # None
    BY <1>1, <1>a, <1>r DEF Lookup
  <2>3. Tracks(c)'
    BY <1>t, <1>c, <2>1, <2>2 DEF Tracks, TracksTable, TracksMissing, TracksRename, Returned
  <2> QED BY <1>c, <1>b, <2>1, <2>3, PlainTracked
<1>2. CASE FindMissing(c)
  <2>1. /\ h.pc \in {"start", "load", "migrate", "applyDefaults", "updateMany"}
        /\ UNCHANGED <<heap, cache, docs>> /\ k.tab = h.tab /\ docs[h.tab] = None
    BY <1>t, <1>2 DEF FindMissing, At, Stays, CallPCs, CallFits
  <2>3. Tracks(c)'
    BY <1>t, <1>c, <2>1 DEF Tracks, TracksTable, TracksMissing, TracksRename
  <2> QED BY <1>c, <1>b, <2>1, <2>3, PlainTracked
<1>3. CASE \E p \in Fresh : FindDocument(c, p)
  <2> PICK p \in Fresh : FindDocument(c, p)
    BY <1>3
  <2>1. /\ h.pc \in {"start", "load", "migrate", "applyDefaults", "updateMany"}
        /\ UNCHANGED <<cache, docs>>
        /\ \A q \in Ptrs : q # p => heap'[q] = heap[q]
    BY <1>t DEF FindDocument, At, Stays, CallPCs
  <2>2. call'[c].at = "fill"
    BY <1>t DEF FindDocument, Call
  <2>3. h.ptr # None => heap'[h.ptr] = heap[h.ptr]
    BY <1>u, <2>1
  <2>4. Tracks(c)'
    BY <1>t, <1>c, <2>1, <2>2, <2>3 DEF Tracks, TracksTable, TracksMissing, TracksRename, Returned
  <2> QED BY <1>c, <1>b, <2>1, <2>4, PlainTracked
<1>4. CASE Fill(c)
  <2>1. /\ h.pc \in {"start", "load", "migrate", "applyDefaults", "updateMany"}
        /\ UNCHANGED <<heap, docs>> /\ k.ptr # None
    BY <1>t, <1>4 DEF Fill, At, Stays, CallPCs, CallFits
  <2>2. call'[c].ptr # None
    BY <1>4, <1>r, <2>1 DEF Fill
  <2>3. Tracks(c)'
    BY <1>t, <1>c, <2>1, <2>2 DEF Tracks, TracksTable, TracksMissing, TracksRename, Returned
  <2> QED BY <1>c, <1>b, <2>1, <2>3, PlainTracked
<1>5. CASE Upsert(c)
  <2> DEFINE n == heap[k.ptr].name
  <2>1. /\ h.pc \in {"createIndexes", "dropOld", "finish"} /\ k.ptr # None /\ k.ptr \in Ptrs
        /\ n = IF h.pc = "dropOld" THEN Opt(c).to ELSE h.tab
        /\ heap[k.ptr] \in TableSchema
    BY <1>t, <1>5 DEF Upsert, At, Stays, CallPCs, CallFits, HoldsNamed, Call
  <2>2. /\ UNCHANGED <<heap, cache>> /\ n \in Tables
        /\ docs' = [docs EXCEPT ![n] = heap[k.ptr].items]
        /\ call'[c].ptr = k.ptr
    BY <1>5, <1>a, <2>1 DEF Upsert, TableSchema
  <2>3. docs'[n] = heap[k.ptr].items /\ \A t \in Tables \ {n} : docs'[t] = docs[t]
    BY <1>t, <2>2
  <2>4. CASE h.pc = "createIndexes"
    <3>1. n = h.tab
      BY <2>1, <2>4
    <3>2. Tracks(c)'
      BY <1>t, <1>c, <2>1, <2>2, <2>3, <2>4, <3>1
         DEF Tracks, TracksTable, TracksMissing, TracksRename, RenamePCs
    <3>3. Behind(c, n)
      BY <2>4, <3>1 DEF Behind
    <3> QED BY <1>c, <1>b, <2>3, <3>2, <3>3, OwnIndexes DEF TrackedStep, Tracked, IndexesFit
  <2>5. CASE h.pc = "finish"
    <3>1. n = h.tab
      BY <2>1, <2>5
    <3>2. Tracks(c)'
      BY <1>t, <1>c, <2>1, <2>2, <2>3, <2>5, <3>1
         DEF Tracks, TracksTable, TracksMissing, TracksRename, RenamePCs
    <3>3. Behind(c, n)
      BY <2>5, <3>1 DEF Behind, Coherent, HoldsCached
    <3> QED BY <1>c, <1>b, <2>3, <3>2, <3>3, OwnIndexes DEF TrackedStep, Tracked, IndexesFit
  <2>6. CASE h.pc = "dropOld"
    <3>1. n = Opt(c).to /\ h.tab # n
      BY <2>1, <2>6, <1>t DEF Stays, RenamePCs
    <3>2. Tracks(c)'
      BY <1>t, <1>c, <2>1, <2>2, <2>3, <2>6, <3>1
         DEF Tracks, TracksTable, TracksMissing, TracksRename, RenamePCs
    <3>3. phys'[n] = ListedIn(docs'[n])
      BY <1>t, <1>c, <2>1, <2>3, <2>6, <3>1 DEF Tracks, TracksRename
    <3>4. ASSUME NEW t \in Tables, t \in Reach(c) PROVE IndexesFit(t)' \/ Behind(c, t)'
      BY <1>c, <1>b, <2>3, <3>3, <3>4, OwnIndexes DEF IndexesFit
    <3> QED BY <1>c, <3>2, <3>4 DEF TrackedStep, Tracked
  <2> QED BY <2>1, <2>4, <2>5, <2>6
<1>6. CASE Publish(c)
  <2>1. /\ h.pc \in {"createIndexes", "dropOld", "finish"}
        /\ UNCHANGED <<heap, docs>>
    BY <1>t, <1>6 DEF Publish, At, Stays, CallPCs
  <2>2. call'[c].ptr = k.ptr
    BY <1>6, <1>r DEF Publish
  <2>3. Tracks(c)'
    BY <1>t, <1>c, <2>1, <2>2 DEF Tracks, TracksTable, TracksMissing, TracksRename, RenamePCs
  <2> QED BY <1>c, <1>b, <2>1, <2>3, PlainTracked
<1>7. CASE Evict(c)
  <2>1. h.pc \in {"dropCounter", "findCounter"} /\ UNCHANGED <<heap, docs>>
    BY <1>t, <1>7 DEF Evict, At, Stays, CallPCs
  <2>3. Tracks(c)'
    BY <1>t, <1>c, <2>1 DEF Tracks, TracksTable, TracksMissing, TracksRename, RenamePCs
  <2> QED BY <1>c, <1>b, <2>1, <2>3, PlainTracked
<1>8. CASE Erase(c)
  <2>1. /\ h.pc \in {"dropCounter", "findCounter"} /\ heap' = heap
        /\ k.tab = h.tab /\ h.tab \in Tables /\ docs' = [docs EXCEPT ![h.tab] = None]
    BY <1>t, <1>8, NoneIsDistinct DEF Erase, At, Stays, CallPCs, CallFits, Handler
  <2>2. docs'[h.tab] = None /\ \A t \in Tables \ {h.tab} : docs'[t] = docs[t]
    BY <1>t, <2>1
  <2>3. h.pc = "findCounter" => Opt(c).to \in Tables
    BY RenameReach DEF RenamePCs
  <2>4. Tracks(c)'
    BY <1>t, <1>c, <2>1, <2>2, <2>3 DEF Tracks, TracksTable, TracksMissing, TracksRename, RenamePCs
  <2> QED BY <1>c, <1>b, <2>2, <2>4, OwnIndexes DEF TrackedStep, Tracked, IndexesFit
<1> QED BY <1>1, <1>2, <1>3, <1>4, <1>5, <1>6, <1>7, <1>8 DEF CallStep, StoreStep

Kinds == {"create", "truncate", "insert", "update", "delete", "alter", "index", "rename",
          "drop", "dropDatabase"}

LEMMA StatementItems == \A s \in Workload : s.items \in SUBSET Items /\ s.kind \in Kinds
<1> SUFFICES ASSUME NEW s \in Workload PROVE s.items \in SUBSET Items /\ s.kind \in Kinds
  OBVIOUS
<1>1. ASSUME NEW ks \in SUBSET Kinds, NEW ts, NEW fs, NEW os, NEW is,
             s \in StatementOf(ks, ts, fs, os, is)
      PROVE  s.items \in SUBSET Items /\ s.kind \in Kinds
  BY <1>1 DEF StatementOf
<1>2. s \in Statement
  BY WorkloadAssumption
<1>3. /\ {"create"} \in SUBSET Kinds /\ {"truncate", "update", "delete"} \in SUBSET Kinds
      /\ {"insert"} \in SUBSET Kinds /\ {"alter"} \in SUBSET Kinds /\ {"index"} \in SUBSET Kinds
      /\ {"rename"} \in SUBSET Kinds /\ {"drop"} \in SUBSET Kinds /\ {"dropDatabase"} \in SUBSET Kinds
  BY DEF Kinds
<1> QED BY <1>1, <1>2, <1>3, Zenon DEF Statement

\* A schema that a handler has, but has not changed yet.
\* The schema variable of ALTER TABLE and CREATE INDEX is the schema of the table
\* at hand, and as it is stored as long as no option has changed it.
LEMMA HeldAtHand ==
  ASSUME TypeInv, Named, Coherent, NEW c \in Conns,
         conn[c].pc \in {"option", "store", "finish"}, conn[c].ptr # None
  PROVE  /\ conn[c].tab \in Tables /\ conn[c].tab \in Reach(c) /\ Changes(c)
         /\ conn[c].ptr \in Ptrs /\ heap[conn[c].ptr] \in TableSchema
         /\ heap[conn[c].ptr].name = conn[c].tab /\ cache[conn[c].tab] = conn[c].ptr
         /\ ~Open(c, conn[c].tab) =>
              heap[conn[c].ptr].items = docs[conn[c].tab] /\ docs[conn[c].tab] # None
<1>1. Stays(c) /\ HoldsNamed(c) /\ HoldsCached(c)
  BY DEF Named, Coherent
<1>2. conn[c].ptr \in Ptrs /\ heap[conn[c].ptr] \in TableSchema
  BY <1>1, HeldNames DEF Owned
<1>3. conn[c].tab \in Tables /\ conn[c].tab \in Reach(c) /\ heap[conn[c].ptr].name = conn[c].tab
  <2>1. conn[c].tab = heap[conn[c].ptr].name
    BY <1>1 DEF HoldsNamed, CounterPCs
  <2> QED BY <1>1, <1>2, <2>1, NoneIsDistinct DEF Stays, TableSchema
<1>4. cache[conn[c].tab] = conn[c].ptr /\ Changes(c)
  BY <1>1 DEF HoldsCached, Stays
<1> QED BY <1>2, <1>3, <1>4, HeldDocument

LEMMA HeldFits ==
  ASSUME TypeInv, Named, Coherent, Tracked, NEW c \in Conns,
         conn[c].pc \in {"option", "finish"}, conn[c].ptr # None, ~Open(c, conn[c].tab)
  PROVE  /\ conn[c].tab \in Tables /\ IndexesFit(conn[c].tab)
         /\ heap[conn[c].ptr].items = docs[conn[c].tab] /\ docs[conn[c].tab] # None
BY HeldAtHand DEF Tracked, Tracks, TracksTable, IndexesFit

LEMMA QuietTracked ==
  ASSUME TypeInv, Named, Tracked, NEW c \in Conns,
         \/ CheckExists(c) \/ CreateFails(c) \/ TruncateCreate(c) \/ NextAutoIncrement(c)
         \/ NoAutoIncrement(c) \/ InsertMany(c) \/ UpdateMany(c) \/ DeleteMany(c)
  PROVE  TrackedStep(c)
<1>t. conn \in [Conns -> Handler] /\ conn[c] \in Handler
  BY Typed
<1>1. UNCHANGED <<docs, phys>> /\ colls \subseteq colls'
  BY DEF CheckExists, CreateFails, TruncateCreate, NextAutoIncrement, NoAutoIncrement, InsertMany,
     UpdateMany, DeleteMany, mongoVars, collVars
<1>2. conn[c].pc \in DataPCs \cup {"check", "create", "recreate"}
  BY DEF CheckExists, CreateFails, TruncateCreate, NextAutoIncrement, NoAutoIncrement, InsertMany,
     UpdateMany, DeleteMany, Running, DataPCs
<1>3. conn'[c].pc \in {"idle", "create", "insertMany"}
  <2>1. Finish(c) => conn'[c].pc = "idle"
    BY Ends
  <2>2. Goto(c, "create") => conn'[c].pc = "create"
    BY GoesOn
  <2>3. NextAutoIncrement(c) \/ NoAutoIncrement(c) => conn'[c].pc = "insertMany"
    <3>1. NextAutoIncrement(c) => conn'[c].pc = "insertMany"
      BY <1>t DEF NextAutoIncrement, Handler
    <3>2. NoAutoIncrement(c) => conn'[c].pc = "insertMany"
      BY <1>t DEF NoAutoIncrement, Handler
    <3> QED BY <3>1, <3>2
  <2> QED
    BY <2>1, <2>2, <2>3 DEF CheckExists, CreateFails, TruncateCreate, InsertMany, UpdateMany, DeleteMany
<1>4. Tracks(c)'
  BY <1>3, TracksNothing DEF RenamePCs
<1>5. \A t \in Tables : ~Behind(c, t)
  BY <1>2 DEF Behind, DataPCs, RenamePCs
<1> QED BY <1>1, <1>4, <1>5, PlainTracked

LEMMA EndTracked ==
  ASSUME TypeInv, Named, Coherent, Orderly, Tracked, NEW c \in Conns,
         EndOptions(c) \/ Finished(c) \/ RenameFails(c)
  PROVE  TrackedStep(c)
<1> DEFINE h == conn[c]
<1>t. /\ Stays(c) /\ HoldsCached(c) /\ HandlerFits(h) /\ Tracks(c) /\ h \in Handler
      /\ call \in [Conns -> Call]
  BY Typed DEF Named, Coherent, Tracked
<1>1. UNCHANGED <<heap, docs, phys, colls>> /\ Returned(c) /\ h.pc \in {"option", "finish"}
  BY DEF EndOptions, Finished, RenameFails, Running, AtOption, mongoVars
<1>2. CASE Finish(c)
  <2>1. Tracks(c)'
    BY <1>2, Ends, TracksNothing DEF RenamePCs
  <2>2. ASSUME h.ptr # None PROVE IndexesFit(h.tab)
    <3>1. ~Open(c, h.tab)
      <4>1. CASE Finished(c)
        BY <1>1, <4>1 DEF Finished, Running, Open
      <4>2. CASE EndOptions(c)
        <5>1. h.rest = h.stmt.opts
          <6>1. Finish(c) => conn'[c].pc = "idle"
            BY Ends
          <6>2. Goto(c, "finish") => conn'[c].pc = "finish"
            BY GoesOn
          <6> QED BY <1>2, <2>2, <4>2, <6>1, <6>2 DEF EndOptions
        <5> QED BY <1>1, <4>2, <5>1 DEF EndOptions, Running, Open
      <4>3. CASE RenameFails(c)
        <5>1. h.stmt.kind \in {"alter", "index"} /\ h.rest # <<>> /\ Opt(c).op = "rename"
              /\ h.pc = "option"
          BY <1>t, <2>2, <4>3 DEF Stays, RenameFails, AtOption, Opt, Running
        <5>2. h.rest = h.stmt.opts
          BY <5>1, FirstOption
        <5> QED BY <5>1, <5>2 DEF Open
      <4> QED BY <4>1, <4>2, <4>3
    <3> QED BY <1>1, <2>2, <3>1, HeldFits
  <2>3. \A t \in Tables : Behind(c, t) => IndexesFit(t)
    BY <1>1, <2>2 DEF Behind, RenamePCs
  <2> QED BY <1>1, <2>1, <2>3, PlainTracked
<1>3. CASE ~Finish(c)
  <2>1. Goto(c, "finish") /\ h.ptr # None /\ h.pc = "option"
    BY <1>3 DEF EndOptions, Finished, RenameFails, Running
  <2>2. conn'[c].pc = "finish" /\ conn'[c].tab = h.tab /\ conn'[c].ptr = h.ptr
    BY <2>1, GoesOn
  <2>3. Tracks(c)'
    BY <1>t, <1>1, <2>1, <2>2 DEF Tracks, TracksTable, TracksMissing, TracksRename, RenamePCs
  <2>4. \A t \in Tables : Behind(c, t) => Behind(c, t)'
    BY <2>1, <2>2 DEF Behind
  <2> QED BY <1>1, <2>3, <2>4, PlainTracked
<1> QED BY <1>2, <1>3

LEMMA CreateTracked ==
  ASSUME TypeInv, Named, NothingLeft, Tracked, NEW c \in Conns,
         (\E p \in Fresh : CreateCollection(c, p)) \/ CreateIndexes(c)
  PROVE  TrackedStep(c)
<1> DEFINE h == conn[c]
           is == h.stmt.items
<1>t. /\ Stays(c) /\ HandlerFits(h) /\ Tracks(c) /\ Present(c) /\ h \in Handler
      /\ call \in [Conns -> Call] /\ heap \in [Ptrs -> {None} \cup TableSchema]
      /\ phys \in [Tables -> SUBSET Indexes] /\ h.stmt \in {None} \cup Workload
  BY Typed DEF Named, NothingLeft, Tracked, TypeInv, TypeOK, Handler
<1>s. h.pc # "idle" => is \in SUBSET Items
  BY <1>t, StatementItems DEF HandlerFits
<1>1. CASE \E p \in Fresh : CreateCollection(c, p)
  <2> PICK p \in Fresh : CreateCollection(c, p)
    BY <1>1
  <2>1. /\ h.pc = "create" /\ h.tab \notin colls /\ colls' = colls \cup {h.tab}
        /\ UNCHANGED <<docs, phys>> /\ h.tab \in Tables /\ Goto(c, "createIndexes")
    BY <1>t, NoneIsDistinct DEF CreateCollection, Running, HandlerFits, OneTablePCs, Handler
  <2>2. h.tab \in Reach(c) /\ ~Vanishing(c, h.tab) /\ call[c].ptr = None
    BY <1>t, <2>1, OwnTable, NoneIsDistinct DEF Vanishing, RenamePCs, Present
  <2>3. docs[h.tab] = None /\ phys[h.tab] = {}
    BY <2>1, <2>2, OwnLeft DEF Gone, Tracked
  <2>4. conn'[c].pc = "createIndexes" /\ conn'[c].tab = h.tab /\ conn'[c].stmt = h.stmt
    BY <2>1, GoesOn
  <2>5. call'[c].ptr # None => ListedIn(heap'[call'[c].ptr].items) = is \cap Indexes
    <3>1. CASE is \subseteq Indexes
      BY <2>2, <3>1 DEF CreateCollection
    <3>2. CASE ~(is \subseteq Indexes)
      <4>1. heap' = [heap EXCEPT ![p] = [name |-> h.tab, items |-> Lists(is)]]
            /\ call'[c].ptr = p /\ p \in Ptrs
        BY <1>t, <3>2 DEF CreateCollection, Begins, SaveOf, Fresh
      <4>2. heap'[p].items = Lists(is)
        BY <1>t, <4>1
      <4> QED BY <1>s, <2>1, <4>1, <4>2, ListedOnCreate
    <3> QED BY <3>1, <3>2
  <2>6. Tracks(c)'
    BY <2>1, <2>3, <2>4, <2>5 DEF Tracks, TracksTable, TracksMissing, TracksRename, RenamePCs
  <2>7. \A t \in Tables : ~Behind(c, t)
    BY <2>1 DEF Behind, RenamePCs
  <2> QED BY <2>1, <2>6, <2>7, PlainTracked
<1>2. CASE CreateIndexes(c)
  <2>1. /\ h.pc = "createIndexes" /\ docs' = docs /\ h.tab \in Tables /\ Finish(c)
        /\ phys' = [phys EXCEPT ![h.tab] = phys[h.tab] \cup (is \cap Indexes)]
        /\ colls' = IF is \cap Indexes = {} THEN colls ELSE colls \cup {h.tab}
    BY <1>t, <1>2, NoneIsDistinct DEF CreateIndexes, Indexed, Running, HandlerFits, OneTablePCs, Handler
  <2>2. Tracks(c)'
    BY <2>1, Ends, TracksNothing DEF RenamePCs
  <2>3. phys'[h.tab] = is \cap Indexes /\ \A t \in Tables \ {h.tab} : phys'[t] = phys[t]
    BY <1>t, <2>1 DEF Tracks, TracksTable
  <2>4. docs[h.tab] # None => phys'[h.tab] = ListedIn(docs[h.tab])
    BY <1>t, <2>1, <2>3 DEF Tracks, TracksTable
  <2>5. ASSUME NEW t \in Tables, t \in Reach(c)
        PROVE  (t \in colls' \/ phys'[t] = {}) /\ IndexesFit(t)'
    <3>1. CASE t = h.tab
      BY <2>1, <2>3, <2>4, <3>1 DEF IndexesFit
    <3>2. CASE t # h.tab
      BY <2>1, <2>3, <2>5, <3>2, OwnIndexes DEF IndexesFit, Behind, Tracked
    <3> QED BY <3>1, <3>2
  <2> QED BY <2>2, <2>5 DEF TrackedStep
<1> QED BY <1>1, <1>2

\* A step of the option loop or of an index statement that has changed the
\* indexes of its table as its option says, and the schema not yet.
LEMMA LoadsTracked ==
  ASSUME TypeInv, Named, Tracked, NEW c \in Conns, NEW p \in {None} \cup Ptrs, Loads(c, p),
         NEW t \in Tables, t = conn[c].tab, conn[c].rest # <<>>,
         conn[c].pc \in {"option", "load"}, UNCHANGED <<heap, docs>>,
         p = None => docs[t] = None /\ conn[c].ptr = None,
         p # None => phys'[t] = ListedIn(Edited(heap[p].items, Opt(c).op, Opt(c).item)),
         t \in colls' \/ phys'[t] = {}, colls \subseteq colls',
         \A s \in Tables \ {t} : phys'[s] = phys[s]
  PROVE  TrackedStep(c)
<1>1. /\ conn'[c].stmt = conn[c].stmt /\ conn'[c].tab = t
      /\ IF p = None THEN /\ conn'[c].pc = "option" /\ conn'[c].rest = Tail(conn[c].rest)
                          /\ conn'[c].ptr = conn[c].ptr
                     ELSE /\ conn'[c].pc = "store" /\ conn'[c].rest = conn[c].rest
                          /\ conn'[c].ptr = p /\ conn'[c].seen = heap[p].items
  BY LoadsOn
<1>2. p # None => Opt(c)' = Opt(c)
  BY <1>1 DEF Opt
<1>3. Tracks(c)'
  BY <1>1, <1>2 DEF Tracks, TracksTable, TracksMissing, TracksRename, RenamePCs
<1>4. IndexesFit(t)' \/ Behind(c, t)'
  BY <1>1 DEF IndexesFit, Behind
<1>5. ASSUME NEW s \in Tables, s \in Reach(c), s # t
      PROVE  (s \in colls' \/ phys'[s] = {}) /\ IndexesFit(s)'
  BY <1>5, OwnIndexes DEF Tracked, IndexesFit, Behind
<1> QED BY <1>3, <1>4, <1>5 DEF TrackedStep

\* What the options of ALTER TABLE find.
LEMMA OptionTracked ==
  ASSUME TypeInv, Named, Tracked, NEW c \in Conns,
         \/ AddColumn(c) \/ ModifyColumn(c) \/ DropColumn(c) \/ AddIndex(c) \/ DropKey(c)
  PROVE  TrackedStep(c)
<1> DEFINE h == conn[c]
           t == h.tab
           i == Opt(c).item
<1>t. /\ HandlerFits(h) /\ Tracks(c) /\ HoldsNamed(c) /\ Stays(c) /\ h \in Handler
      /\ heap \in [Ptrs -> {None} \cup TableSchema] /\ phys \in [Tables -> SUBSET Indexes]
  BY Typed DEF Named, Tracked, TypeInv, TypeOK
<1>1. /\ h.pc = "option" /\ h.rest # <<>> /\ UNCHANGED <<heap, docs>> /\ Loads(c, h.ptr)
      /\ Opt(c).op \in {"add", "modify", "drop", "addIndex", "dropIndex"}
  BY DEF AddColumn, ModifyColumn, DropColumn, AddIndex, DropKey, AtOption, Running, mongoVars, Opt
<1>2. /\ h.stmt.kind = "alter" /\ t \in Tables /\ Opt(c) \in AlterOption /\ t \in Reach(c)
  <2>1. \/ h.stmt.kind = "alter" /\ t \in Tables /\ h.rest \in Seq(AlterOption)
        \/ h.stmt.kind = "index" /\ h.rest \in Seq(IndexOption)
        \/ h.stmt.kind = "rename" /\ h.rest \in Seq(RenamePair)
        \/ h.stmt.kind = "drop" /\ h.rest \in Seq(DropName)
    BY <1>t, <1>1 DEF HandlerFits, OptionsFit
  <2>2. Opt(c) \notin IndexOption /\ Opt(c) \notin RenamePair /\ Opt(c) \notin DropName
    BY <1>1 DEF IndexOption, RenamePair, DropName
  <2>3. h.stmt.kind = "alter" /\ t \in Tables /\ Opt(c) \in AlterOption
    BY <1>1, <2>1, <2>2 DEF Opt
  <2> QED BY <1>t, <2>3, OwnTable, NoneIsDistinct
<1>3. /\ i \in Items
      /\ Opt(c).op \in {"addIndex", "dropIndex"} <=> i \in Indexes
  BY <1>1, <1>2, ItemsAssumption DEF AlterOption
<1>4. h.ptr = None => docs[t] = None
  BY <1>t, <1>1, <1>2 DEF Tracks, TracksMissing
<1>5. h.ptr # None => h.ptr \in Ptrs /\ heap[h.ptr].items \in Listing /\ phys[t] = ListedIn(heap[h.ptr].items)
  <2>1. h.ptr # None => h.ptr \in Ptrs /\ heap[h.ptr] \in TableSchema
    BY <1>t, HeldNames DEF Owned
  <2> QED BY <1>t, <1>1, <2>1 DEF Tracks, TracksTable, TableSchema
<1> DEFINE changed == IF Opt(c).op = "addIndex" THEN phys[t] \cup {i}
                      ELSE IF Opt(c).op = "dropIndex" THEN phys[t] \ {i} ELSE phys[t]
<1>6. /\ phys' = [phys EXCEPT ![t] = changed]
      /\ colls' = IF Opt(c).op = "addIndex" THEN colls \cup {t} ELSE colls
  <2>1. CASE AddColumn(c) \/ ModifyColumn(c) \/ DropColumn(c)
    <3>1. UNCHANGED <<phys, colls>> /\ Opt(c).op \in {"add", "modify", "drop"}
      BY <2>1 DEF AddColumn, ModifyColumn, DropColumn, mongoVars, AtOption, Opt
    <3> QED BY <1>t, <1>2, <3>1
  <2>2. CASE AddIndex(c)
    BY <2>2 DEF AddIndex, Indexed, AtOption, Opt
  <2>3. CASE DropKey(c)
    BY <2>3 DEF DropKey, Unindexed, AtOption, Opt
  <2> QED BY <2>1, <2>2, <2>3
<1>7. phys'[t] = changed /\ \A s \in Tables \ {t} : phys'[s] = phys[s]
  BY <1>t, <1>2, <1>6
<1>8. h.ptr # None => changed = ListedIn(Edited(heap[h.ptr].items, Opt(c).op, i))
  <2>1. CASE Opt(c).op = "addIndex"
    BY <1>3, <1>5, <2>1, ListedAfterEdit
  <2>2. CASE Opt(c).op = "dropIndex"
    BY <1>3, <1>5, <2>2, ListedAfterEdit
  <2>3. CASE Opt(c).op \in {"add", "modify", "drop"}
    <3>1. i \notin Indexes
      BY <1>3, <2>3
    <3> QED BY <1>3, <1>5, <2>3, <3>1, ListedAfterEdit
  <2> QED BY <1>1, <2>1, <2>2, <2>3
<1>9. t \in colls' \/ phys'[t] = {}
  BY <1>2, <1>6, <1>7 DEF Tracked
<1>10. h.ptr \in {None} \cup Ptrs
  BY <1>5
<1> QED
  <2> HIDE DEF changed
  <2> QED BY <1>1, <1>2, <1>4, <1>6, <1>7, <1>8, <1>9, <1>10, LoadsTracked

\* An index statement of one option that has not been carried out yet.
LEMMA IndexTracked ==
  ASSUME TypeInv, Named, Coherent, Tracked, IndexesKept, NEW c \in Conns,
         IndexStatement(c) \/ Load(c)
  PROVE  TrackedStep(c)
<1> DEFINE h == conn[c]
           t == h.tab
           i == Opt(c).item
           p == call[c].ptr
<1>t. /\ HandlerFits(h) /\ Tracks(c) /\ Stays(c) /\ HoldsCached(c) /\ GetsCached(c) /\ h \in Handler
      /\ phys \in [Tables -> SUBSET Indexes] /\ call \in [Conns -> Call] /\ p \in {None} \cup Ptrs
      /\ docs \in [Tables -> {None} \cup Listing] /\ conn \in [Conns -> Handler]
  BY Typed DEF Named, Coherent, Tracked, TypeInv, TypeOK
<1>1. /\ h.pc \in {"option", "load"} /\ h.rest # <<>> /\ UNCHANGED <<heap, docs>> /\ Returned(c)
      /\ Opt(c).op \in {"createIndex", "removeIndex"}
  BY <1>t DEF IndexStatement, Load, AtOption, Running, mongoVars, Opt, HandlerFits
<1>2. /\ h.stmt.kind = "index" /\ t \in Tables /\ Opt(c) \in IndexOption /\ t \in Reach(c)
  <2>1. \/ h.stmt.kind = "alter" /\ h.rest \in Seq(AlterOption)
        \/ h.stmt.kind = "index" /\ t \in Tables /\ h.rest \in Seq(IndexOption)
        \/ h.stmt.kind = "rename" /\ h.rest \in Seq(RenamePair)
        \/ h.stmt.kind = "drop" /\ h.rest \in Seq(DropName)
    BY <1>t, <1>1 DEF HandlerFits, OptionsFit
  <2>2. Opt(c) \notin AlterOption /\ Opt(c) \notin RenamePair /\ Opt(c) \notin DropName
    BY <1>1 DEF AlterOption, RenamePair, DropName
  <2>3. h.stmt.kind = "index" /\ t \in Tables /\ Opt(c) \in IndexOption
    BY <1>1, <2>1, <2>2 DEF Opt
  <2> QED BY <1>t, <2>3, OwnTable, NoneIsDistinct
<1>3. Opt(c).op = "createIndex" /\ i \in Indexes /\ i \in Items
  <2>1. h.stmt \in Workload /\ h.stmt.opts \in Seq(Option) /\ h.rest \in Seq(Option)
    BY <1>t, <1>1, StatementShape DEF HandlerFits, Handler
  <2>2. IsSuffix(h.rest, h.stmt.opts)
    BY <1>t, <1>1 DEF Stays, RestFits
  <2>3. PICK k \in DOMAIN h.stmt.opts : Head(h.rest) = h.stmt.opts[k]
    BY <1>1, <2>1, <2>2, SuffixHead
  <2>4. Opt(c).op # "removeIndex"
    BY <2>1, <2>3 DEF IndexesKept, Opt
  <2> QED BY <1>1, <1>2, <2>4, ItemsAssumption DEF IndexOption
<1>4. h.ptr = None
  BY <1>t, <1>1, <1>2 DEF HoldsCached
<1>5. CASE IndexStatement(c)
  <2>1. /\ phys' = [phys EXCEPT ![t] = phys[t] \cup {i}] /\ colls' = colls \cup {t}
        /\ Goto(c, "load") /\ call'[c].at = "lookup" /\ h.pc = "option"
    BY <1>t, <1>3, <1>5 DEF IndexStatement, Indexed, AtOption, Begins, GetOf, Opt, Running
  <2>2. phys'[t] = phys[t] \cup {i} /\ \A s \in Tables \ {t} : phys'[s] = phys[s]
    BY <1>t, <1>2, <2>1
  <2>3. conn'[c].pc = "load" /\ conn'[c].tab = t /\ Opt(c)' = Opt(c)
    BY <2>1, GoesOn DEF Opt
  <2>4. \A s \in Tables : ~Behind(c, s)
    BY <1>4, <2>1 DEF Behind, RenamePCs
  <2>5. docs[t] # None => phys'[t] = ListedIn(Edited(docs[t], Opt(c).op, i))
    BY <1>t, <1>2, <1>3, <2>2, <2>4, OwnIndexes, ListedAfterEdit DEF IndexesFit
  <2>6. Tracks(c)'
    BY <1>1, <2>1, <2>3, <2>5
       DEF Tracks, TracksTable, TracksMissing, TracksRename, RenamePCs, Returned
  <2>7. ASSUME NEW s \in Tables, s \in Reach(c)
        PROVE  (s \in colls' \/ phys'[s] = {}) /\ (IndexesFit(s)' \/ Behind(c, s)')
    <3>1. CASE s = t
      BY <2>1, <2>3, <3>1 DEF Behind
    <3>2. CASE s # t
      BY <1>1, <2>1, <2>2, <2>4, <2>7, <3>2, OwnIndexes DEF IndexesFit, Tracked
    <3> QED BY <3>1, <3>2
  <2> QED BY <2>6, <2>7 DEF TrackedStep
<1>6. CASE Load(c)
  <2>1. Loads(c, p) /\ UNCHANGED <<phys, colls>> /\ h.pc = "load"
    BY <1>6 DEF Load, mongoVars, Running
  <2>2. p = None => docs[t] = None
    BY <1>t, <1>1, <2>1 DEF Tracks, TracksMissing
  <2>3. ASSUME p # None PROVE phys[t] = ListedIn(Edited(heap[p].items, Opt(c).op, i))
    <3>1. cache[t] = p /\ ~Open(c, t)
      BY <1>t, <1>1, <2>1, <2>3 DEF GetsCached, Open
    <3>2. docs[t] = heap[p].items /\ docs[t] # None
      BY <1>2, <2>3, <3>1, HeldDocument
    <3> QED BY <1>t, <2>1, <3>2 DEF Tracks, TracksTable
  <2>4. t \in colls' \/ phys'[t] = {}
    BY <1>2, <2>1 DEF Tracked
  <2> QED BY <1>t, <1>1, <1>2, <1>4, <2>1, <2>2, <2>3, <2>4, LoadsTracked
<1> QED BY <1>5, <1>6

\* The schema of ALTER TABLE is the table's, and so is what becomes of it.
LEMMA SchemaTracked ==
  ASSUME TypeInv, Named, Coherent, Tracked, NEW c \in Conns, Start(c) \/ Store(c)
  PROVE  TrackedStep(c)
<1> DEFINE h == conn[c]
           t == h.tab
<1>t. /\ HandlerFits(h) /\ Tracks(c) /\ Stays(c) /\ HoldsCached(c) /\ GetsCached(c) /\ HoldsNamed(c)
      /\ h \in Handler /\ call[c].ptr \in {None} \cup Ptrs /\ conn \in [Conns -> Handler]
      /\ heap \in [Ptrs -> {None} \cup TableSchema]
  BY Typed DEF Named, Coherent, Tracked
<1>1. CASE Start(c)
  <2> DEFINE p == call[c].ptr
  <2>1. /\ h.pc = "start" /\ Returned(c) /\ t \in Tables /\ t \in Reach(c)
        /\ UNCHANGED <<heap, docs, phys, colls, call>>
    BY <1>t, <1>1, OwnTable, NoneIsDistinct DEF Start, Running, HandlerFits, OneTablePCs, mongoVars
  <2>2. /\ conn'[c].pc = "option" /\ conn'[c].ptr = p /\ conn'[c].tab = t
        /\ conn'[c].stmt = h.stmt
    BY <1>t, <1>1 DEF Start, Handler
  <2>3. ~Behind(c, t)
    BY <2>1 DEF Behind, RenamePCs
  <2>4. p # None => phys[t] = ListedIn(heap[p].items)
    <3> SUFFICES ASSUME p # None PROVE phys[t] = ListedIn(heap[p].items)
      OBVIOUS
    <3>1. cache[t] = p /\ ~Open(c, t)
      BY <1>t, <2>1 DEF GetsCached, Open
    <3>2. docs[t] = heap[p].items /\ docs[t] # None
      BY <2>1, <3>1, HeldDocument
    <3> QED BY <2>1, <2>3, <3>2, OwnIndexes DEF IndexesFit
  <2>5. p = None => docs[t] = None
    BY <1>t, <2>1 DEF Tracks, TracksMissing
  <2>6. Tracks(c)'
    BY <2>1, <2>2, <2>4, <2>5 DEF Tracks, TracksTable, TracksMissing, TracksRename, RenamePCs
  <2>7. \A s \in Tables : ~Behind(c, s)
    BY <2>1 DEF Behind, RenamePCs
  <2> QED BY <2>1, <2>6, <2>7, PlainTracked
<1>2. CASE Store(c)
  <2> DEFINE new == Edited(h.seen, Opt(c).op, Opt(c).item)
  <2>1. /\ h.pc = "store" /\ h.ptr # None /\ h.ptr \in Ptrs /\ heap[h.ptr] \in TableSchema
        /\ heap' = [heap EXCEPT ![h.ptr].items = new]
        /\ UNCHANGED <<docs, phys, colls, call>>
        /\ conn' = [conn EXCEPT ![c] = NextOption(c)]
    BY <1>t, <1>2, HeldNames DEF Store, Running, HandlerFits, mongoVars, Owned
  <2>2. heap'[h.ptr].items = new
    BY <1>t, <2>1 DEF TableSchema
  <2>3. conn'[c].pc = "option" /\ conn'[c].ptr = h.ptr /\ conn'[c].tab = t
    BY <2>1, GoesToNext
  <2>4. phys[t] = ListedIn(new)
    BY <1>t, <2>1 DEF Tracks, TracksTable
  <2>5. Tracks(c)'
    BY <2>1, <2>2, <2>3, <2>4 DEF Tracks, TracksTable, TracksMissing, TracksRename, RenamePCs
  <2>6. \A s \in Tables : Behind(c, s) => Behind(c, s)'
    BY <2>1, <2>3 DEF Behind
  <2> QED BY <2>1, <2>5, <2>6, PlainTracked
<1> QED BY <1>1, <1>2

LEMMA DropTracked ==
  ASSUME TypeInv, Named, Coherent, NothingLeft, Tracked, NEW c \in Conns,
         DropCollection(c) \/ DropCounter(c)
  PROVE  TrackedStep(c)
<1> DEFINE h == conn[c]
<1>t. /\ HandlerFits(h) /\ Tracks(c) /\ Stays(c) /\ Cleared(c)
      /\ h \in Handler /\ conn \in [Conns -> Handler]
      /\ phys \in [Tables -> SUBSET Indexes]
  BY Typed DEF Named, NothingLeft, Tracked, TypeInv, TypeOK
<1>1. CASE DropCollection(c)
  <2> DEFINE t == Opt(c).tab
  <2>1. /\ h.pc = "option" /\ h.rest # <<>> /\ Opt(c).op = "dropTable" /\ t \in Tables
        /\ colls' = colls \ {t} /\ phys' = [phys EXCEPT ![t] = {}] /\ docs' = docs
    BY <1>1, OptionAtHand DEF DropCollection, AtOption, Dropped, Running, Opt
  <2>2. conn'[c].pc = "dropCounter" /\ conn'[c].tab = t
    BY <1>t, <1>1 DEF DropCollection, Handler
  <2>3. Tracks(c)'
    BY <2>2, TracksNothing DEF RenamePCs
  <2>4. h.ptr = None
    <3>1. \/ h.stmt.kind = "alter" /\ h.rest \in Seq(AlterOption)
          \/ h.stmt.kind = "index" /\ h.rest \in Seq(IndexOption)
          \/ h.stmt.kind = "rename" /\ h.rest \in Seq(RenamePair)
          \/ h.stmt.kind = "drop" /\ h.rest \in Seq(DropName)
      BY <1>t, <2>1 DEF HandlerFits, OptionsFit
    <3>2. Opt(c) \notin AlterOption /\ Opt(c) \notin IndexOption /\ Opt(c) \notin RenamePair
      BY <2>1 DEF AlterOption, IndexOption, RenamePair
    <3>3. h.stmt.kind = "drop"
      BY <2>1, <3>1, <3>2 DEF Opt
    <3> QED BY <1>t, <3>3 DEF Stays
  <2>5. \A s \in Tables : ~Behind(c, s)
    BY <2>1, <2>4 DEF Behind, RenamePCs
  <2>6. phys'[t] = {} /\ \A s \in Tables \ {t} : phys'[s] = phys[s] /\ (s \in colls' <=> s \in colls)
    BY <1>t, <2>1
  <2>7. ASSUME NEW s \in Tables, s \in Reach(c)
        PROVE  (s \in colls' \/ phys'[s] = {}) /\ (IndexesFit(s)' \/ Behind(c, s)')
    <3>1. CASE s = t
      BY <2>2, <2>6, <3>1 DEF Behind
    <3>2. CASE s # t
      BY <2>1, <2>5, <2>6, <2>7, <3>2, OwnIndexes DEF IndexesFit, Tracked
    <3> QED BY <3>1, <3>2
  <2> QED BY <2>3, <2>7 DEF TrackedStep
<1>2. CASE DropCounter(c)
  <2>1. /\ h.pc = "dropCounter" /\ Returned(c) /\ UNCHANGED <<docs, phys, colls>>
        /\ conn' = [conn EXCEPT ![c] = NextOption(c)] /\ h.tab \in Tables
    BY <1>t, <1>2, NoneIsDistinct DEF DropCounter, Running, collVars, HandlerFits, OneTablePCs, Handler
  <2>2. docs[h.tab] = None
    BY <1>t, <2>1 DEF Cleared
  <2>3. conn'[c].pc = "option" /\ conn'[c].tab = h.tab /\ conn'[c].ptr = h.ptr /\ h.ptr = None
    BY <2>1, GoesToNext DEF HoldsCached, Coherent
  <2>4. Tracks(c)'
    BY <2>1, <2>2, <2>3 DEF Tracks, TracksTable, TracksMissing, TracksRename, RenamePCs
  <2>5. \A s \in Tables : Behind(c, s) => IndexesFit(s)
    BY <2>1, <2>2 DEF Behind, IndexesFit, RenamePCs
  <2> QED BY <2>1, <2>4, <2>5, PlainTracked
<1> QED BY <1>1, <1>2

\* The indexes move to the new name at once, the schema after them.
LEMMA RenameTracked ==
  ASSUME TypeInv, Named, Coherent, Orderly, NothingLeft, Tracked, NEW c \in Conns,
         \/ RenameCollection(c) \/ MigrateSchema(c) \/ DropOldSchema(c)
         \/ FindCounter(c) \/ SetCounter(c) \/ DeleteCounter(c)
  PROVE  TrackedStep(c)
<1> DEFINE h == conn[c]
           k == call[c]
           to == Opt(c).to
<1>t. /\ HandlerFits(h) /\ Tracks(c) /\ Stays(c) /\ Cleared(c) /\ HoldsCached(c) /\ GetsCached(c)
      /\ h \in Handler /\ k \in Call /\ conn \in [Conns -> Handler] /\ call \in [Conns -> Call]
      /\ phys \in [Tables -> SUBSET Indexes] /\ heap \in [Ptrs -> {None} \cup TableSchema]
      /\ HoldsNamed(c)
  BY Typed DEF Named, Coherent, NothingLeft, Tracked, TypeInv, TypeOK
<1>p. \A pc : Running(c, pc) => pc = h.pc /\ Returned(c)
  BY DEF Running
<1>1. CASE RenameCollection(c)
  <2> DEFINE from == From(c)
  <2>1. /\ h.pc = "option" /\ h.rest # <<>> /\ Opt(c).op = "rename" /\ Returned(c)
        /\ from \in colls /\ to \notin colls /\ from \in Tables /\ to \in Tables
        /\ colls' = (colls \ {from}) \cup {to} /\ docs' = docs
        /\ phys' = [phys EXCEPT ![to] = phys[from], ![from] = {}]
    BY <1>1, <1>p, OptionAtHand DEF RenameCollection, AtOption, Opt
  <2>2. from \in Reach(c) /\ to \in Reach(c)
    BY <1>t, <2>1, Reaching
  <2>3. /\ conn'[c].pc = "migrate" /\ conn'[c].tab = from /\ conn'[c].rest = h.rest
        /\ conn'[c].stmt = h.stmt /\ conn'[c].ptr = h.ptr /\ call'[c].at = "lookup"
    BY <1>t, <1>1 DEF RenameCollection, Handler, Begins, GetOf
  <2>4. Opt(c)' = Opt(c)
    BY <2>3 DEF Opt
  <2>5. /\ phys'[to] = phys[from] /\ phys'[from] = {}
        /\ \A s \in Tables \ {from, to} : phys'[s] = phys[s]
    BY <1>t, <2>1
  <2>6. docs[to] = None
    BY <2>1, <2>2, OwnLeft DEF Gone, Vanishing, RenamePCs
  <2>7. \A s \in Tables : Behind(c, s) => IndexesFit(s)
    <3>1. ASSUME h.ptr # None PROVE IndexesFit(h.tab)
      <4>1. h.stmt.kind = "alter" \/ h.stmt.kind = "index"
        BY <1>t, <3>1 DEF Stays
      <4>2. ~Open(c, h.tab)
        BY <2>1, <4>1, FirstOption DEF Open
      <4> QED BY <2>1, <3>1, <4>2, HeldFits
    <3> QED BY <2>1, <3>1 DEF Behind, RenamePCs
  <2>8. h.stmt.kind = "alter" /\ h.ptr = None => docs[from] = None
    BY <1>t, <2>1 DEF Tracks, TracksMissing, From
  <2>9. docs[from] # None => phys'[to] = ListedIn(docs[from])
    BY <2>1, <2>2, <2>5, <2>7, OwnIndexes DEF IndexesFit
  <2>10. Tracks(c)'
    BY <2>1, <2>3, <2>4, <2>6, <2>8, <2>9
       DEF Tracks, TracksTable, TracksMissing, TracksRename, Returned
  <2>11. ASSUME NEW s \in Tables, s \in Reach(c)
         PROVE  (s \in colls' \/ phys'[s] = {}) /\ (IndexesFit(s)' \/ Behind(c, s)')
    <3>1. CASE s = from
      BY <2>3, <2>5, <3>1 DEF Behind, RenamePCs
    <3>2. CASE s = to
      BY <2>1, <2>6, <3>2 DEF IndexesFit
    <3>3. CASE s \notin {from, to}
      BY <2>1, <2>5, <2>7, <2>11, <3>3, OwnIndexes DEF IndexesFit, Tracked
    <3> QED BY <3>1, <3>2, <3>3
  <2> QED BY <2>10, <2>11 DEF TrackedStep
<1>2. CASE \/ MigrateSchema(c) \/ DropOldSchema(c) \/ SetCounter(c)
           \/ FindCounter(c) /\ ~Renamed(c)
  <2>1. /\ h.pc \in RenamePCs /\ Returned(c) /\ UNCHANGED <<docs, phys, colls, cache>>
        /\ h.tab \in Tables /\ to \in Tables /\ h.tab \in Reach(c) /\ to \in Reach(c) /\ h.tab # to
    <3>1. h.pc \in RenamePCs /\ Returned(c) /\ UNCHANGED <<docs, phys, colls, cache>>
      BY <1>p, <1>2 DEF MigrateSchema, DropOldSchema, SetCounter, FindCounter, mongoVars, collVars,
         RenamePCs
    <3> QED BY <3>1, RenameReach
  <2>2. ASSUME MigrateSchema(c), k.ptr # None
        PROVE  /\ h.ptr # None \/ h.stmt.kind # "alter"
               /\ phys[to] = ListedIn(heap[k.ptr].items) /\ k.ptr \in Ptrs
               /\ heap[k.ptr] \in TableSchema
    <3>1. h.pc = "migrate" /\ cache[h.tab] = k.ptr /\ ~Open(c, h.tab)
      BY <1>t, <1>p, <2>1, <2>2 DEF MigrateSchema, GetsCached, Open
    <3>2. /\ docs[h.tab] = heap[k.ptr].items /\ docs[h.tab] # None /\ k.ptr \in Ptrs
          /\ heap[k.ptr] \in TableSchema
      BY <2>1, <2>2, <3>1, HeldDocument
    <3>3. h.rest # <<>>
      BY <1>t, <3>1 DEF HandlerFits, RenamePCs
    <3>4. h.ptr # None \/ h.stmt.kind # "alter"
      BY <1>t, <3>1, <3>2, <3>3 DEF Tracks, TracksMissing
    <3> QED BY <1>t, <3>1, <3>2, <3>4 DEF Tracks, TracksRename
  <2>3. /\ conn'[c].pc \in RenamePCs \ {"migrate"} /\ conn'[c].tab = h.tab
        /\ conn'[c].rest = h.rest /\ conn'[c].stmt = h.stmt /\ conn'[c].ptr = h.ptr
        /\ conn'[c].pc = "dropOld" =>
             MigrateSchema(c) /\ k.ptr # None /\ call'[c].ptr = k.ptr
             /\ heap' = [heap EXCEPT ![k.ptr].name = to]
    <3>1. \A pc : Goto(c, pc) => /\ conn'[c].pc = pc /\ conn'[c].tab = h.tab
                                 /\ conn'[c].rest = h.rest /\ conn'[c].stmt = h.stmt
                                 /\ conn'[c].ptr = h.ptr
      BY GoesOn
    <3>2. CASE MigrateSchema(c)
      <4>1. CASE k.ptr = None
        BY <3>1, <3>2, <4>1 DEF MigrateSchema, RenamePCs
      <4>2. CASE k.ptr # None
        <5>1. Goto(c, "dropOld") /\ call'[c] = SaveOf(k.ptr)
              /\ heap' = [heap EXCEPT ![k.ptr].name = to]
          BY <1>t, <3>2, <4>2 DEF MigrateSchema, Begins
        <5> QED BY <3>1, <3>2, <4>2, <5>1 DEF SaveOf, RenamePCs
      <4> QED BY <4>1, <4>2
    <3>3. CASE DropOldSchema(c)
      BY <3>1, <3>3 DEF DropOldSchema, RenamePCs
    <3>4. CASE SetCounter(c)
      BY <3>1, <3>4 DEF SetCounter, RenamePCs
    <3>5. CASE FindCounter(c) /\ ~Renamed(c)
      <4>1. conn' = [conn EXCEPT ![c].pc = "setCounter", ![c].id = seq[h.tab]]
        BY <3>5 DEF FindCounter
      <4>2. /\ conn'[c].pc = "setCounter" /\ conn'[c].tab = h.tab /\ conn'[c].rest = h.rest
            /\ conn'[c].stmt = h.stmt /\ conn'[c].ptr = h.ptr
        BY <1>t, <4>1 DEF Handler
      <4> QED BY <4>2 DEF RenamePCs
    <3> QED BY <1>2, <3>2, <3>3, <3>4, <3>5
  <2>4. Opt(c)' = Opt(c)
    BY <2>3 DEF Opt
  <2>5. TracksRename(c)'
    <3> SUFFICES ASSUME conn'[c].pc = "dropOld" PROVE phys[to] = ListedIn(heap'[call'[c].ptr].items)
      BY <2>1, <2>3, <2>4 DEF TracksRename, RenamePCs
    <3>1. heap'[k.ptr].items = heap[k.ptr].items
      BY <1>t, <2>2, <2>3 DEF TableSchema
    <3> QED BY <2>2, <2>3, <3>1
  <2>6. TracksMissing(c)'
    BY <1>t, <2>1, <2>2, <2>3, <2>4 DEF Tracks, TracksMissing, RenamePCs
  <2>7. Tracks(c)'
    BY <2>3, <2>5, <2>6 DEF Tracks, TracksTable, RenamePCs
  <2>8. \A s \in Tables : Behind(c, s) => Behind(c, s)'
    BY <2>1, <2>3 DEF Behind, RenamePCs
  <2> QED BY <2>1, <2>7, <2>8, PlainTracked
<1>3. CASE Renamed(c) /\ (FindCounter(c) \/ DeleteCounter(c))
  <2>1. /\ h.pc \in {"findCounter", "deleteCounter"} /\ Returned(c)
        /\ UNCHANGED <<cache, docs, phys, colls, call>>
        /\ h.tab \in Tables /\ to \in Tables /\ h.tab \in Reach(c) /\ to \in Reach(c) /\ h.tab # to
    <3>1. /\ h.pc \in {"findCounter", "deleteCounter"} /\ Returned(c)
          /\ UNCHANGED <<cache, docs, phys, colls, call>>
      BY <1>p, <1>3 DEF FindCounter, DeleteCounter, mongoVars, collVars
    <3> QED BY <3>1, RenameReach DEF RenamePCs
  <2>2. /\ conn'[c].pc = "option" /\ conn'[c].tab = to /\ conn'[c].ptr = h.ptr
        /\ conn'[c].stmt = h.stmt
    BY <1>3, EndsRename
  <2>3. docs[h.tab] = None
    BY <1>t, <2>1 DEF Cleared, CounterPCs
  <2>4. ~Behind(c, to)
    BY <2>1 DEF Behind
  <2>5. ASSUME h.ptr # None PROVE phys[to] = ListedIn(heap'[h.ptr].items)
    <3>1. cache[to] = h.ptr /\ ~Open(c, to)
      BY <1>t, <2>1, <2>5 DEF HoldsCached, CounterPCs, Open
    <3>2. /\ docs[to] = heap[h.ptr].items /\ docs[to] # None /\ h.ptr \in Ptrs
          /\ heap[h.ptr] \in TableSchema
      BY <2>1, <2>5, <3>1, HeldDocument
    <3>3. heap'[h.ptr].items = heap[h.ptr].items
      BY <1>t, <1>3, <2>5, <3>2 DEF Renamed, TableSchema
    <3> QED BY <2>1, <2>4, <3>2, <3>3, OwnIndexes DEF IndexesFit
  <2>6. h.ptr = None /\ h.stmt.kind = "alter" => docs[to] = None
    BY <1>t, <2>1 DEF Tracks, TracksMissing, RenamePCs
  <2>7. Tracks(c)'
    BY <2>1, <2>2, <2>5, <2>6 DEF Tracks, TracksTable, TracksMissing, TracksRename, RenamePCs
  <2>8. \A s \in Tables : Behind(c, s) => IndexesFit(s)
    BY <2>1, <2>3 DEF Behind, IndexesFit
  <2> QED BY <2>1, <2>7, <2>8, PlainTracked
<1> QED BY <1>1, <1>2, <1>3 DEF DeleteCounter

LEMMA HandleTracked ==
  ASSUME TypeInv, Named, Coherent, Orderly, NothingLeft, Tracked, IndexesKept, NEW c \in Conns,
         Handle(c)
  PROVE  Tracked'
<1>1. ~DropWholeDatabase(c) /\ ~TruncateDrop(c)
  <2>1. ~DropWholeDatabase(c)
    BY Typed DEF DropWholeDatabase, Running, Named, Stays, Orderly, Handler, HandlerFits
  <2> QED BY <2>1 DEF TruncateDrop, Running, Tracked, Tracks
<1>2. TrackedStep(c)
  BY <1>1, QuietTracked, EndTracked, CreateTracked, OptionTracked, IndexTracked, SchemaTracked,
     DropTracked, RenameTracked DEF Handle
<1> QED BY <1>2, HandleKeeps, TrackedNext

LEMMA TracksFramed ==
  ASSUME NEW c \in Conns, Tracks(c), UNCHANGED <<heap, docs, phys>>,
         conn'[c] = conn[c], call'[c] = call[c]
  PROVE  Tracks(c)'
<1>1. TracksTable(c)'
  BY DEF Tracks, TracksTable, Opt
<1>2. TracksMissing(c)'
  BY DEF Tracks, TracksMissing, Opt, Returned
<1>3. TracksRename(c)'
  BY DEF Tracks, TracksRename, Opt
<1> QED BY <1>1, <1>2, <1>3 DEF Tracks

LEMMA BeginTracked ==
  ASSUME TypeInv, Tracked, IndexesKept, NEW c \in Conns, NEW s \in Workload, Begin(c, s)
  PROVE  Tracked'
<1>1. /\ FirstStep(s) \notin RenamePCs \cup {"createIndexes", "load", "store", "finish", "dropCounter"}
      /\ FirstStep(s) # "truncate" /\ (FirstStep(s) = "start" => FirstCall(s).at # "returned")
      /\ s.kind = "alter" => FirstStep(s) # "option"
  <2>1. FirstStep(s) # "truncate" /\ (s.kind = "alter" => FirstStep(s) # "option")
    BY StatementItems DEF IndexesKept, FirstStep, Kinds
  <2>2. FirstStep(s) = "start" => FirstCall(s).at # "returned"
    BY BeginsOwn DEF FirstCall, GetOf
  <2> QED BY <2>1, <2>2, StatementShape, BeginsOwn
<1>2. /\ conn[c].pc = "idle" /\ UNCHANGED <<heap, docs, colls, phys>>
      /\ \A d \in Conns \ {c} : conn'[d] = conn[d] /\ call'[d] = call[d]
      /\ conn'[c].pc = FirstStep(s) /\ conn'[c].ptr = None /\ call'[c] = FirstCall(s)
      /\ conn'[c].stmt = s
  BY Typed DEF Begin, Begins, mongoVars
<1>3. Tracks(c)'
  BY <1>1, <1>2 DEF Tracks, TracksTable, TracksMissing, TracksRename, RenamePCs, Returned
<1>4. ASSUME NEW d \in Conns \ {c} PROVE Tracks(d)'
  BY <1>2, TracksFramed DEF Tracked
<1>5. ASSUME NEW t \in Tables
      PROVE  (t \in colls' \/ phys'[t] = {}) /\ (IndexesFit(t)' \/ \E d \in Conns : Behind(d, t)')
  <2>1. \A d \in Conns : Behind(d, t) => Behind(d, t)'
    BY <1>2 DEF Behind, RenamePCs
  <2> QED BY <1>2, <2>1 DEF Tracked, IndexesFit
<1> QED BY <1>3, <1>4, <1>5 DEF Tracked

LEMMA TrackedStutter ==
  ASSUME Tracked, UNCHANGED vars
  PROVE  Tracked'
<1>1. UNCHANGED <<conn, call, heap, docs, colls, phys>>
  BY DEF vars, mongoVars, collVars, budgets
<1>2. \A c \in Conns : Tracks(c)'
  BY <1>1, TracksFramed DEF Tracked
<1>3. ASSUME NEW t \in Tables
      PROVE  /\ (t \in colls \/ phys[t] = {}) = (t \in colls \/ phys[t] = {})'
             /\ IndexesFit(t) = IndexesFit(t)'
  BY <1>1 DEF IndexesFit
<1>4. \A c \in Conns, t \in Tables : Behind(c, t) => Behind(c, t)'
  BY <1>1 DEF Behind
<1> QED BY <1>2, <1>3, <1>4 DEF Tracked

LEMMA TrackedKept ==
  ASSUME Orderly, IndexesKept, TypeInv, Named, CoherentInv, NothingLeftInv, TrackedInv, [Next]_vars
  PROVE  TrackedInv'
<1> SUFFICES ASSUME Uninterrupted' PROVE Tracked'
  BY DEF TrackedInv
<1>0. ASSUME UNCHANGED <<restarts, faults>> PROVE Tracked /\ NothingLeft /\ Coherent
  BY <1>0 DEF TrackedInv, NothingLeftInv, CoherentInv, Uninterrupted
<1>1. ASSUME NEW c \in Conns, NEW s \in Workload, Begin(c, s) PROVE Tracked'
  BY <1>0, <1>1, BeginTracked DEF Begin
<1>2. ASSUME NEW c \in Conns, CallStep(c) PROVE Tracked'
  BY <1>0, <1>2, CallKeeps, CallTracked, TrackedNext DEF CallStep, budgets
<1>3. ASSUME NEW c \in Conns, Handle(c) PROVE Tracked'
  BY <1>0, <1>3, HandleBudgets, HandleTracked
<1>4. ASSUME NEW c \in Conns, Fault(c) PROVE FALSE
  BY <1>4 DEF Fault, TypeInv, TypeOK, Uninterrupted
<1>5. CASE Restart
  BY <1>5 DEF Restart, TypeInv, TypeOK, Uninterrupted
<1>6. CASE UNCHANGED vars
  BY <1>0, <1>6, TrackedStutter DEF vars
<1> QED BY <1>1, <1>2, <1>3, <1>4, <1>5, <1>6 DEF Next, Quiet

LEMMA TrackedAgrees ==
  ASSUME TypeInv, Named, TrackedInv
  PROVE  IndexesAgree
<1> SUFFICES ASSUME Uninterrupted, NEW t \in Tables, Settled(t) PROVE IndexesFit(t)
  BY DEF IndexesAgree, IndexesFit, ListedIn
<1>1. \A c \in Conns : ~Behind(c, t)
  BY BehindReached DEF Settled, Changes, Reach
<1> QED BY <1>1 DEF TrackedInv, Tracked

\* Between two DDL statements the indexes that a stored schema lists are those
\* that exist, although CREATE TABLE, CREATE INDEX, ALTER TABLE and RENAME change
\* the two in different round trips, and although DROP TABLE, RENAME and INSERT
\* into a table that is gone make names used that had indexes before: if clients
\* are Serial, indexes and schema are changed together (IndexesKept), and no
\* round trip and no process has failed.
THEOREM IndexesCorrect ==
  ASSUME Serial, Orderly, IndexesKept
  PROVE  Spec => []IndexesAgree
<1>1. Init => CoherentInv /\ NothingLeftInv /\ TrackedInv
  <2>1. Init => CoherentInv
    BY StartCoherent DEF Init, StoreInit, CoherentInv
  <2>2. Init => NothingLeftInv
    BY DEF Init, StoreInit, NothingLeftInv, NothingLeft, Present, Cleared, Gone, Idle, NoCall,
       RenamePCs, CounterPCs
  <2>3. Init => TrackedInv
    BY DEF Init, StoreInit, TrackedInv, Tracked, IndexesFit, Tracks, TracksTable, TracksMissing,
       TracksRename, Idle, RenamePCs
  <2> QED BY <2>1, <2>2, <2>3
<1>2. NoDropDatabase
  BY DEF Orderly, NoDropDatabase
<1>3. TypeInv /\ Named /\ CoherentInv /\ NothingLeftInv /\ TrackedInv /\ [Next]_vars
      => (CoherentInv /\ NothingLeftInv /\ TrackedInv)'
  BY <1>2, CoherentKept, NothingLeftKept, TrackedKept
<1>4. TypeInv /\ Named /\ TrackedInv => IndexesAgree
  BY TrackedAgrees
<1> QED BY <1>1, <1>3, <1>4, ShapeCorrect, NamedInvariant, PTL DEF Spec
=============================================================================
