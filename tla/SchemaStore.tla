---------------------------- MODULE SchemaStore ----------------------------
(***************************************************************************)
(* The schema store of driver/schema.go: one process-wide cache of table   *)
(* schemas in front of the collection _table_schemas.                      *)
(*                                                                         *)
(* Every goroutine that serves a client connection calls Get, Save and     *)
(* Delete on the same store.  A call is split at the points where another  *)
(* goroutine can run: each MongoDB round trip is one atomic action, and so *)
(* is each section under the mutex SchemaStore.mu.  The mutex is never     *)
(* held across a round trip.                                               *)
(*                                                                         *)
(* The cache holds POINTERS.  Get hands the cached pointer to its caller,  *)
(* so a handler that edits "its" schema edits what every connection sees.  *)
(* heap is therefore part of the state: heap[p] is the TableSchema that    *)
(* pointer p points to.                                                    *)
(*                                                                         *)
(* A TableSchema is abstracted to its table name and its items, the columns *)
(* and index definitions it lists.  The Go slices keep duplicates (nothing *)
(* checks for a name already listed), so items counts each of them; their  *)
(* order is left out.                                                      *)
(***************************************************************************)
EXTENDS Naturals, FiniteSets

CONSTANTS
  Conns,   \* the goroutines, one per client connection
  Tables,  \* table names of the one database the module is about
  Items,   \* column names and index definitions a schema may list
  Ptrs,    \* addresses of TableSchema objects; bounds the heap
  None     \* Go's nil, an absent map entry, a missing document

\* How often a schema lists each item.
Listing == [Items -> Nat]

TableSchema == [name : Tables, items : Listing]

ASSUME NoneIsDistinct ==
  /\ None \notin Ptrs /\ None \notin Tables
  /\ None \notin Listing /\ None \notin TableSchema

VARIABLES
  heap,    \* pointer -> TableSchema
  cache,   \* SchemaStore.cache: table -> pointer or None
  docs,    \* collection _table_schemas: table -> listing or None
  call     \* connection -> the store call it is in, and the last result

storeVars == <<heap, cache, docs, call>>

(***************************************************************************)
(* call[c].at is the next step of the call c is in, or "returned" outside  *)
(* of a call; call[c].ptr is then what the last Get returned.              *)
(***************************************************************************)
CallSteps ==
  {"lookup", "find", "fill", "upsert", "publish", "evict", "erase", "returned"}

Call == [at : CallSteps, tab : {None} \cup Tables, ptr : {None} \cup Ptrs]

NoCall == [at |-> "returned", tab |-> None, ptr |-> None]

StoreTypeOK ==
  /\ heap \in [Ptrs -> {None} \cup TableSchema]
  /\ cache \in [Tables -> {None} \cup Ptrs]
  /\ docs \in [Tables -> {None} \cup Listing]
  /\ call \in [Conns -> Call]

StoreInit ==
  /\ heap = [p \in Ptrs |-> None]
  /\ cache = [t \in Tables |-> None]
  /\ docs = [t \in Tables |-> None]
  /\ call = [c \in Conns |-> NoCall]

(***************************************************************************)
(* Calling and returning.  A caller starts a call by setting call[c]; it   *)
(* goes on when call[c].at is "returned" again.                            *)
(***************************************************************************)
Returned(c) == call[c].at = "returned"

GetOf(t) == [at |-> "lookup", tab |-> t, ptr |-> None]
SaveOf(p) == [at |-> "upsert", tab |-> None, ptr |-> p]
DeleteOf(t) == [at |-> "evict", tab |-> t, ptr |-> None]

Return(c, p) == call' = [call EXCEPT ![c] = [NoCall EXCEPT !.ptr = p]]

At(c, step) == call[c].at = step

(***************************************************************************)
(* Get.  Lookup: the read-locked hit path.  Find: FindOne; no document,    *)
(* and an error too, makes Get return nil; otherwise the document is       *)
(* decoded into a new object, p.  Fill: the write-locked cache fill, which *)
(* overwrites whatever the cache holds by then.                            *)
(***************************************************************************)
Lookup(c) ==
  /\ At(c, "lookup")
  /\ IF cache[call[c].tab] # None
       THEN Return(c, cache[call[c].tab])
       ELSE call' = [call EXCEPT ![c].at = "find"]
  /\ UNCHANGED <<heap, cache, docs>>

FindMissing(c) ==
  /\ At(c, "find")
  /\ docs[call[c].tab] = None
  /\ Return(c, None)
  /\ UNCHANGED <<heap, cache, docs>>

\* Variant: the error of FindOne is ignored and an empty object decoded.
FindDocumentUnchecked(c, p) ==
  /\ At(c, "find")
  /\ heap' = [heap EXCEPT ![p] = [name |-> call[c].tab,
                                  items |-> docs[call[c].tab]]]
  /\ call' = [call EXCEPT ![c].at = "fill", ![c].ptr = p]
  /\ UNCHANGED <<cache, docs>>

FindDocument(c, p) ==
  /\ At(c, "find")
  /\ docs[call[c].tab] # None
  /\ heap' = [heap EXCEPT ![p] = [name |-> call[c].tab,
                                  items |-> docs[call[c].tab]]]
  /\ call' = [call EXCEPT ![c].at = "fill", ![c].ptr = p]
  /\ UNCHANGED <<cache, docs>>

Fill(c) ==
  /\ At(c, "fill")
  /\ cache' = [cache EXCEPT ![call[c].tab] = call[c].ptr]
  /\ Return(c, call[c].ptr)
  /\ UNCHANGED <<heap, docs>>

(***************************************************************************)
(* Save.  Upsert: UpdateOne with upsert under the name the schema has now. *)
(* Publish: the write-locked cache update, under the name the schema has   *)
(* THEN.                                                                   *)
(***************************************************************************)
Upsert(c) ==
  /\ At(c, "upsert")
  /\ LET s == heap[call[c].ptr]
     IN  docs' = [docs EXCEPT ![s.name] = s.items]
  /\ call' = [call EXCEPT ![c].at = "publish"]
  /\ UNCHANGED <<heap, cache>>

Publish(c) ==
  /\ At(c, "publish")
  /\ cache' = [cache EXCEPT ![heap[call[c].ptr].name] = call[c].ptr]
  /\ Return(c, call[c].ptr)
  /\ UNCHANGED <<heap, docs>>

(***************************************************************************)
(* Delete.  Evict: the write-locked removal from the cache.  Erase:        *)
(* DeleteOne, whose error is dropped.                                      *)
(***************************************************************************)
\* Variant: only the document is removed, not the cache entry.
EvictNothing(c) ==
  /\ At(c, "evict")
  /\ call' = [call EXCEPT ![c].at = "erase"]
  /\ UNCHANGED <<heap, cache, docs>>

Evict(c) ==
  /\ At(c, "evict")
  /\ cache' = [cache EXCEPT ![call[c].tab] = None]
  /\ call' = [call EXCEPT ![c].at = "erase"]
  /\ UNCHANGED <<heap, docs>>

Erase(c) ==
  /\ At(c, "erase")
  /\ docs' = [docs EXCEPT ![call[c].tab] = None]
  /\ Return(c, None)
  /\ UNCHANGED <<heap, cache>>

(***************************************************************************)
(* A round trip that fails (network, or the statement's 30 s deadline):    *)
(* Get returns nil, Save returns the error and does not touch the cache,   *)
(* Delete ignores it.                                                      *)
(***************************************************************************)
StoreFault(c) ==
  /\ call[c].at \in {"find", "upsert", "erase"}
  /\ Return(c, None)
  /\ UNCHANGED <<heap, cache, docs>>

StoreStep(c, fresh) ==
  \/ Lookup(c)
  \/ FindMissing(c)
  \/ \E p \in fresh : FindDocument(c, p)
  \/ Fill(c)
  \/ Upsert(c)
  \/ Publish(c)
  \/ Evict(c)
  \/ Erase(c)
=============================================================================
