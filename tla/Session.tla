------------------------------ MODULE Session ------------------------------
(***************************************************************************)
(* Which database a statement works in (mysql/handler.go, mysql/meta.go,   *)
(* driver/driver.go).                                                      *)
(*                                                                         *)
(* There is one handler for each connection, with the database the client  *)
(* selected in handler.currentDB, and one Driver for all of them, with the *)
(* database that statements use in Driver.db.  USE sets both.              *)
(*                                                                         *)
(* A statement is abstracted to its MongoDB round trips, and these to      *)
(* where the database comes from: a handle taken at the start of the       *)
(* statement, or Driver.db read again.                                     *)
(***************************************************************************)
EXTENDS Naturals, Sequences

CONSTANTS
  Conns,      \* client connections
  DBs,        \* database names
  DefaultDB,  \* the one in the MongoDB URI
  Explicit,   \* TRUE: clients select a database before they use one
  Agree,      \* TRUE: those connected at the same time select the same one
  None,
  MaxSteps    \* bound: connects, USEs and statements

ASSUME DatabasesAssumption ==
  DefaultDB \in DBs /\ None \notin DBs
ASSUME DisciplineAssumption == Explicit \in BOOLEAN /\ Agree \in BOOLEAN

VARIABLES
  db,         \* Driver.db
  currentDB,  \* connection -> handler.currentDB; None: not connected
  selected,   \* the connections whose client has selected a database
  trips,      \* connection -> the round trips its statement has still to make
  handle,     \* connection -> the database taken at the start of the statement
  touched,    \* connection -> the databases the statement has worked in
  steps

vars == <<db, currentDB, selected, trips, handle, touched, steps>>

Sources == {"handle", "driver"}

\* The round trips of the statements; one that uses the handle of the round trip
\* before it is left out.
Find == <<"handle">>                           \* and DELETE
Create == <<"handle", "handle", "handle">>     \* ALTER, CREATE and DROP INDEX
Update == <<"driver", "handle">>               \* Get; UpdateMany
Insert == <<"driver", "driver", "handle">>     \* Get; the counter; InsertMany
InsertSelect == <<"handle", "driver">>         \* Aggregate; InsertMany
Drop == <<"driver", "driver">>                 \* of two tables
Rename == <<"handle", "driver">>               \* renameCollection; its schema
AlterRename == <<"handle", "driver", "handle">>
ShowTables == <<"driver">>                     \* under the name in currentDB

Statements == {Find, Create, Update, Insert, InsertSelect, Drop, Rename,
               AlterRename, ShowTables}

TypeOK ==
  /\ db \in DBs
  /\ currentDB \in [Conns -> {None} \cup DBs]
  /\ selected \subseteq {c \in Conns : currentDB[c] # None}
  /\ trips \in [Conns -> Seq(Sources)]
  /\ handle \in [Conns -> DBs]
  /\ touched \in [Conns -> SUBSET DBs]
  /\ steps \in Nat

Init ==
  /\ db = DefaultDB
  /\ currentDB = [c \in Conns |-> None]
  /\ selected = {}
  /\ trips = [c \in Conns |-> <<>>]
  /\ handle = [c \in Conns |-> DefaultDB]
  /\ touched = [c \in Conns |-> {}]
  /\ steps = 0

Connected(c) == currentDB[c] # None
Waiting(c) == Connected(c) /\ trips[c] = <<>>

\* What clients do, not what the code checks.
MaySelect(c, name) ==
  Agree => \A d \in selected \ {c} : currentDB[d] = name

Counts == steps < MaxSteps /\ steps' = steps + 1

\* newHandler: the connection starts in the default database, says the handler;
\* Driver.db is left as it is.
Connect(c) ==
  /\ Counts
  /\ ~Connected(c)
  /\ currentDB' = [currentDB EXCEPT ![c] = DefaultDB]
  /\ UNCHANGED <<db, selected, trips, handle, touched>>

\* Variant: an empty name is not refused and selects no database.
UseDBUnchecked(c, name) ==
  /\ Counts
  /\ Waiting(c) /\ MaySelect(c, name)
  /\ currentDB' = [currentDB EXCEPT ![c] = name]
  /\ db' \in {name, None}
  /\ selected' = selected \cup {c}
  /\ touched' = [touched EXCEPT ![c] = {}]
  /\ UNCHANGED <<trips, handle>>

\* Variant: the client's selection stays in the handler.
UseHandlerOnly(c, name) ==
  /\ Counts
  /\ Waiting(c) /\ MaySelect(c, name)
  /\ currentDB' = [currentDB EXCEPT ![c] = name]
  /\ selected' = selected \cup {c}
  /\ touched' = [touched EXCEPT ![c] = {}]
  /\ UNCHANGED <<db, trips, handle>>

\* COM_INIT_DB and USE, of a name that is not empty.
UseDB(c, name) ==
  /\ Counts
  /\ Waiting(c) /\ MaySelect(c, name)
  /\ currentDB' = [currentDB EXCEPT ![c] = name]
  /\ db' = name
  /\ selected' = selected \cup {c}
  /\ touched' = [touched EXCEPT ![c] = {}]
  /\ UNCHANGED <<trips, handle>>

Begin(c, s) ==
  /\ Counts
  /\ Waiting(c)
  /\ Explicit => c \in selected
  /\ trips' = [trips EXCEPT ![c] = s]
  /\ handle' = [handle EXCEPT ![c] = db]
  /\ touched' = [touched EXCEPT ![c] = {}]
  /\ UNCHANGED <<db, currentDB, selected>>

RoundTrip(c) ==
  /\ trips[c] # <<>>
  /\ touched' = [touched EXCEPT ![c] =
                   @ \cup {IF Head(trips[c]) = "handle" THEN handle[c] ELSE db}]
  /\ trips' = [trips EXCEPT ![c] = Tail(@)]
  /\ UNCHANGED <<db, currentDB, selected, handle, steps>>

\* Between two commands; a running statement ends first.
Disconnect(c) ==
  /\ Waiting(c)
  /\ currentDB' = [currentDB EXCEPT ![c] = None]
  /\ selected' = selected \ {c}
  /\ touched' = [touched EXCEPT ![c] = {}]
  /\ UNCHANGED <<db, trips, handle, steps>>

Quiet == (\A c \in Conns : trips[c] = <<>>) /\ UNCHANGED vars

Next ==
  \/ \E c \in Conns :
       \/ Connect(c)
       \/ \E name \in DBs : UseDB(c, name)
       \/ \E s \in Statements : Begin(c, s)
       \/ RoundTrip(c)
       \/ Disconnect(c)
  \/ Quiet

Spec == Init /\ [][Next]_vars
----------------------------------------------------------------------------
(* Properties.                                                             *)

\* A statement works in the database its own connection is in (handler.go: the
\* handler "tracks the currently selected database name (for SHOW DATABASES /
\* USE) and delegates real query execution"; main.go: the database of the URI
\* is the one "to expose as the current schema").
OwnDatabase == \A c \in Conns : touched[c] \subseteq {currentDB[c]}
=============================================================================
