--------------------------- MODULE SessionProofs ---------------------------
(***************************************************************************)
(* When clients can rely on the database they have selected.               *)
(***************************************************************************)
EXTENDS Session, TLAPS

\* Driver.db is the selection of every client that has made one.
SessionInv ==
  /\ TypeOK
  /\ \A c \in selected : db = currentDB[c]
  /\ \A c \in Conns : trips[c] # <<>> => c \in selected /\ handle[c] = currentDB[c]
  /\ OwnDatabase

LEMMA SessionInitial == Init => SessionInv
BY DatabasesAssumption
   DEF Init, SessionInv, TypeOK, Connected, OwnDatabase

\* The round trips of a statement are a sequence of sources.
LEMMA StatementsAreTrips == Statements \subseteq Seq(Sources)
BY DEF Statements, Find, Create, Update, Insert, InsertSelect, Drop, Rename,
       AlterRename, ShowTables, Sources

LEMMA SessionInductive ==
  ASSUME Explicit, Agree PROVE SessionInv /\ [Next]_vars => SessionInv'
<1> SUFFICES ASSUME SessionInv, [Next]_vars PROVE SessionInv'
  OBVIOUS
<1> USE DatabasesAssumption, DisciplineAssumption
<1> USE DEF SessionInv, TypeOK, Connected, Waiting, Counts, OwnDatabase
<1>1. ASSUME NEW c \in Conns, Connect(c) PROVE SessionInv'
  BY <1>1 DEF Connect
<1>2. ASSUME NEW c \in Conns, NEW name \in DBs, UseDB(c, name)
      PROVE SessionInv'
  <2>1. \A e \in selected : e # c => currentDB[e] = name
    BY <1>2 DEF UseDB, MaySelect
  <2> QED
    BY <1>2, <2>1 DEF UseDB
<1>3. ASSUME NEW c \in Conns, NEW s \in Statements, Begin(c, s)
      PROVE SessionInv'
  <2>1. c \in selected
    BY <1>3 DEF Begin
  <2>2. s \in Seq(Sources)
    BY StatementsAreTrips
  <2> QED
    BY <1>3, <2>1, <2>2 DEF Begin
<1>4. ASSUME NEW c \in Conns, RoundTrip(c) PROVE SessionInv'
  <2>1. Tail(trips[c]) \in Seq(Sources)
    BY <1>4 DEF RoundTrip
  <2>2. handle[c] = currentDB[c] /\ db = currentDB[c] /\ currentDB[c] \in DBs
    BY <1>4 DEF RoundTrip
  <2>3. touched'[c] = touched[c] \cup {currentDB[c]}
    BY <1>4, <2>2 DEF RoundTrip
  <2> QED
    BY <1>4, <2>1, <2>2, <2>3 DEF RoundTrip
<1>5. ASSUME NEW c \in Conns, Disconnect(c) PROVE SessionInv'
  BY <1>5 DEF Disconnect
<1>6. CASE UNCHANGED vars
  BY <1>6 DEF vars
<1> QED
  BY <1>1, <1>2, <1>3, <1>4, <1>5, <1>6 DEF Next, Quiet

\* For any number of connections and databases: if clients select a database
\* before they use one and those connected at the same time select the same, then
\* statements work where their clients believe (handler.go: the handler "tracks
\* the currently selected database name").
THEOREM AgreementIsSafe == Explicit /\ Agree /\ Spec => []OwnDatabase
<1>1. SessionInv => OwnDatabase
  BY DEF SessionInv
<1>2. CASE Explicit /\ Agree
  <2>1. SessionInv /\ [Next]_vars => SessionInv'
    BY <1>2, SessionInductive
  <2> QED
    BY <1>1, <2>1, SessionInitial, PTL DEF Spec
<1>3. CASE ~(Explicit /\ Agree)
  BY <1>3
<1> QED
  BY <1>2, <1>3
LEMMA TypesInductive == TypeOK /\ [Next]_vars => TypeOK'
<1> SUFFICES ASSUME TypeOK, [Next]_vars PROVE TypeOK'
  OBVIOUS
<1> USE DatabasesAssumption DEF TypeOK, Connected, Waiting, Counts
<1>1. ASSUME NEW c \in Conns, Connect(c) PROVE TypeOK'
  BY <1>1 DEF Connect
<1>2. ASSUME NEW c \in Conns, NEW name \in DBs, UseDB(c, name) PROVE TypeOK'
  BY <1>2 DEF UseDB
<1>3. ASSUME NEW c \in Conns, NEW s \in Statements, Begin(c, s) PROVE TypeOK'
  <2>1. s \in Seq(Sources)
    BY StatementsAreTrips
  <2> QED
    BY <1>3, <2>1 DEF Begin
<1>4. ASSUME NEW c \in Conns, RoundTrip(c) PROVE TypeOK'
  <2>1. Tail(trips[c]) \in Seq(Sources)
    BY <1>4 DEF RoundTrip
  <2>2. currentDB[c] \in DBs \cup {None} /\ handle[c] \in DBs /\ db \in DBs
    BY <1>4
  <2>3. touched'[c] \in SUBSET DBs
    BY <1>4, <2>2 DEF RoundTrip
  <2> QED
    BY <1>4, <2>1, <2>3 DEF RoundTrip
<1>5. ASSUME NEW c \in Conns, Disconnect(c) PROVE TypeOK'
  BY <1>5 DEF Disconnect
<1>6. CASE UNCHANGED vars
  BY <1>6 DEF vars
<1> QED
  BY <1>1, <1>2, <1>3, <1>4, <1>5, <1>6 DEF Next, Quiet

\* Driver.db always names a database, whatever clients select and however their
\* statements interleave (driver.go: SetDB is the one that changes it), and a
\* client that has selected one is connected.
THEOREM SessionTypes == Spec => []TypeOK
<1>1. Init => TypeOK
  BY DatabasesAssumption DEF Init, TypeOK, Connected
<1> QED
  BY <1>1, TypesInductive, PTL DEF Spec
=============================================================================
