---------------------------- MODULE ServerProofs ----------------------------
(***************************************************************************)
(* The safety of the server loop, for any number of connections.           *)
(***************************************************************************)
EXTENDS Server, FiniteSetTheorems, TLAPS

\* The connections wg counts.
Counted == {c \in Conns : worker[c] \notin {"none", "ended"}
                          \/ (main.at = "spawn" /\ main.conn = c)}

\* The connection main has accepted and not yet handed to a worker.
InHand == {c \in Conns : main.at \in {"register", "add", "spawn"} /\ main.conn = c}

\* The phases of the three kinds of goroutine belong together.
Phases ==
  /\ closer.at # "asleep" => ~listening
  /\ main.at \in {"wait", "exited"} => ~listening
  /\ mu = "closer" <=> closer.at = "close"
  /\ \A c \in InHand : worker[c] = "none"
  /\ \A c \in Conns : net[c] \in {"away", "queued"} =>
                        worker[c] = "none" /\ c \notin InHand

\* Which connections are open, and which of these the closer knows of.
OpenOnes ==
  /\ \A c \in Conns : net[c] = "open" =>
                        c \in InHand \/ worker[c] \in {"reading", "executing", "closing"}
  /\ closer.at = "close" =>
       \A c \in Conns : net[c] = "open" =>
         c \in closer.todo \/ (main.at = "register" /\ c = main.conn)

ServerInv ==
  /\ TypeOK
  /\ Phases
  /\ OpenOnes
  /\ wg = Cardinality(Counted)
  /\ NoStatementCut
  /\ TableIsExact
  /\ AtMostOneMissed

\* The invariant holds at the start.
LEMMA ServerInitial == Init => ServerInv
<1> SUFFICES ASSUME Init PROVE ServerInv
  OBVIOUS
<1>1. Counted = {}
  BY DEF Init, Counted
<1>2. wg = Cardinality(Counted)
  BY <1>1, FS_EmptySet DEF Init
<1>3. TypeOK
  BY DEF Init, TypeOK, MainSteps, CloserSteps, WorkerSteps
<1>4. Phases /\ OpenOnes
  BY DEF Init, Phases, OpenOnes, InHand
<1>5. NoStatementCut /\ TableIsExact /\ AtMostOneMissed
  BY DEF Init, NoStatementCut, TableIsExact, Served, Awaited, AtMostOneMissed
<1> QED
  BY <1>2, <1>3, <1>4, <1>5 DEF ServerInv

\* What wg counts is finite, as the cardinality theorems ask.
LEMMA CountedFinite == ASSUME TypeOK PROVE IsFiniteSet(Counted)
BY ConnsAreFinite, FS_Subset DEF Counted

\* Types, phases, open connections and the table, for steps of main.
LEMMA MainPreserves ==
  ASSUME ServerInv, Alive, MainStep PROVE ServerInv'
<1> USE DEF ServerInv, TypeOK, Phases, OpenOnes, InHand, NoStatementCut,
            TableIsExact, Served, Awaited, AtMostOneMissed, Alive,
            MainGoesTo, MainSteps, CloserSteps, WorkerSteps
<1> USE NoneIsNoConn
<1>1. ASSUME NEW c \in Conns, Accept(c) PROVE ServerInv'
  <2>1. Counted' = Counted
    BY <1>1 DEF Accept, Counted
  <2> QED
    BY <1>1, <2>1 DEF Accept
<1>2. CASE AcceptFails
  <2>1. Counted' = Counted
    BY <1>2 DEF AcceptFails, Counted
  <2> QED
    BY <1>2, <2>1 DEF AcceptFails
<1>3. CASE Register
  <2>1. Counted' = Counted
    BY <1>3 DEF Register, Counted
  <2> QED
    BY <1>3, <2>1 DEF Register
<1>4. CASE Add
  <2>1. Counted' = Counted \cup {main.conn} /\ main.conn \notin Counted
    BY <1>4 DEF Add, Counted
  <2>2. wg' = Cardinality(Counted')
    BY <1>4, <2>1, CountedFinite, FS_AddElement DEF Add
  <2> QED
    BY <1>4, <2>2 DEF Add
<1>5. CASE Spawn
  <2>1. Counted' = Counted
    BY <1>5 DEF Spawn, Counted
  <2> QED
    BY <1>5, <2>1 DEF Spawn
<1>6. CASE Exit
  <2>1. Counted = {}
    BY <1>6, CountedFinite, FS_EmptySet DEF Exit
  <2>2. Counted' = Counted
    BY <1>6 DEF Exit, Counted
  <2>3. \A c \in Conns : worker[c] \in {"none", "ended"}
    BY <2>1 DEF Counted
  <2> QED
    BY <1>6, <2>2, <2>3 DEF Exit
<1> QED
  BY <1>1, <1>2, <1>3, <1>4, <1>5, <1>6 DEF MainStep

\* The same for steps of the closer.
LEMMA CloserPreserves ==
  ASSUME ServerInv, Alive, CloserStep PROVE ServerInv'
<1> USE DEF ServerInv, TypeOK, Phases, OpenOnes, InHand, NoStatementCut,
            TableIsExact, Served, Awaited, AtMostOneMissed, Alive,
            MainSteps, CloserSteps, WorkerSteps
<1> USE NoneIsNoConn
<1>1. CASE CloseListener
  <2>1. Counted' = Counted
    BY <1>1 DEF CloseListener, Counted
  <2> QED
    BY <1>1, <2>1 DEF CloseListener
<1>2. CASE LockTable
  <2>1. Counted' = Counted
    BY <1>2 DEF LockTable, Counted
  <2> QED
    BY <1>2, <2>1 DEF LockTable
<1>3. CASE UnlockTable
  <2>1. Counted' = Counted
    BY <1>3 DEF UnlockTable, Counted
  <2> QED
    BY <1>3, <2>1 DEF UnlockTable
<1>4. ASSUME NEW c \in Conns, CloseConn(c) PROVE ServerInv'
  <2>1. Counted' = Counted
    BY <1>4 DEF CloseConn, Counted
  <2> QED
    BY <1>4, <2>1 DEF CloseConn
<1> QED
  BY <1>1, <1>2, <1>3, <1>4 DEF CloserStep

\* The same for steps of a worker, with its client's part in them.
LEMMA WorkerPreserves ==
  ASSUME ServerInv, Alive, NEW c \in Conns,
         WorkerStep(c) \/ ReadCommand(c) \/ Rejected(c)
  PROVE  ServerInv'
<1> USE DEF ServerInv, TypeOK, Phases, OpenOnes, InHand, NoStatementCut,
            TableIsExact, Served, Awaited, AtMostOneMissed, Alive,
            WorkerGoesTo, MainSteps, CloserSteps, WorkerSteps
<1> USE NoneIsNoConn
<1>1. CASE ReadCommand(c)
  <2>1. Counted' = Counted
    BY <1>1 DEF ReadCommand, Counted
  <2> QED
    BY <1>1, <2>1 DEF ReadCommand
<1>2. CASE ReadFails(c)
  <2>1. Counted' = Counted
    BY <1>2 DEF ReadFails, Counted
  <2> QED
    BY <1>2, <2>1 DEF ReadFails
<1>3. CASE Rejected(c)
  <2>1. Counted' = Counted
    BY <1>3 DEF Rejected, Counted
  <2> QED
    BY <1>3, <2>1 DEF Rejected
<1>4. CASE Answer(c)
  <2>1. Counted' = Counted
    BY <1>4 DEF Answer, Counted
  <2> QED
    BY <1>4, <2>1 DEF Answer
<1>5. CASE CloseOwn(c)
  <2>1. Counted' = Counted
    BY <1>5 DEF CloseOwn, Counted
  <2> QED
    BY <1>5, <2>1 DEF CloseOwn
<1>6. CASE Forget(c)
  <2>1. Counted' = Counted
    BY <1>6 DEF Forget, Counted
  <2> QED
    BY <1>6, <2>1 DEF Forget
<1>7. CASE Done(c)
  <2>1. Counted' = Counted \ {c} /\ c \in Counted
    BY <1>7 DEF Done, Counted
  <2>2. IsFiniteSet(Counted) /\ IsFiniteSet(Counted')
    BY <2>1, CountedFinite, FS_RemoveElement
  <2>3. Cardinality(Counted') = Cardinality(Counted) - 1
    BY <2>1, <2>2, FS_RemoveElement
  <2>4. wg' = Cardinality(Counted') /\ wg' \in Nat
    BY <1>7, <2>2, <2>3, FS_CardinalityType DEF Done
  <2> QED
    BY <1>7, <2>4 DEF Done
<1> QED
  BY <1>1, <1>2, <1>3, <1>4, <1>5, <1>6, <1>7 DEF WorkerStep

\* The same for the world outside.
LEMMA OutsidePreserves ==
  ASSUME ServerInv,
         (\E c \in Conns : ClientConnects(c) \/ ClientLeaves(c)) \/ Signal
  PROVE  ServerInv'
<1> USE DEF ServerInv, TypeOK, Phases, OpenOnes, InHand, NoStatementCut,
            TableIsExact, Served, Awaited, AtMostOneMissed, Alive,
            MainSteps, CloserSteps, WorkerSteps
<1>1. ASSUME NEW c \in Conns, ClientConnects(c) PROVE ServerInv'
  <2>1. Counted' = Counted
    BY <1>1 DEF ClientConnects, Counted
  <2> QED
    BY <1>1, <2>1 DEF ClientConnects
<1>2. ASSUME NEW c \in Conns, ClientLeaves(c) PROVE ServerInv'
  <2>1. Counted' = Counted
    BY <1>2 DEF ClientLeaves, Counted
  <2> QED
    BY <1>2, <2>1 DEF ClientLeaves
<1>3. CASE Signal
  <2>1. Counted' = Counted
    BY <1>3 DEF Signal, Counted
  <2> QED
    BY <1>3, <2>1 DEF Signal
<1> QED
  BY <1>1, <1>2, <1>3

LEMMA ServerInductive == ServerInv /\ [Next]_vars => ServerInv'
<1> SUFFICES ASSUME ServerInv, [Next]_vars PROVE ServerInv'
  OBVIOUS
<1>1. CASE UNCHANGED vars
  BY <1>1 DEF vars, ServerInv, TypeOK, Phases, OpenOnes, InHand, Counted,
     NoStatementCut, TableIsExact, Served, Awaited, AtMostOneMissed
<1>2. CASE Next
  BY <1>1, <1>2, MainPreserves, CloserPreserves, WorkerPreserves,
     OutsidePreserves DEF Next, Stopped
<1> QED
  BY <1>1, <1>2

\* The process never ends under a worker, whatever the number of connections
\* and wherever the signal arrives.
THEOREM ExitIsClean == Spec => []NoStatementCut
<1>1. ServerInv => NoStatementCut
  BY DEF ServerInv
<1> QED
  BY <1>1, ServerInitial, ServerInductive, PTL DEF Spec, Safety

\* The table of active connections is exact at every moment.
THEOREM TableCorrect == Spec => []TableIsExact
<1>1. ServerInv => TableIsExact
  BY DEF ServerInv
<1> QED
  BY <1>1, ServerInitial, ServerInductive, PTL DEF Spec, Safety

\* Of any number of connections at most one survives the closer.
THEOREM OneMissedAtMost == Spec => []AtMostOneMissed
<1>1. ServerInv => AtMostOneMissed
  BY DEF ServerInv
<1> QED
  BY <1>1, ServerInitial, ServerInductive, PTL DEF Spec, Safety
\* The types of the server's variables: in particular wg is never taken below
\* zero, at which sync.WaitGroup panics.
THEOREM ServerTypes == Spec => []TypeOK
<1>1. ServerInv => TypeOK
  BY DEF ServerInv
<1> QED
  BY <1>1, ServerInitial, ServerInductive, PTL DEF Spec, Safety
=============================================================================
