------------------------------- MODULE Server -------------------------------
(***************************************************************************)
(* The server loop of mysql/main.go: the main goroutine accepts client     *)
(* connections, one worker goroutine serves each, and on a signal a third  *)
(* kind of goroutine, the closer, closes what there is to close so that    *)
(* main, which waits for the workers, can leave the process.               *)
(*                                                                         *)
(* The mutex mu guards the table activeConns.  Sections of a single map    *)
(* operation are atomic; the closer holds mu over its whole loop.          *)
(***************************************************************************)
EXTENDS Naturals, FiniteSets

CONSTANTS
  Conns,  \* the connections clients may open, each at most once
  None    \* no connection

ASSUME NoneIsNoConn == None \notin Conns
ASSUME ConnsAreFinite == IsFiniteSet(Conns)

VARIABLES
  running,      \* ctx is not done: no signal yet
  listening,    \* ln is open
  main,         \* the main goroutine: where it is, with which connection
  closer,       \* the closer: where it is, and what it still has to close
  mu,           \* "free", or "closer" while the closer holds it
  activeConns,  \* the table of active connections
  wg,           \* the counter of the wait group
  net,          \* connection -> its TCP state
  worker        \* connection -> where its goroutine is

vars == <<running, listening, main, closer, mu, activeConns, wg, net, worker>>

MainSteps == {"accept", "register", "add", "spawn", "wait", "exited"}
CloserSteps == {"asleep", "lock", "close", "done"}
WorkerSteps ==
  {"none", "reading", "executing", "closing", "deleting", "finishing", "ended"}

TypeOK ==
  /\ running \in BOOLEAN /\ listening \in BOOLEAN
  /\ main \in [at : MainSteps, conn : {None} \cup Conns]
  /\ main.at \in {"register", "add", "spawn"} => main.conn \in Conns
  /\ closer \in [at : CloserSteps, todo : SUBSET Conns]
  /\ mu \in {"free", "closer"}
  /\ activeConns \subseteq Conns
  /\ wg \in Nat
  /\ net \in [Conns -> {"away", "queued", "open", "gone"}]
  /\ worker \in [Conns -> WorkerSteps]

Init ==
  /\ running = TRUE /\ listening = TRUE
  /\ main = [at |-> "accept", conn |-> None]
  /\ closer = [at |-> "asleep", todo |-> {}]
  /\ mu = "free"
  /\ activeConns = {}
  /\ wg = 0
  /\ net = [c \in Conns |-> "away"]
  /\ worker = [c \in Conns |-> "none"]

\* os.Exit ends every goroutine at once.
Alive == main.at # "exited"

----------------------------------------------------------------------------
(* Clients.  net[c] = "gone" means that the server's reads on c fail.      *)

ClientConnects(c) ==
  /\ Alive /\ listening
  /\ net[c] = "away"
  /\ net' = [net EXCEPT ![c] = "queued"]
  /\ UNCHANGED <<running, listening, main, closer, mu, activeConns, wg, worker>>

ClientLeaves(c) ==
  /\ Alive
  /\ net[c] \in {"queued", "open"}
  /\ net' = [net EXCEPT ![c] = "gone"]
  /\ UNCHANGED <<running, listening, main, closer, mu, activeConns, wg, worker>>

\* SIGINT or SIGTERM.
Signal ==
  /\ Alive /\ running
  /\ running' = FALSE
  /\ UNCHANGED <<listening, main, closer, mu, activeConns, wg, net, worker>>

----------------------------------------------------------------------------
(* The main goroutine.                                                     *)

MainGoesTo(step) == main' = [main EXCEPT !.at = step]

Accept(c) ==
  /\ main.at = "accept" /\ listening
  /\ net[c] = "queued"
  /\ net' = [net EXCEPT ![c] = "open"]
  /\ main' = [at |-> "register", conn |-> c]
  /\ UNCHANGED <<running, listening, closer, mu, activeConns, wg, worker>>

\* Accept fails for good once the listener is closed; by then ctx is done.
AcceptFails ==
  /\ main.at = "accept" /\ ~listening
  /\ ~running
  /\ MainGoesTo("wait")
  /\ UNCHANGED <<running, listening, closer, mu, activeConns, wg, net, worker>>

Register ==
  /\ main.at = "register" /\ mu = "free"
  /\ activeConns' = activeConns \cup {main.conn}
  /\ MainGoesTo("add")
  /\ UNCHANGED <<running, listening, closer, mu, wg, net, worker>>

\* Variant: the goroutine is started without wg.Add.
AddForgotten ==
  /\ main.at = "add"
  /\ MainGoesTo("spawn")
  /\ UNCHANGED <<running, listening, closer, mu, activeConns, wg, net, worker>>

Add ==
  /\ main.at = "add"
  /\ wg' = wg + 1
  /\ MainGoesTo("spawn")
  /\ UNCHANGED <<running, listening, closer, mu, activeConns, net, worker>>

Spawn ==
  /\ main.at = "spawn"
  /\ worker' = [worker EXCEPT ![main.conn] = "reading"]
  /\ main' = [at |-> "accept", conn |-> None]
  /\ UNCHANGED <<running, listening, closer, mu, activeConns, wg, net>>

\* Variant: os.Exit without wg.Wait.
ExitAtOnce ==
  /\ main.at = "wait"
  /\ MainGoesTo("exited")
  /\ UNCHANGED <<running, listening, closer, mu, activeConns, wg, net, worker>>

\* wg.Wait, os.Exit.
Exit ==
  /\ main.at = "wait" /\ wg = 0
  /\ MainGoesTo("exited")
  /\ UNCHANGED <<running, listening, closer, mu, activeConns, wg, net, worker>>

----------------------------------------------------------------------------
(* The closer.                                                             *)

\* Variant: the listener stays open.
CloseListenerNot ==
  /\ closer.at = "asleep" /\ ~running
  /\ closer' = [closer EXCEPT !.at = "lock"]
  /\ UNCHANGED <<running, listening, main, mu, activeConns, wg, net, worker>>

\* Connections still in the backlog are reset.
CloseListener ==
  /\ closer.at = "asleep" /\ ~running
  /\ listening' = FALSE
  /\ net' = [c \in Conns |-> IF net[c] = "queued" THEN "gone" ELSE net[c]]
  /\ closer' = [closer EXCEPT !.at = "lock"]
  /\ UNCHANGED <<running, main, mu, activeConns, wg, worker>>

LockTable ==
  /\ closer.at = "lock" /\ mu = "free"
  /\ mu' = "closer"
  /\ closer' = [at |-> "close", todo |-> activeConns]
  /\ UNCHANGED <<running, listening, main, activeConns, wg, net, worker>>

CloseConn(c) ==
  /\ closer.at = "close" /\ c \in closer.todo
  /\ net' = [net EXCEPT ![c] = "gone"]
  /\ closer' = [closer EXCEPT !.todo = @ \ {c}]
  /\ UNCHANGED <<running, listening, main, mu, activeConns, wg, worker>>

\* Variant: the closer returns with mu locked.
UnlockForgotten ==
  /\ closer.at = "close" /\ closer.todo = {}
  /\ closer' = [closer EXCEPT !.at = "done"]
  /\ UNCHANGED <<running, listening, main, mu, activeConns, wg, net, worker>>

UnlockTable ==
  /\ closer.at = "close" /\ closer.todo = {}
  /\ mu' = "free"
  /\ closer' = [closer EXCEPT !.at = "done"]
  /\ UNCHANGED <<running, listening, main, activeConns, wg, net, worker>>

----------------------------------------------------------------------------
(* A worker: handleConn, then the deferred calls in reverse order.         *)

WorkerGoesTo(c, step) == worker' = [worker EXCEPT ![c] = step]

\* A command arrives (the handshake, too, is a message and an answer).
ReadCommand(c) ==
  /\ worker[c] = "reading" /\ net[c] = "open"
  /\ WorkerGoesTo(c, "executing")
  /\ UNCHANGED <<running, listening, main, closer, mu, activeConns, wg, net>>

\* The read fails, or the handshake or the password does.
ReadFails(c) ==
  /\ worker[c] = "reading" /\ net[c] = "gone"
  /\ WorkerGoesTo(c, "closing")
  /\ UNCHANGED <<running, listening, main, closer, mu, activeConns, wg, net>>

Rejected(c) ==
  /\ worker[c] = "reading" /\ net[c] = "open"
  /\ WorkerGoesTo(c, "closing")
  /\ UNCHANGED <<running, listening, main, closer, mu, activeConns, wg, net>>

\* The statement ends, at the latest when its context expires.
Answer(c) ==
  /\ worker[c] = "executing"
  /\ WorkerGoesTo(c, IF net[c] = "gone" THEN "closing" ELSE "reading")
  /\ UNCHANGED <<running, listening, main, closer, mu, activeConns, wg, net>>

CloseOwn(c) ==
  /\ worker[c] = "closing"
  /\ net' = [net EXCEPT ![c] = "gone"]
  /\ WorkerGoesTo(c, "deleting")
  /\ UNCHANGED <<running, listening, main, closer, mu, activeConns, wg>>

\* Variant: the entry is deleted before the connection is done with.
ForgetNothing(c) ==
  /\ worker[c] = "deleting" /\ mu = "free"
  /\ WorkerGoesTo(c, "finishing")
  /\ UNCHANGED <<running, listening, main, closer, mu, activeConns, wg, net>>

Forget(c) ==
  /\ worker[c] = "deleting" /\ mu = "free"
  /\ activeConns' = activeConns \ {c}
  /\ WorkerGoesTo(c, "finishing")
  /\ UNCHANGED <<running, listening, main, closer, mu, wg, net>>

\* Variant: a worker that returns without wg.Done.
DoneForgotten(c) ==
  /\ worker[c] = "finishing"
  /\ WorkerGoesTo(c, "ended")
  /\ UNCHANGED <<running, listening, main, closer, mu, activeConns, wg, net>>

Done(c) ==
  /\ worker[c] = "finishing"
  /\ wg' = wg - 1
  /\ WorkerGoesTo(c, "ended")
  /\ UNCHANGED <<running, listening, main, closer, mu, activeConns, net>>

----------------------------------------------------------------------------
MainStep ==
  \/ \E c \in Conns : Accept(c)
  \/ AcceptFails \/ Register \/ Add \/ Spawn \/ Exit

CloserStep ==
  \/ CloseListener \/ LockTable \/ UnlockTable
  \/ \E c \in Conns : CloseConn(c)

\* What a worker does without its client.
WorkerStep(c) ==
  ReadFails(c) \/ Answer(c) \/ CloseOwn(c) \/ Forget(c) \/ Done(c)

Stopped == ~Alive /\ UNCHANGED vars

Next ==
  \/ /\ Alive
     /\ \/ MainStep \/ CloserStep
        \/ \E c \in Conns : WorkerStep(c) \/ ReadCommand(c) \/ Rejected(c)
  \/ \E c \in Conns : ClientConnects(c) \/ ClientLeaves(c)
  \/ Signal
  \/ Stopped

\* The runtime schedules every goroutine that can go on.  mu is contended, but
\* only until the closer is done; nothing is assumed of clients.
Fairness ==
  /\ WF_vars(Alive /\ MainStep)
  /\ WF_vars(Alive /\ CloserStep)
  /\ \A c \in Conns : WF_vars(Alive /\ WorkerStep(c))

Safety == Init /\ [][Next]_vars
Spec == Safety /\ Fairness
----------------------------------------------------------------------------
(* Properties.                                                             *)

\* The process does not end under a worker: a statement that is executing when
\* the signal arrives is finished first (wg.Add comes before the goroutine
\* starts, wg.Done is its last act).
NoStatementCut ==
  main.at = "exited" => \A c \in Conns : worker[c] \in {"none", "ended"}

\* activeConns lists the connections that have a worker, and the one about to
\* get one, and nothing else: what the closer needs to find, and no leak
\* (main.go: "Track active client connections so we can close them on
\* shutdown").
Served == {c \in Conns : worker[c] \in {"reading", "executing", "closing", "deleting"}}
Awaited == IF main.at \in {"add", "spawn"} THEN {main.conn} ELSE {}

TableIsExact == activeConns = Served \cup Awaited

\* The listener is closed before the table is walked, so at most one connection,
\* the one Accept had just returned, can be open after the closer is done.
AtMostOneMissed ==
  closer.at = "done" =>
    \A c, d \in Conns : net[c] = "open" /\ net[d] = "open" => c = d

\* A connection the closer does not see is the only thing that can keep the
\* process from ending after a signal: mu, the wait group and the accept loop
\* do not.
Missed == closer.at = "done" /\ \E c \in activeConns : net[c] = "open"

ShutdownUnlessMissed == ~running ~> (~Alive \/ Missed)

\* After a signal the process ends (main.go: "Close all active client
\* connections so HandleCommand unblocks", so that wg.Wait returns).
ShutdownTerminates == ~running ~> ~Alive

\* It does if every client leaves some day.
ShutdownIfClientsLeave ==
  (\A c \in Conns : WF_vars(ClientLeaves(c))) => ShutdownTerminates
=============================================================================
