------------------------------ MODULE NodeLife -------------------------------
(***************************************************************************)
(* The program from main to its end, over and over (src/src/main.cpp):     *)
(* Node::start, run and stop (src/src/node.cpp), the accept loop of the    *)
(* listener (src/src/transport/tcp_listener.cpp) and, from KeyFile, the    *)
(* identity of the node.                                                   *)
(*                                                                         *)
(* The main thread runs start and the event loop.  stop is called by the   *)
(* thread `killer', when there is a --duration, beside the event loop, and *)
(* by the signal handler, which interrupts the main thread: while it runs, *)
(* main does not.  conns_mutex_ is not recursive, nor are the mutexes of   *)
(* the libraries, as that of the console sink under every line that is     *)
(* logged.  running_ and the acceptor are used by both threads without a   *)
(* lock, so their accesses are separate steps.  What else the handlers do  *)
(* is in the other modules.                                                *)
(***************************************************************************)
EXTENDS KeyFile

CONSTANT Conns   \* the connections of a run of the program

Stoppers == {"killer", "signal"}

VARIABLES
  pc,        \* where the main thread is, from the identity on
  task,      \* what it takes conns_mutex_ for, and where it goes from there
  mutex,     \* who holds conns_mutex_
  running,   \* running_ of the listener
  acceptor,  \* acceptor_: "none", "open" or "closed"
  accept,    \* the accept operation: "none", "waiting", "done" or "failed"
  conns,     \* connections_
  open,      \* the connections whose socket is open
  fresh,     \* the connections that are not used yet
  stopping,  \* where each call of stop is
  to_close,  \* its to_close
  stopped,   \* whether io_ is stopped
  late       \* history: the connections accepted when running_ was reset

mainvars == <<pc, task>>
listener == <<running, acceptor, accept, late>>
lists == <<conns, open, fresh>>
stopvars == <<stopping, to_close, stopped>>
lifevars == <<mainvars, mutex, listener, lists, stopvars>>
nodeVars == <<keyvars, lifevars>>

NoTask == [for |-> "nothing", conn |-> {}, then |-> "none"]

LifeInit ==
  /\ pc = "none" /\ task = NoTask
  /\ mutex = "free"
  /\ running = FALSE /\ acceptor = "none" /\ accept = "none" /\ late = {}
  /\ conns = {} /\ open = {} /\ fresh = Conns
  /\ stopping = [s \in Stoppers |-> "no"]
  /\ to_close = [s \in Stoppers |-> {}]
  /\ stopped = FALSE

NodeInit == KeyInit /\ LifeInit

\* The signal handler does not run: main does.
MainRuns == stopping["signal"] \in {"no", "done"}

-----------------------------------------------------------------------------

\* The program starts, and Node::start loads or generates the identity.
Identity ==
  /\ MainRuns
  /\ Boot \/ KeyNext
  /\ pc' = IF at' = "node" THEN "listen" ELSE "none"
  /\ UNCHANGED <<task, mutex, listener, lists, stopvars>>

\* TcpListener::create and start, with the first accept.
Listen ==
  /\ MainRuns
  /\ pc = "listen"
  /\ running' = TRUE
  /\ acceptor' = "open"
  /\ accept' = "waiting"
  /\ pc' = "bootstrap"
  /\ UNCHANGED <<keyvars, task, mutex, late, lists, stopvars>>

\* The main thread goes for conns_mutex_.
Enter(for, c, then) ==
  /\ task' = [for |-> for, conn |-> c, then |-> then]
  /\ pc' = "lock"
  /\ UNCHANGED <<keyvars, mutex, running, acceptor, stopvars>>

\* connect_to_peer with a bootstrap peer, or a handler that connects to a
\* peer, which it does to the end when io_ is stopped meanwhile.
Connect(c) ==
  /\ MainRuns
  /\ pc \in {"bootstrap", "loop"}
  /\ c \in fresh
  /\ fresh' = fresh \ {c}
  /\ open' = open \cup {c}
  /\ Enter("register", {c}, pc)
  /\ UNCHANGED <<accept, late, conns>>

\* The rest of start is done, killer is created if there is a --duration, and
\* io_.run begins.
Run ==
  /\ MainRuns
  /\ pc = "bootstrap"
  /\ pc' = "loop"
  /\ \E duration \in BOOLEAN :
       stopping' = [stopping EXCEPT !["killer"] = IF duration THEN "sleep" ELSE @]
  /\ UNCHANGED <<keyvars, task, mutex, listener, lists, to_close, stopped>>

\* A peer connects to the acceptor.
PeerConnects ==
  /\ accept = "waiting"
  /\ accept' = "done"
  /\ UNCHANGED <<keyvars, mainvars, mutex, running, acceptor, late, lists, stopvars>>

\* The accept fails, as when the process has no file descriptor left.
AcceptError ==
  /\ accept = "waiting"
  /\ accept' = "failed"
  /\ UNCHANGED <<keyvars, mainvars, mutex, running, acceptor, late, lists, stopvars>>

\* The handler of an accept that succeeded, and on_accept.
Accepted(c) ==
  /\ MainRuns
  /\ pc = "loop" /\ ~stopped
  /\ accept = "done"
  /\ accept' = "none"
  /\ c \in fresh
  /\ fresh' = fresh \ {c}
  /\ open' = open \cup {c}
  /\ late' = IF running THEN late ELSE late \cup {c}
  /\ Enter("register", {c}, "check")
  /\ UNCHANGED conns

\* The handler of one that was aborted or failed: no other accept follows.
AcceptFails ==
  /\ MainRuns
  /\ pc = "loop" /\ ~stopped
  /\ accept = "failed"
  /\ accept' = "none"
  /\ UNCHANGED <<keyvars, mainvars, mutex, running, acceptor, late, lists, stopvars>>

\* Mutant: do_accept does not look at running_.
CheckRunningNot ==
  /\ MainRuns
  /\ pc = "check"
  /\ pc' = "accept"
  /\ UNCHANGED <<keyvars, task, mutex, listener, lists, stopvars>>

\* do_accept: the test of running_,
CheckRunning ==
  /\ MainRuns
  /\ pc = "check"
  /\ pc' = IF running THEN "accept" ELSE "loop"
  /\ UNCHANGED <<keyvars, task, mutex, listener, lists, stopvars>>

\* and async_accept, which fails when the acceptor is closed.
AsyncAccept ==
  /\ MainRuns
  /\ pc = "accept"
  /\ accept' = IF acceptor = "open" THEN "waiting" ELSE "failed"
  /\ pc' = "loop"
  /\ UNCHANGED <<keyvars, task, mutex, running, acceptor, late, lists, stopvars>>

\* A handler ends a connection: close and on_disconnect.
Disconnect(c) ==
  /\ MainRuns
  /\ pc = "loop" /\ ~stopped
  /\ c \in open
  /\ open' = open \ {c}
  /\ Enter("erase", {c}, "loop")
  /\ UNCHANGED <<accept, late, conns, fresh>>

\* A handler looks for a connection: get_connection_to.
LookUp ==
  /\ MainRuns
  /\ pc = "loop" /\ ~stopped
  /\ Enter("look", {}, "loop")
  /\ UNCHANGED <<accept, late, lists>>

Lock ==
  /\ MainRuns
  /\ pc = "lock"
  /\ mutex = "free"
  /\ mutex' = "main"
  /\ pc' = "unlock"
  /\ UNCHANGED <<keyvars, task, listener, lists, stopvars>>

Unlock ==
  /\ MainRuns
  /\ pc = "unlock"
  /\ conns' = IF task.for = "erase" THEN conns \ task.conn ELSE conns \cup task.conn
  /\ mutex' = "free"
  /\ pc' = task.then
  /\ task' = NoTask
  /\ UNCHANGED <<keyvars, listener, open, fresh, stopvars>>

\* io_.run returns: io_ is stopped, or there is nothing left to wait for.
RunReturns ==
  /\ MainRuns
  /\ pc = "loop"
  /\ stopped \/ (acceptor = "closed" /\ accept = "none" /\ open = {})
  /\ pc' = "join"
  /\ UNCHANGED <<keyvars, task, mutex, listener, lists, stopvars>>

\* What a process leaves behind are its files.
Gone ==
  /\ pc' = "none" /\ task' = NoTask
  /\ mutex' = "free"
  /\ running' = FALSE /\ acceptor' = "none" /\ accept' = "none" /\ late' = {}
  /\ conns' = {} /\ open' = {} /\ fresh' = Conns
  /\ stopping' = [s \in Stoppers |-> "no"]
  /\ to_close' = [s \in Stoppers |-> {}]
  /\ stopped' = FALSE

\* killer.join, if there is a killer, and main returns.
End ==
  /\ MainRuns
  /\ pc = "join"
  /\ stopping["killer"] \in {"no", "done"}
  /\ Die
  /\ Gone

\* The process is killed, an exception ends main (the port may be in use), or
\* a signal comes before the identity, when stop has no keypair_ to log.
Crash == Die /\ Gone

-----------------------------------------------------------------------------

\* The duration is over.
DurationExpires ==
  /\ stopping["killer"] = "sleep"
  /\ stopping' = [stopping EXCEPT !["killer"] = "begin"]
  /\ UNCHANGED <<keyvars, mainvars, mutex, listener, lists, to_close, stopped>>

\* signal_handler, at any point of the main thread.  It logs a line, for which
\* it waits in vain if the main thread was itself logging one and holds
\* the mutex of the sink.
Signal ==
  /\ stopping["signal"] = "no"
  /\ at = "node"
  /\ \E where \in {"begin", "log"} :
       stopping' = [stopping EXCEPT !["signal"] = where]
  /\ UNCHANGED <<keyvars, mainvars, mutex, listener, lists, to_close, stopped>>

\* Node::stop logs a line, and TcpListener::stop resets running_
StopRunning(s) ==
  /\ stopping[s] = "begin"
  /\ stopping["signal"] # "log"
  /\ running' = FALSE
  /\ stopping' = [stopping EXCEPT ![s] = "close listener"]
  /\ UNCHANGED <<keyvars, mainvars, mutex, acceptor, accept, late, lists,
                 to_close, stopped>>

\* and closes the acceptor: an accept that waits is aborted, one that is done
\* keeps its connection.
StopAcceptor(s) ==
  /\ stopping[s] = "close listener"
  /\ acceptor' = IF acceptor = "open" THEN "closed" ELSE acceptor
  /\ accept' = IF accept = "waiting" THEN "failed" ELSE accept
  /\ stopping' = [stopping EXCEPT ![s] = "lock"]
  /\ UNCHANGED <<keyvars, mainvars, mutex, running, late, lists, to_close, stopped>>

\* The list of connections is taken under the mutex.
StopLocks(s) ==
  /\ stopping[s] = "lock"
  /\ mutex = "free"
  /\ mutex' = s
  /\ stopping' = [stopping EXCEPT ![s] = "take"]
  /\ UNCHANGED <<keyvars, mainvars, listener, lists, to_close, stopped>>

\* Mutant: the mutex is held while the connections are closed.
StopTakesLocked(s) ==
  /\ stopping[s] = "take"
  /\ to_close' = [to_close EXCEPT ![s] = conns]
  /\ conns' = {}
  /\ stopping' = [stopping EXCEPT ![s] = "close"]
  /\ UNCHANGED <<keyvars, mainvars, mutex, listener, open, fresh, stopped>>

StopTakes(s) ==
  /\ stopping[s] = "take"
  /\ to_close' = [to_close EXCEPT ![s] = conns]
  /\ conns' = {}
  /\ mutex' = "free"
  /\ stopping' = [stopping EXCEPT ![s] = "close"]
  /\ UNCHANGED <<keyvars, mainvars, listener, open, fresh, stopped>>

\* Each connection is closed: on_disconnect, unless it was closed before.
StopCloses(s, c) ==
  /\ stopping[s] = "close"
  /\ c \in to_close[s]
  /\ to_close' = [to_close EXCEPT ![s] = @ \ {c}]
  /\ open' = open \ {c}
  /\ stopping' = [stopping EXCEPT ![s] = IF c \in open THEN "erase" ELSE "close"]
  /\ UNCHANGED <<keyvars, mainvars, mutex, listener, conns, fresh, stopped>>

\* on_disconnect erases from a list that no longer has the connection.
StopErases(s) ==
  /\ stopping[s] = "erase"
  /\ mutex = "free"
  /\ mutex' = s
  /\ stopping' = [stopping EXCEPT ![s] = "erased"]
  /\ UNCHANGED <<keyvars, mainvars, listener, lists, to_close, stopped>>

StopErased(s) ==
  /\ stopping[s] = "erased"
  /\ mutex' = "free"
  /\ stopping' = [stopping EXCEPT ![s] = "close"]
  /\ UNCHANGED <<keyvars, mainvars, listener, lists, to_close, stopped>>

\* io_.stop.
StopLoop(s) ==
  /\ stopping[s] = "close"
  /\ to_close[s] = {}
  /\ stopped' = TRUE
  /\ stopping' = [stopping EXCEPT ![s] = "done"]
  /\ UNCHANGED <<keyvars, mainvars, mutex, listener, lists, to_close>>

Main ==
  \/ Identity
  \/ Listen
  \/ \E c \in Conns : Connect(c) \/ Accepted(c) \/ Disconnect(c)
  \/ Run
  \/ AcceptFails
  \/ CheckRunning
  \/ AsyncAccept
  \/ LookUp
  \/ Lock
  \/ Unlock
  \/ RunReturns
  \/ End

Stop(s) ==
  \/ StopRunning(s)
  \/ StopAcceptor(s)
  \/ StopLocks(s)
  \/ StopTakes(s)
  \/ \E c \in Conns : StopCloses(s, c)
  \/ StopErases(s)
  \/ StopErased(s)
  \/ StopLoop(s)

NodeNext ==
  \/ Main
  \/ PeerConnects
  \/ AcceptError
  \/ DurationExpires
  \/ Signal
  \/ \E s \in Stoppers : Stop(s)
  \/ Crash

NodeSpec == NodeInit /\ [][NodeNext]_nodeVars

(***************************************************************************)
(* Both threads run, sleep_for ends, and a thread that waits for a mutex   *)
(* which is released again and again gets it.                              *)
(***************************************************************************)
NodeFairness ==
  /\ WF_nodeVars(Main)
  /\ WF_nodeVars(DurationExpires)
  /\ \A s \in Stoppers : SF_nodeVars(Stop(s))

NodeFairSpec == NodeSpec /\ NodeFairness

-----------------------------------------------------------------------------

\* The signal interrupted the main thread while it held a mutex, that of a
\* library or conns_mutex_, and the handler waits for it.
SelfDeadlock ==
  \/ stopping["signal"] = "log"
  \/ stopping["signal"] = "lock" /\ mutex = "main"

\* "Install signal handlers for graceful shutdown" (src/src/main.cpp:158): once
\* stop is called, from whichever thread, with or without a --duration and
\* whatever the event loop is doing, the program ends; the exceptions are a
\* signal that finds the main thread inside conns_mutex_ and one that finds it
\* inside a mutex of a library that the handler needs too, as that of the
\* console sink: after either nothing but a kill ends the program.
ShutdownCompletes ==
  (\E s \in Stoppers : stopping[s] \notin {"no", "sleep"})
    ~> (at = "off" \/ SelfDeadlock)

\* Closing the listener beside the running accept loop lets at most one more
\* connection in, the one that was accepted already.
AtMostOneLate == \A c, d \in late : c = d

=============================================================================
