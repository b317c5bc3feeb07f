----------------------------- MODULE TcpServer -----------------------------
(***************************************************************************)
(* A TcpServer from construction to destruction: its Acceptor, its pool of *)
(* EventLoopThreads, the map of its connections, and who holds a           *)
(* TcpConnectionPtr when.                                                  *)
(*                                                                         *)
(* Loop 0 is the base loop, run by the thread that constructs and destroys *)
(* the server (as main() of muduo_server.cpp does, the EventLoop before    *)
(* and after the TcpServer); loops 1 .. numThreads_ are the pool's.  A     *)
(* loop is the EventLoop module's without its wakeups: a loop that has     *)
(* functors pending, or has been told to quit, takes its next turn.        *)
(***************************************************************************)
EXTENDS Integers, Sequences, FiniteSets, Functions

CONSTANTS
  MaxThreads,   \* bound: what setThreadNum() is called with, at most
  MaxConns,     \* bound: connections accepted
  MaxFds,       \* descriptors the process may have for connections
  MaxId,        \* where nextConnId_ wraps around
  Callers,      \* the threads that run no loop and call send() and shutdown()
  MaxSends      \* bound: calls of send() on such a thread

ASSUME ConstantsAssumption ==
  /\ {MaxThreads, MaxSends} \subseteq Nat
  /\ {MaxConns, MaxFds, MaxId} \subseteq Nat \ {0}

BaseLoop == 0
Loops == 0 .. MaxThreads
IoLoops == 1 .. MaxThreads
Conns == 1 .. MaxConns      \* the TcpConnection objects, in order of creation
NoConn == 0
Names == 1 .. MaxId         \* a name is the server's, but for the number in it
Starters == {"main", "other"}

VARIABLES
  main,           \* the base thread outside loop()
  starter,        \* where each caller of start() is
  started_, garbage,   \* started_ and, for the properties, what it was to begin with
  numThreads_, loops_, next_,      \* of the EventLoopThreadPool
  listening_,     \* acceptChannel_ is on the base loop's epoll tree
  waiting,        \* clients whose connection the kernel has not handed over yet
  nextConnId_,
  connections_,   \* a function from names to connections
  phase,          \* of each loop: "none", "poll", "run" or "stopped"
  quit_,
  pendingFunctors_,
  functors,       \* the batch being run
  done,           \* how many of the batch have run
  closing,        \* the connection in handleClose, before closeCallback_
  caller,         \* the call each of Callers is in, past its test of state_
  sends,          \* calls of send() so far
  ioLoop,         \* of each connection: the loop it is on
  name_, state_,  \*                     its name and state
  downs,          \*                     how often its user was told that it is down
  inPoller,       \* the connections whose Channel the poller has in channels_
  watched,        \* and those of them whose Channel asks for events
  destroyed,      \* history: those whose connectDestroyed has run
  revived,        \* history: those whose Channel a send() put back after that
  overwrote,      \* history: those of which a shutdown() has undone kDisconnected
  lost,           \* history: those whose connectDestroyed went down with its loop
  dropped         \* history: those whose place in connections_ another one's took

startVars == <<starter, started_, garbage>>
poolVars == <<numThreads_, loops_, next_>>
mapVars == <<nextConnId_, connections_>>
queueVars == <<phase, quit_, pendingFunctors_, functors, done>>
callVars == <<caller, sends>>
statusVars == <<state_, downs, inPoller, watched, destroyed, revived, overwrote>>
connVars == <<ioLoop, name_, statusVars>>
endVars == <<lost, dropped>>
vars == <<main, startVars, poolVars, listening_, waiting, mapVars, queueVars,
          closing, callVars, connVars, endVars>>

(***************************************************************************)
(* main:   setup       constructed, loop() not entered                     *)
(*         looping     in loop(), or back from it                          *)
(*         destroying  in the body of ~TcpServer                           *)
(*         joining     in the destructor of threadPool_                    *)
(*         joined      threadPool_ is gone, acceptor_ is not               *)
(*         destroyed   no TcpServer any more                               *)
(*         ended       the base EventLoop destroyed as well                *)
(* phase:  none        loop() not entered                                  *)
(*         poll        in epoll_wait or handling what it reported          *)
(*         run         in doPendingFunctors                                *)
(*         stopped     loop() has returned; of a pool's loop also that the *)
(*                     EventLoop is destroyed                              *)
(***************************************************************************)
MainPoints == {"setup", "looping", "destroying", "joining", "joined", "destroyed",
               "ended"}
Phases == {"none", "poll", "run", "stopped"}
States == {"none", "kConnecting", "kConnected", "kDisconnecting", "kDisconnected"}
Ops == {"listen", "connectEstablished", "removeConnectionInLoop", "connectDestroyed",
        "sendInLoop"}

Functor(op, c) == [op |-> op, conn |-> c]

\* What a thread is in the middle of.
Call(what, c) == [what |-> what, conn |-> c]
Idle == Call("idle", NoConn)

Created == {c \in Conns : state_[c] # "none"}

\* The functors queued on loop l or being run by it.
Queued(l) == Range(pendingFunctors_[l]) \union Range(functors[l])

\* A TcpConnection lives while connections_, a functor, a handler or the caller of
\* one of its functions holds it; sendInLoop is bound to a raw `this`.  What has run
\* is held until its batch is over.
Held(c) ==
  \/ c \in Range(connections_)
  \/ \E l \in Loops :
       closing[l] = c \/ \E f \in Queued(l) : f.conn = c /\ f.op # "sendInLoop"
  \/ \E p \in Callers : caller[p].conn = c
Alive == {c \in Created : Held(c)}

Init ==
  /\ main = "setup"
  /\ starter = [t \in Starters |-> "idle"]
  /\ started_ \in {0, 1}     \* not initialised: what the memory held
  /\ garbage = started_
  /\ numThreads_ = 0
  /\ loops_ = <<>>
  /\ next_ = 0
  /\ listening_ = FALSE
  /\ waiting = 0
  /\ nextConnId_ = 1
  /\ connections_ = <<>>
  /\ phase = [l \in Loops |-> "none"]
  /\ quit_ = [l \in Loops |-> FALSE]
  /\ pendingFunctors_ = [l \in Loops |-> <<>>]
  /\ functors = [l \in Loops |-> <<>>]
  /\ done = [l \in Loops |-> 0]
  /\ closing = [l \in Loops |-> NoConn]
  /\ caller = [p \in Callers |-> Idle]
  /\ sends = 0
  /\ ioLoop = [c \in Conns |-> BaseLoop]
  /\ name_ = [c \in Conns |-> 0]
  /\ state_ = [c \in Conns |-> "none"]
  /\ downs = [c \in Conns |-> 0]
  /\ inPoller = {} /\ watched = {}
  /\ destroyed = {} /\ revived = {} /\ overwrote = {}
  /\ lost = {} /\ dropped = {}
------------------------------------------------------------------------------
(***************************************************************************)
(* What a step does to a queue, a connection or the map.                   *)
(***************************************************************************)

\* queueInLoop.
Queue(l, f) ==
  pendingFunctors_' = [pendingFunctors_ EXCEPT ![l] = Append(@, f)]

Without(n) == [m \in DOMAIN connections_ \ {n} |-> connections_[m]]

\* Name n leaves connections_, or goes to connection c: who else had it is dropped.
Displace(n, c) ==
  dropped' = dropped \union
    ({connections_[m] : m \in DOMAIN connections_ \intersect {n}} \ {c})

\* connectEstablished.
ConnectEstablished(c) ==
  /\ state_' = [state_ EXCEPT ![c] = "kConnected"]
  /\ inPoller' = inPoller \union {c}
  /\ watched' = watched \union {c}
  /\ UNCHANGED <<downs, destroyed, revived, overwrote>>

\* Mutant: the user is told whatever the state was.
DestroyAndTell(c) ==
  /\ state_' = [state_ EXCEPT ![c] = "kDisconnected"]
  /\ downs' = [downs EXCEPT ![c] = @ + 1]
  /\ inPoller' = inPoller \ {c} /\ watched' = watched \ {c}
  /\ destroyed' = destroyed \union {c}
  /\ UNCHANGED <<revived, overwrote>>

\* Mutant: only a connection that was up is taken out of the poller.
RemoveIfConnected(c) ==
  /\ IF state_[c] = "kConnected"
       THEN /\ state_' = [state_ EXCEPT ![c] = "kDisconnected"]
            /\ downs' = [downs EXCEPT ![c] = @ + 1]
            /\ inPoller' = inPoller \ {c} /\ watched' = watched \ {c}
       ELSE UNCHANGED <<state_, downs, inPoller, watched>>
  /\ destroyed' = destroyed \union {c}
  /\ UNCHANGED <<revived, overwrote>>

\* connectDestroyed: the user is told if the connection was up, and not if a
\* shutdown() was under way.  A shutdown() that stores its state between the test
\* and the store of this one leaves no trace.
ConnectDestroyed(c) ==
  /\ IF state_[c] = "kConnected"
       THEN /\ state_' = [state_ EXCEPT ![c] = "kDisconnected"]
            /\ downs' = [downs EXCEPT ![c] = @ + 1]
       ELSE UNCHANGED <<state_, downs>>
  /\ inPoller' = inPoller \ {c} /\ watched' = watched \ {c}
  /\ destroyed' = destroyed \union {c}
  /\ UNCHANGED <<revived, overwrote>>

\* Mutant: nobody looks whether the connection is down.
SendInLoopWhenDown(c) ==
  /\ \/ UNCHANGED <<inPoller, watched, revived>>
     \/ /\ inPoller' = inPoller \union {c} /\ watched' = watched \union {c}
        /\ revived' = revived \union ({c} \intersect destroyed)
  /\ UNCHANGED <<state_, downs, destroyed, overwrote>>

\* sendInLoop: it gives up once the connection is down; otherwise, if something is
\* left to be written, it asks for EPOLLOUT, which registers a Channel that has been
\* disabled or removed.  Behind a pointer to a connection that has died this reads
\* what the memory held.
SendInLoop(c) ==
  /\ \/ UNCHANGED <<inPoller, watched, revived>>
     \/ /\ state_[c] # "kDisconnected"
        /\ inPoller' = inPoller \union {c} /\ watched' = watched \union {c}
        /\ revived' = revived \union ({c} \intersect destroyed)
  /\ UNCHANGED <<state_, downs, destroyed, overwrote>>

\* Mutant: the connection leaves connections_ and that is all.
ForgetConnection(c) ==
  /\ connections_' = Without(name_[c])
  /\ Displace(name_[c], c)
  /\ UNCHANGED pendingFunctors_

\* Mutant: the connection is not erased.
KeepConnection(c) ==
  /\ Queue(ioLoop[c], Functor("connectDestroyed", c))
  /\ UNCHANGED <<connections_, dropped>>

\* removeConnectionInLoop: whatever connections_ has under that name is erased.
RemoveConnectionInLoop(c) ==
  /\ connections_' = Without(name_[c])
  /\ Displace(name_[c], c)
  /\ Queue(ioLoop[c], Functor("connectDestroyed", c))
------------------------------------------------------------------------------
(***************************************************************************)
(* Starting.                                                               *)
(***************************************************************************)

SetThreadNum(n) ==
  /\ main = "setup" /\ \A t \in Starters : starter[t] = "idle"
  /\ numThreads_' = n
  /\ UNCHANGED <<main, startVars, loops_, next_, listening_, waiting, mapVars,
                 queueVars, closing, callVars, connVars, endVars>>

\* Mutant: every call starts the pool.
StartAgain(t) ==
  /\ starter[t] = "idle"
  /\ main = "setup" \/ (main = "looping" /\ t = "other")
  /\ started_' = started_ + 1
  /\ starter' = [starter EXCEPT ![t] = "won"]
  /\ UNCHANGED <<main, garbage, poolVars, listening_, waiting, mapVars, queueVars,
                 closing, callVars, connVars, endVars>>

\* start(), on the base thread before loop() or on another thread: the first
\* to find started_ at 0 goes on.
TestStarted(t) ==
  /\ starter[t] = "idle"
  /\ main = "setup" \/ (main = "looping" /\ t = "other")
  /\ started_' = started_ + 1
  /\ starter' = [starter EXCEPT ![t] = IF started_ = 0 THEN "won" ELSE "done"]
  /\ UNCHANGED <<main, garbage, poolVars, listening_, waiting, mapVars, queueVars,
                 closing, callVars, connVars, endVars>>

\* Acceptor::listen.
Listen == listening_' = TRUE

\* threadPool_->start() and runInLoop(Acceptor::listen).  Nobody looks at the
\* pool before listen() has run.  startLoop() of each thread has returned; that
\* its loop has entered loop() before the server is destroyed is assumed here,
\* and EventLoopThread shows what happens otherwise.
StartPool(t) ==
  /\ starter[t] = "won"
  /\ starter' = [starter EXCEPT ![t] = "done"]
  /\ loops_' = loops_ \o [i \in 1 .. numThreads_ |-> i]
  /\ phase' = [l \in Loops |-> IF l \in 1 .. numThreads_ THEN "poll" ELSE phase[l]]
  /\ IF t = "main"
       THEN Listen /\ UNCHANGED pendingFunctors_
       ELSE Queue(BaseLoop, Functor("listen", NoConn)) /\ UNCHANGED listening_
  /\ UNCHANGED <<main, started_, garbage, numThreads_, next_, waiting, mapVars, quit_,
                 functors, done, closing, callVars, connVars, endVars>>

\* The base thread calls loop().
EnterLoop ==
  /\ main = "setup"
  /\ starter["main"] # "won"
  /\ main' = "looping"
  /\ phase' = [phase EXCEPT ![BaseLoop] = "poll"]
  /\ UNCHANGED <<startVars, poolVars, listening_, waiting, mapVars, quit_,
                 pendingFunctors_, functors, done, closing, callVars, connVars, endVars>>

\* quit() of the base loop, on any thread.
QuitBaseLoop ==
  /\ phase[BaseLoop] \in {"poll", "run"}
  /\ quit_' = [quit_ EXCEPT ![BaseLoop] = TRUE]
  /\ UNCHANGED <<main, startVars, poolVars, listening_, waiting, mapVars, phase,
                 pendingFunctors_, functors, done, closing, callVars, connVars, endVars>>
------------------------------------------------------------------------------
(***************************************************************************)
(* Accepting, on the base loop.                                            *)
(***************************************************************************)

ClientArrives ==
  /\ listening_
  /\ waiting + Cardinality(Created) < MaxConns
  /\ waiting' = waiting + 1
  /\ UNCHANGED <<main, startVars, poolVars, listening_, mapVars, queueVars, closing,
                 callVars, connVars, endVars>>

\* A loop that handles events is not in the middle of another handler.
Dispatching(l) == phase[l] = "poll" /\ closing[l] = NoConn

\* The loop getNextLoop() returns.
NextLoop == IF loops_ = <<>> THEN BaseLoop ELSE loops_[next_ + 1]

\* Mutant: the turn passes back to the first loop one connection late.
AdvanceNextLate ==
  next_' = IF loops_ = <<>> THEN next_
           ELSE IF next_ >= Len(loops_) THEN 0 ELSE next_ + 1

\* Mutant: the turn passes back to the first loop one connection early.
AdvanceNextEarly ==
  next_' = IF loops_ = <<>> THEN next_
           ELSE IF next_ + 2 >= Len(loops_) THEN 0 ELSE next_ + 1

\* What getNextLoop() does to next_.
AdvanceNext ==
  next_' = IF loops_ = <<>> THEN next_
           ELSE IF next_ + 1 >= Len(loops_) THEN 0 ELSE next_ + 1

\* newConnection.
NewConnection ==
  LET c == Cardinality(Created) + 1
      l == NextLoop
  IN  /\ AdvanceNext
      /\ nextConnId_' = IF nextConnId_ = MaxId THEN 1 ELSE nextConnId_ + 1
      /\ connections_' = [n \in DOMAIN connections_ \union {nextConnId_} |->
                            IF n = nextConnId_ THEN c ELSE connections_[n]]
      /\ Displace(nextConnId_, c)
      /\ ioLoop' = [ioLoop EXCEPT ![c] = l]
      /\ name_' = [name_ EXCEPT ![c] = nextConnId_]
      /\ IF l = BaseLoop
           THEN ConnectEstablished(c) /\ UNCHANGED pendingFunctors_
           ELSE /\ state_' = [state_ EXCEPT ![c] = "kConnecting"]
                /\ Queue(l, Functor("connectEstablished", c))
                /\ UNCHANGED <<downs, inPoller, watched, destroyed, revived, overwrote>>

AcceptorReady ==
  /\ Dispatching(BaseLoop)
  /\ listening_
  /\ waiting > 0

\* Acceptor::handleRead.
AcceptConnection ==
  /\ AcceptorReady
  /\ Cardinality(Alive) < MaxFds
  /\ waiting' = waiting - 1
  /\ NewConnection
  /\ UNCHANGED <<main, startVars, numThreads_, loops_, listening_, phase, quit_, functors,
                 done, closing, callVars, lost>>

\* Mutant: a failed accept() takes the listening socket off the epoll tree.
StopAccepting ==
  /\ AcceptorReady
  /\ Cardinality(Alive) >= MaxFds
  /\ listening_' = FALSE
  /\ UNCHANGED <<main, startVars, poolVars, waiting, mapVars, queueVars, closing,
                 callVars, connVars, endVars>>

\* Acceptor::handleRead when accept() fails with EMFILE: it is logged, and the
\* listening socket, still readable, is reported again in the next turn.
AcceptFails ==
  /\ AcceptorReady
  /\ Cardinality(Alive) >= MaxFds
  /\ UNCHANGED vars
------------------------------------------------------------------------------
(***************************************************************************)
(* Connections going down.                                                 *)
(***************************************************************************)

\* shutdown() on the connection's own loop, which alone stores kDisconnected: no
\* other store comes between its test and its own.
Shutdown(c) ==
  /\ c \in Alive /\ state_[c] = "kConnected"
  /\ phase[ioLoop[c]] \in {"poll", "run"}
  /\ state_' = [state_ EXCEPT ![c] = "kDisconnecting"]
  /\ UNCHANGED <<main, startVars, poolVars, listening_, waiting, mapVars, queueVars,
                 closing, callVars, ioLoop, name_, downs, inPoller, watched, destroyed,
                 revived, overwrote, endVars>>

\* shutdown() on another thread: the test of state_ ...
BeginShutdown(p, c) ==
  /\ caller[p] = Idle
  /\ c \in Alive /\ state_[c] = "kConnected"
  /\ caller' = [caller EXCEPT ![p] = Call("shutdown", c)]
  /\ UNCHANGED <<main, startVars, poolVars, listening_, waiting, mapVars, queueVars,
                 closing, sends, connVars, endVars>>

\* ... and the store.  The shutdownInLoop it queues changes nothing here.
SetDisconnecting(p) ==
  LET c == caller[p].conn
  IN  /\ caller[p].what = "shutdown"
      /\ state_' = [state_ EXCEPT ![c] = "kDisconnecting"]
      /\ overwrote' = IF state_[c] = "kDisconnected" THEN overwrote \union {c}
                                                    ELSE overwrote
      /\ caller' = [caller EXCEPT ![p] = Idle]
      /\ UNCHANGED <<main, startVars, poolVars, listening_, waiting, mapVars, queueVars,
                     closing, sends, ioLoop, name_, downs, inPoller, watched, destroyed,
                     revived, endVars>>

\* send() on another thread: the test of state_ ...
BeginSend(p, c) ==
  /\ caller[p] = Idle
  /\ sends < MaxSends
  /\ c \in Alive /\ state_[c] = "kConnected"
  /\ caller' = [caller EXCEPT ![p] = Call("send", c)]
  /\ sends' = sends + 1
  /\ UNCHANGED <<main, startVars, poolVars, listening_, waiting, mapVars, queueVars,
                 closing, connVars, endVars>>

\* Whether loop l's EventLoop has been destroyed.
Gone(l) == IF l = BaseLoop THEN main = "ended" ELSE phase[l] = "stopped"

\* ... and the functor.  A loop that is gone is not there to be queued on; what the
\* call does to it is undefined, and here it does nothing.
QueueSend(p) ==
  LET c == caller[p].conn
  IN  /\ caller[p].what = "send"
      /\ IF Gone(ioLoop[c]) THEN UNCHANGED pendingFunctors_
                            ELSE Queue(ioLoop[c], Functor("sendInLoop", c))
      /\ caller' = [caller EXCEPT ![p] = Idle]
      /\ UNCHANGED <<main, startVars, poolVars, listening_, waiting, mapVars, phase, quit_,
                     functors, done, closing, sends, connVars, endVars>>

\* What the poller may report: the descriptor of a connection that has died is closed.
Reported(c) ==
  /\ c \in watched /\ c \in Alive
  /\ Dispatching(ioLoop[c])

\* Mutant: the Channel is not disabled.
CloseLeavesWatched(c) ==
  /\ Reported(c)
  /\ state_' = [state_ EXCEPT ![c] = "kDisconnected"]
  /\ downs' = [downs EXCEPT ![c] = @ + 1]
  /\ closing' = [closing EXCEPT ![ioLoop[c]] = c]
  /\ UNCHANGED <<main, startVars, poolVars, listening_, waiting, mapVars, queueVars,
                 callVars, ioLoop, name_, inPoller, watched, destroyed, revived,
                 overwrote, endVars>>

\* TcpConnection::handleClose up to the user's callback: disableAll leaves the
\* Channel in channels_, and nothing is reported of it any more.
HandleClose(c) ==
  /\ Reported(c)
  /\ state_' = [state_ EXCEPT ![c] = "kDisconnected"]
  /\ downs' = [downs EXCEPT ![c] = @ + 1]
  /\ watched' = watched \ {c}
  /\ closing' = [closing EXCEPT ![ioLoop[c]] = c]
  /\ UNCHANGED <<main, startVars, poolVars, listening_, waiting, mapVars, queueVars,
                 callVars, ioLoop, name_, inPoller, destroyed, revived, overwrote,
                 endVars>>

\* TcpConnection::handleWrite has drained the buffer: a Channel that was enabled
\* for writing after disableAll asks for nothing any more.
HandleWrite(c) ==
  /\ Reported(c) /\ downs[c] > 0
  /\ watched' = watched \ {c}
  /\ UNCHANGED <<main, startVars, poolVars, listening_, waiting, mapVars, queueVars,
                 closing, callVars, ioLoop, name_, state_, downs, inPoller, destroyed,
                 revived, overwrote, endVars>>

\* closeCallback_, which is TcpServer::removeConnection: runInLoop on the base
\* loop runs removeConnectionInLoop at once if this is the base loop.
CloseCallback(l) ==
  /\ closing[l] # NoConn
  /\ closing' = [closing EXCEPT ![l] = NoConn]
  /\ IF l = BaseLoop
       THEN RemoveConnectionInLoop(closing[l])
       ELSE /\ Queue(BaseLoop, Functor("removeConnectionInLoop", closing[l]))
            /\ UNCHANGED <<connections_, dropped>>
  /\ UNCHANGED <<main, startVars, poolVars, listening_, waiting, nextConnId_, phase, quit_,
                 functors, done, callVars, connVars, lost>>
------------------------------------------------------------------------------
(***************************************************************************)
(* The turns of a loop.  One with nothing to run and no quit() to see      *)
(* changes nothing and is left out.                                        *)
(***************************************************************************)

Swap(l) ==
  /\ Dispatching(l)
  /\ pendingFunctors_[l] # <<>> \/ quit_[l]
  /\ phase' = [phase EXCEPT ![l] = "run"]
  /\ functors' = [functors EXCEPT ![l] = pendingFunctors_[l]]
  /\ pendingFunctors_' = [pendingFunctors_ EXCEPT ![l] = <<>>]
  /\ UNCHANGED <<main, startVars, poolVars, listening_, waiting, mapVars, quit_, done,
                 closing, callVars, connVars, endVars>>

RunFunctor(l) ==
  /\ phase[l] = "run" /\ done[l] < Len(functors[l])
  /\ done' = [done EXCEPT ![l] = @ + 1]
  /\ LET f == functors[l][done[l] + 1]
     IN  \/ /\ f.op = "listen"
            /\ Listen
            /\ UNCHANGED <<connections_, dropped, pendingFunctors_, statusVars>>
         \/ /\ f.op = "connectEstablished"
            /\ ConnectEstablished(f.conn)
            /\ UNCHANGED <<connections_, dropped, pendingFunctors_, listening_>>
         \/ /\ f.op = "removeConnectionInLoop"
            /\ RemoveConnectionInLoop(f.conn)
            /\ UNCHANGED <<listening_, statusVars>>
         \/ /\ f.op = "connectDestroyed"
            /\ ConnectDestroyed(f.conn)
            /\ UNCHANGED <<connections_, dropped, pendingFunctors_, listening_>>
         \/ /\ f.op = "sendInLoop"
            /\ SendInLoop(f.conn)
            /\ UNCHANGED <<connections_, dropped, pendingFunctors_, listening_>>
  /\ UNCHANGED <<main, startVars, poolVars, waiting, nextConnId_, phase, quit_, functors,
                 closing, callVars, ioLoop, name_, lost>>

\* The connections whose connectDestroyed loop l has not come to.
Unreached(l) ==
  {f.conn : f \in {g \in Range(pendingFunctors_[l]) : g.op = "connectDestroyed"}}

\* The batch is done and lets go of what it held.
EndTurn(l) ==
  /\ phase[l] = "run" /\ done[l] = Len(functors[l])
  /\ functors' = [functors EXCEPT ![l] = <<>>]
  /\ done' = [done EXCEPT ![l] = 0]
  /\ phase' = [phase EXCEPT ![l] = IF quit_[l] THEN "stopped" ELSE "poll"]
  /\ IF quit_[l] /\ l # BaseLoop
       THEN /\ pendingFunctors_' = [pendingFunctors_ EXCEPT ![l] = <<>>]
            /\ lost' = lost \union Unreached(l)
       ELSE UNCHANGED <<pendingFunctors_, lost>>
  /\ UNCHANGED <<main, startVars, poolVars, listening_, waiting, mapVars, quit_, closing,
                 callVars, connVars, dropped>>
------------------------------------------------------------------------------
(***************************************************************************)
(* ~TcpServer, on the base thread after loop() has returned.               *)
(***************************************************************************)

BeginDestroy ==
  /\ main = "looping" /\ phase[BaseLoop] = "stopped"
  /\ \A t \in Starters : starter[t] # "won"
  /\ main' = "destroying"
  /\ UNCHANGED <<startVars, poolVars, listening_, waiting, mapVars, queueVars, closing,
                 callVars, connVars, endVars>>

\* One turn of the loop over connections_; the base thread may still run
\* connectDestroyed of its own connections at once.
DestroyConnection(n) ==
  /\ main = "destroying"
  /\ n \in DOMAIN connections_
  /\ connections_' = Without(n)
  /\ LET c == connections_[n]
     IN  IF ioLoop[c] = BaseLoop
           THEN ConnectDestroyed(c) /\ UNCHANGED pendingFunctors_
           ELSE /\ Queue(ioLoop[c], Functor("connectDestroyed", c))
                /\ UNCHANGED statusVars
  /\ UNCHANGED <<main, startVars, poolVars, listening_, waiting, nextConnId_, phase,
                 quit_, functors, done, closing, callVars, ioLoop, name_, endVars>>

\* The members are destroyed in the reverse order of their declaration:
\* connections_, then threadPool_, then acceptor_.
BeginJoin ==
  /\ main = "destroying"
  /\ connections_ = <<>>
  /\ main' = "joining"
  /\ UNCHANGED <<startVars, poolVars, listening_, waiting, mapVars, queueVars, closing,
                 callVars, connVars, endVars>>

\* Mutant: join() without quit().
JoinThread(i) ==
  /\ main = "joining"
  /\ i \in DOMAIN loops_ /\ ~quit_[loops_[i]]
  /\ UNCHANGED vars

\* ~EventLoopThread of the pool's i-th thread: quit(), and join() before the
\* next one's turn comes.
QuitThread(i) ==
  /\ main = "joining"
  /\ i \in DOMAIN loops_ /\ ~quit_[loops_[i]]
  /\ \A j \in 1 .. i - 1 : phase[loops_[j]] = "stopped"
  /\ quit_' = [quit_ EXCEPT ![loops_[i]] = TRUE]
  /\ UNCHANGED <<main, startVars, poolVars, listening_, waiting, mapVars, phase,
                 pendingFunctors_, functors, done, closing, callVars, connVars, endVars>>

\* Mutant: nobody waits for the threads.
EndWithoutJoin ==
  /\ main = "joining"
  /\ \A l \in Range(loops_) : quit_[l]
  /\ main' = "joined"
  /\ UNCHANGED <<startVars, poolVars, listening_, waiting, mapVars, queueVars, closing,
                 callVars, connVars, endVars>>

EndJoin ==
  /\ main = "joining"
  /\ \A l \in Range(loops_) : phase[l] = "stopped"
  /\ main' = "joined"
  /\ UNCHANGED <<startVars, poolVars, listening_, waiting, mapVars, queueVars, closing,
                 callVars, connVars, endVars>>

\* ~Acceptor: disableAll and remove.
DestroyAcceptor ==
  /\ main = "joined"
  /\ main' = "destroyed"
  /\ listening_' = FALSE
  /\ UNCHANGED <<startVars, poolVars, waiting, mapVars, queueVars, closing, callVars,
                 connVars, endVars>>

\* The base EventLoop goes after the server, with what it never ran.
DestroyBaseLoop ==
  /\ main = "destroyed"
  /\ main' = "ended"
  /\ pendingFunctors_' = [pendingFunctors_ EXCEPT ![BaseLoop] = <<>>]
  /\ lost' = lost \union Unreached(BaseLoop)
  /\ UNCHANGED <<startVars, poolVars, listening_, waiting, mapVars, phase, quit_,
                 functors, done, closing, callVars, connVars, dropped>>
------------------------------------------------------------------------------
CallerStep(p) == SetDisconnecting(p) \/ QueueSend(p)

LoopStep(l) == Swap(l) \/ RunFunctor(l) \/ EndTurn(l) \/ CloseCallback(l)

MainStep ==
  \/ BeginDestroy
  \/ \E n \in Names : DestroyConnection(n)
  \/ BeginJoin
  \/ \E i \in 1 .. MaxThreads : QuitThread(i)
  \/ EndJoin
  \/ DestroyAcceptor
  \/ DestroyBaseLoop

Next ==
  \/ \E n \in 0 .. MaxThreads : SetThreadNum(n)
  \/ \E t \in Starters : TestStarted(t) \/ StartPool(t)
  \/ EnterLoop
  \/ QuitBaseLoop
  \/ ClientArrives
  \/ AcceptConnection
  \/ AcceptFails
  \/ \E c \in Conns : Shutdown(c) \/ HandleClose(c) \/ HandleWrite(c)
  \/ \E p \in Callers, c \in Conns : BeginShutdown(p, c) \/ BeginSend(p, c)
  \/ \E p \in Callers : CallerStep(p)
  \/ \E l \in Loops : LoopStep(l)
  \/ MainStep

\* The threads run: a loop with functors pending or a quit() to see takes its
\* turn (EventLoop's NoLostWakeup and NoLostQuit), user callbacks return, calls
\* once begun end, and the destructor goes on.  Every turn handles what epoll
\* reports (EPollPoller's EventuallyReported), whatever else the loop has to do:
\* strong fairness of the Acceptor.  Clients, peers, quit() and the calls of start()
\* are free.
Fairness ==
  /\ \A l \in Loops : WF_vars(LoopStep(l))
  /\ WF_vars(MainStep)
  /\ \A t \in Starters : WF_vars(StartPool(t))
  /\ \A p \in Callers : WF_vars(CallerStep(p))
  /\ SF_vars(AcceptConnection)

SafetySpec == Init /\ [][Next]_vars
Spec == SafetySpec /\ Fairness
------------------------------------------------------------------------------
\* Every variable has its type; next_ is an index of loops_ (the wrap of
\* EventLoopThreadPool.cc:42 compares an int with a size_t), names lead to
\* existing connections, and batches are only there while they run.
TypeOK ==
  /\ main \in MainPoints
  /\ starter \in [Starters -> {"idle", "won", "done"}]
  /\ started_ \in Nat /\ garbage \in {0, 1}
  /\ numThreads_ \in 0 .. MaxThreads
  /\ loops_ \in Seq(IoLoops)
  /\ next_ \in Nat /\ (next_ = 0 \/ next_ < Len(loops_))
  /\ listening_ \in BOOLEAN
  /\ waiting \in 0 .. MaxConns
  /\ nextConnId_ \in Names
  /\ DOMAIN connections_ \subseteq Names /\ Range(connections_) \subseteq Created
  /\ phase \in [Loops -> Phases]
  /\ quit_ \in [Loops -> BOOLEAN]
  /\ pendingFunctors_ \in [Loops -> Seq([op : Ops, conn : Conns \union {NoConn}])]
  /\ functors \in [Loops -> Seq([op : Ops, conn : Conns \union {NoConn}])]
  /\ done \in [Loops -> Nat]
  /\ \A l \in Loops :
       /\ done[l] <= Len(functors[l])
       /\ functors[l] # <<>> => phase[l] = "run"
  /\ closing \in [Loops -> Conns \union {NoConn}]
  /\ caller \in [Callers -> [what : {"idle", "send", "shutdown"},
                           conn : Conns \union {NoConn}]]
  /\ sends \in 0 .. MaxSends
  /\ ioLoop \in [Conns -> Loops]
  /\ name_ \in [Conns -> Names \union {0}]
  /\ state_ \in [Conns -> States]
  /\ downs \in [Conns -> Nat]
  /\ inPoller \subseteq Created /\ watched \subseteq inPoller
  /\ destroyed \subseteq Created /\ revived \subseteq destroyed /\ overwrote \subseteq Created
  /\ lost \subseteq Created /\ dropped \subseteq Created

\* How many times connectDestroyed has been arranged for connection c and not
\* been carried out: by its place in connections_, and by the queue of its loop.
DestructionsAhead(c) ==
  LET l == ioLoop[c]
      todo(fs, from) ==
        Cardinality({i \in from .. Len(fs) : fs[i] = Functor("connectDestroyed", c)})
  IN  Cardinality({n \in DOMAIN connections_ : connections_[n] = c})
        + todo(functors[l], done[l] + 1) + todo(pendingFunctors_[l], 1)

\* Between removeConnection, removeConnectionInLoop and ~TcpServer
\* (TcpServer.cc:33-42, 103-117) a destruction is on its way for every connection
\* until its connectDestroyed has run, or has gone down with its loop; just one, and
\* none after it, unless a shutdown() has undone kDisconnected (TcpConnection.cc:130)
\* and the connection may close again.  A connection whose place in connections_ was
\* taken, which needs a second one of its name (TcpServer.cc:86, 113), has none.
OneDestructionAhead ==
  \A c \in Created \ dropped :
    /\ c \notin destroyed \union lost => DestructionsAhead(c) >= 1
    /\ c \notin overwrote =>
         DestructionsAhead(c) = IF c \in destroyed \union lost THEN 0 ELSE 1

\* The poller keeps raw Channel pointers (Poller.h): a connection dies only after its
\* Channel has left the poller of a loop that goes on.  The exceptions are a
\* connection that another one's name pushed out of connections_, and one whose
\* Channel a sendInLoop behind connectDestroyed has put back (TcpConnection.cc:119).
NoDanglingChannel ==
  \A c \in inPoller \ (dropped \union revived) :
    phase[ioLoop[c]] # "stopped" => c \in Alive

\* connectEstablished, queued by newConnection (TcpServer.cc:97), comes before
\* connectDestroyed, from wherever that is queued, so that no connection comes up
\* again after it was destroyed.  Its Channel stays out of the poller but for a late
\* sendInLoop, and that only if a shutdown() has undone kDisconnected, or ~TcpServer
\* has destroyed it in kDisconnecting (TcpConnection.cc:72, 157).
DestroyedStaysOut ==
  \A c \in destroyed :
    /\ state_[c] \in {"kDisconnecting", "kDisconnected"}
    /\ c \in inPoller => c \in revived
    /\ c \in revived \ dropped => c \in overwrote \/ phase[BaseLoop] = "stopped"

\* "调用TcpConnection::connectDestroyed()，销毁连接" (TcpServer.cc:39): when all is
\* over, connectDestroyed has run for every connection there was.
EveryConnectionDestroyed == main = "ended" => Created \subseteq destroyed

\* The user of a connection is told that it is down, by handleClose or by
\* connectDestroyed, before it dies; connections that are being shut down, those
\* whose connectDestroyed is lost with their loop, and those pushed out of
\* connections_ are not certain of it.  The user is told once, unless a shutdown()
\* on another thread has undone kDisconnected (TcpConnection.cc:128-130).
ToldOfEnd ==
  \A c \in Created :
    /\ c \notin overwrote => downs[c] <= 1
    /\ \/ c \in Alive \/ downs[c] >= 1
       \/ state_[c] = "kDisconnecting" \/ c \in lost \union dropped

\* closeCallback_ holds the raw TcpServer (TcpServer.cc:94-95) and ~TcpServer
\* queues on the pool's loops (TcpServer.cc:40): the loops end before the server
\* does, and nothing is queued on a loop that has ended.
ServerOutlivesLoops ==
  \A l \in IoLoops :
    /\ main \in {"joined", "destroyed", "ended"} => phase[l] \in {"none", "stopped"}
    /\ phase[l] = "stopped" => pendingFunctors_[l] = <<>> /\ closing[l] = NoConn

\* getNextLoop() (EventLoopThreadPool.cc:34-48) spreads the connections evenly.
RoundRobin ==
  LET load(l) == Cardinality({c \in Created : ioLoop[c] = l})
  IN  \A l, k \in Range(loops_) : load(l) <= load(k) + 1

\* "防止一个TcpServer对象被start多次" (TcpServer.cc:53): of the calls of start(),
\* on any threads, one starts the pool, with as many loops as were asked for,
\* and lets the Acceptor listen, provided started_ happened to begin as 0.
StartsOnce ==
  (garbage = 0 /\ \E t \in Starters : starter[t] = "done")
    /\ (\A t \in Starters : starter[t] # "won")
    => /\ Len(loops_) = numThreads_
       /\ \/ listening_
          \/ Functor("listen", NoConn) \in Queued(BaseLoop)
          \/ phase[BaseLoop] = "stopped"

\* A connection that is down is released by everyone and its descriptor closed:
\* the removal goes from its loop to the base loop and back
\* (TcpServer.cc:103-117), or ~TcpServer sees to it.
DownConnectionsAreFreed ==
  \A c \in Conns : (state_[c] = "kDisconnected") ~> (c \notin Alive)

\* ~TcpServer ends: no loop of the pool waits for the base thread that joins it
\* (EventLoopThread.cc:13-20).
DestructorCompletes == (main = "destroying") ~> (main = "ended")

\* A client waits no longer than until descriptors are free again, also after
\* accept() has failed (Acceptor.cc:50-78), as long as the base loop goes on.
ClientsServed ==
  \A k \in 0 .. MaxConns :
    (/\ Cardinality(Created) = k /\ waiting > 0
     /\ main = "looping"
     /\ Cardinality(Alive) < MaxFds \/ \E c \in Alive : state_[c] = "kDisconnected")
      ~> (Cardinality(Created) > k \/ quit_[BaseLoop])
==============================================================================
