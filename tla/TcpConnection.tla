---------------------------- MODULE TcpConnection ----------------------------
(***************************************************************************)
(* One TcpConnection: its IO loop, other threads that call send() and      *)
(* shutdown() on it, the TcpServer that owns it, and the socket.           *)
(*                                                                         *)
(* The IO loop is a TaskQueue: functors run in the order they were queued, *)
(* and the Channel's events are handled between them.  A handler or a      *)
(* functor is one step up to the user's callback it ends in; a call from   *)
(* another thread is one step per access to what it shares with the loop.  *)
(***************************************************************************)
EXTENDS Integers, Sequences

CONSTANTS
  Callers,          \* the threads, other than the loop's, that have the connection
  ShutdownCallers,  \* those of them that call shutdown()
  Messages,         \* each sent at most once
  Length,           \* of each message, in units the kernel accepts whole
  highWaterMark_,
  CallersWait       \* whether a caller leaves its string as it is until the loop
                    \* has sent it

ASSUME ConstantsAssumption ==
  /\ ShutdownCallers \subseteq Callers
  /\ Length \in [Messages -> Nat]
  /\ highWaterMark_ \in Nat \ {0}
  /\ CallersWait \in BOOLEAN

VARIABLES
  state_,
  events_,          \* of channel_
  inPoller,         \* whether channel_ is on the epoll tree
  outputBuffer_,    \* readable units, oldest first
  functors,         \* queued on the loop, those of this connection
  loopAt,           \* the loop: between steps, or in a callback of the user
  downs,            \* history: how often the user was told that the connection is down
  overwrote,        \* history: whether a shutdown() has undone kDisconnected
  owner,            \* the TcpServer's share: "holds", "removing", "released"
  serverGone,       \* ~TcpServer has run
  caller,           \* where each caller is
  string,           \* the message in the caller's std::string
  holders,          \* the callers that have a TcpConnectionPtr
  unsent,           \* messages not sent yet
  readable,         \* the socket: the peer's data waits to be read
  peer,             \* the peer: "open", "finished" (sent FIN) or "reset"
  finSent,          \* the socket: SHUT_WR done
  wire,             \* the socket: units the kernel accepted, in order
  accepted,         \* history: the units sendInLoop took, as given to send()
  killed            \* the process has ended: by SIGPIPE, or because a functor ran
                    \* on a connection that is gone

connVars == <<state_, events_, inPoller, outputBuffer_>>
userVars == <<caller, string, holders, unsent>>
serverVars == <<owner, serverGone>>
peerVars == <<readable, peer>>
historyVars == <<downs, overwrote>>
outVars == <<finSent, wire, accepted, killed>>
vars == <<connVars, functors, loopAt, historyVars, serverVars, userVars, peerVars, outVars>>

States == {"kConnecting", "kConnected", "kDisconnecting", "kDisconnected"}
Ops == {"connectEstablished", "connectDestroyed", "sendInLoop",
        "shutdownInLoop", "writeComplete", "highWaterMark"}
NoMessage == "none"
NoCaller == "loop"

Functor(op) == [op |-> op, by |-> NoCaller, message |-> NoMessage]
SendFunctor(p, m) == [op |-> "sendInLoop", by |-> p, message |-> m]
ShutdownFunctor(p) == [op |-> "shutdownInLoop", by |-> p, message |-> NoMessage]

IsWriting == "kWriteEvent" \in events_
IsReading == "kReadEvent" \in events_

\* `len` units found where message m is stored.
Units(m, len) == [i \in 1 .. len |-> <<m, i>>]

QueuedBy(p) == \E i \in DOMAIN functors : functors[i].by = p

\* connectEstablished and connectDestroyed, the write-complete and the
\* high-water functor hold a shared_ptr; sendInLoop and shutdownInLoop are
\* bound to a raw `this`.
Alive ==
  \/ owner \in {"holds", "removing"}
  \/ holders # {}
  \/ loopAt # "loop"
  \/ \E i \in DOMAIN functors :
       functors[i].op \notin {"sendInLoop", "shutdownInLoop"}

\* TcpServer::newConnection has created the connection and queued the rest.
Init ==
  /\ state_ = "kConnecting"
  /\ events_ = {}
  /\ inPoller = FALSE
  /\ outputBuffer_ = <<>>
  /\ functors = <<Functor("connectEstablished")>>
  /\ loopAt = "loop"
  /\ downs = 0
  /\ overwrote = FALSE
  /\ owner = "holds"
  /\ serverGone = FALSE
  /\ caller = [p \in Callers |-> "idle"]
  /\ string = [p \in Callers |-> NoMessage]
  /\ holders = {}
  /\ unsent = Messages
  /\ readable = FALSE
  /\ peer = "open"
  /\ finSent = FALSE
  /\ wire = <<>>
  /\ accepted = <<>>
  /\ killed = FALSE
------------------------------------------------------------------------------
(***************************************************************************)
(* Writing.  `queue` is what the functor queue holds before the step adds  *)
(* to it: the queue itself, or its tail when the step runs its head.       *)
(***************************************************************************)

\* write() fails once the peer has reset the connection or after SHUT_WR.
Broken == peer = "reset" \/ finSent

\* The error is EPIPE, with a SIGPIPE that ends the process unless the
\* application ignores it (the library does not), or after a reset ECONNRESET.
WriteFails ==
  /\ Broken
  /\ killed' \in BOOLEAN
  /\ UNCHANGED wire

\* write() accepts the first n units, or none with EWOULDBLOCK.
WriteAccepts(units, n) ==
  /\ ~Broken
  /\ wire' = wire \o SubSeq(units, 1, n)
  /\ UNCHANGED killed

\* Mutant: SHUT_WR whether or not the channel is waiting to write.
ShutdownAlways(writing) == finSent' = TRUE

\* shutdownInLoop: SHUT_WR unless the channel is waiting to write.
ShutdownInLoop(writing) == finSent' = (finSent \/ ~writing)

\* Mutant: what is left over replaces what was buffered.
KeepOverwrites(rest, queue) ==
  /\ outputBuffer_' = IF rest = <<>> THEN outputBuffer_ ELSE rest
  /\ IF rest = <<>> \/ IsWriting
       THEN UNCHANGED <<events_, inPoller>>
       ELSE events_' = events_ \union {"kWriteEvent"} /\ inPoller' = TRUE
  /\ functors' = queue

\* Mutant: the channel is not asked to watch for writability.
KeepSilently(rest, queue) ==
  /\ outputBuffer_' = outputBuffer_ \o rest
  /\ UNCHANGED <<events_, inPoller>>
  /\ functors' = queue

\* The part of sendInLoop that buffers `rest`, what write() left over.
Keep(rest, queue) ==
  LET oldLen  == Len(outputBuffer_)
      newLen  == oldLen + Len(rest)
      crosses == oldLen < highWaterMark_ /\ newLen >= highWaterMark_
  IN  \/ /\ rest = <<>>
         /\ functors' = queue
         /\ UNCHANGED <<outputBuffer_, events_, inPoller>>
      \/ /\ rest # <<>>
         /\ functors' = IF crosses THEN Append(queue, Functor("highWaterMark"))
                                   ELSE queue
         /\ outputBuffer_' = outputBuffer_ \o rest
         /\ IF IsWriting
              THEN UNCHANGED <<events_, inPoller>>
              ELSE events_' = events_ \union {"kWriteEvent"} /\ inPoller' = TRUE

\* Mutant: nobody looks whether the connection is down.
SendInLoopWhenDown(m, units, queue) ==
  /\ Keep(units, queue)
  /\ accepted' = accepted \o Units(m, Length[m])
  /\ UNCHANGED <<wire, killed>>

\* sendInLoop of the units found behind the pointer, for message m as given.
SendInLoop(m, units, queue) ==
  \/ /\ state_ = "kDisconnected"
     /\ functors' = queue
     /\ UNCHANGED <<outputBuffer_, events_, inPoller, wire, accepted, killed>>
  \/ /\ state_ # "kDisconnected"
     /\ ~IsWriting /\ outputBuffer_ = <<>>
     /\ WriteFails
     /\ functors' = queue
     /\ UNCHANGED <<outputBuffer_, events_, inPoller, accepted>>
  \/ /\ state_ # "kDisconnected"
     /\ ~IsWriting /\ outputBuffer_ = <<>>
     /\ \E n \in 0 .. Len(units) :
          /\ WriteAccepts(units, n)
          /\ Keep(SubSeq(units, n + 1, Len(units)),
                  IF n = Len(units) THEN Append(queue, Functor("writeComplete"))
                                    ELSE queue)
     /\ accepted' = accepted \o Units(m, Length[m])
  \/ /\ state_ # "kDisconnected"
     /\ IsWriting \/ outputBuffer_ # <<>>
     /\ Keep(units, queue)
     /\ accepted' = accepted \o Units(m, Length[m])
     /\ UNCHANGED <<wire, killed>>
------------------------------------------------------------------------------
(***************************************************************************)
(* Functors.                                                               *)
(***************************************************************************)

Runs(op) ==
  /\ loopAt = "loop"
  /\ functors # <<>>
  /\ Head(functors).op = op

ConnectEstablished ==
  /\ Runs("connectEstablished")
  /\ functors' = Tail(functors)
  /\ state_' = "kConnected"
  /\ events_' = events_ \union {"kReadEvent"}
  /\ inPoller' = TRUE
  /\ holders' = Callers
  /\ loopAt' = "callback"
  /\ UNCHANGED <<outputBuffer_, historyVars, serverVars, caller, string, unsent,
                 peerVars, outVars>>

\* connectDestroyed tells the user only of a connection that is kConnected;
\* channel_->remove() comes when that callback returns.  Between its test of
\* state_ and its store other threads may store kDisconnecting (`late`).
ConnectDestroyed ==
  /\ Runs("connectDestroyed")
  /\ functors' = Tail(functors)
  /\ \/ /\ state_ = "kConnected"
        /\ state_' = "kDisconnected"
        /\ events_' = {}
        /\ inPoller' = FALSE
        /\ downs' = downs + 1
        /\ loopAt' = "destroying"
        /\ \E late \in SUBSET {p \in Callers : caller[p] = "setting"} :
             caller' = [p \in Callers |-> IF p \in late THEN "shutting" ELSE caller[p]]
     \/ /\ state_ # "kConnected"
        /\ inPoller' = FALSE
        /\ UNCHANGED <<state_, events_, downs, loopAt, caller>>
  /\ UNCHANGED <<overwrote, outputBuffer_, serverVars, string, holders, unsent, peerVars,
                 outVars>>

\* A message queued by another thread: the functor has the address and the
\* length of the string it was given, so it sends what is there now.
RunSendInLoop ==
  /\ Runs("sendInLoop")
  /\ Alive
  /\ LET f == Head(functors)
     IN  SendInLoop(f.message, Units(string[f.by], Length[f.message]), Tail(functors))
  /\ UNCHANGED <<state_, loopAt, historyVars, serverVars, userVars, peerVars, finSent>>

RunShutdownInLoop ==
  /\ Runs("shutdownInLoop")
  /\ Alive
  /\ functors' = Tail(functors)
  /\ ShutdownInLoop(IsWriting)
  /\ UNCHANGED <<connVars, loopAt, historyVars, serverVars, userVars, peerVars, wire,
                 accepted, killed>>

\* Either of them on a connection that is gone, which nothing prevents: what the
\* code does then is undefined, and the model follows it no further.
RunDangling ==
  /\ Runs("sendInLoop") \/ Runs("shutdownInLoop")
  /\ ~Alive
  /\ killed' = TRUE
  /\ UNCHANGED <<connVars, functors, loopAt, historyVars, serverVars, userVars,
                 peerVars, finSent, wire, accepted>>

\* writeCompleteCallback_ and highWaterMarkCallback_.
RunUserCallback ==
  /\ Runs("writeComplete") \/ Runs("highWaterMark")
  /\ functors' = Tail(functors)
  /\ loopAt' = "callback"
  /\ UNCHANGED <<connVars, historyVars, serverVars, userVars, peerVars, outVars>>
------------------------------------------------------------------------------
(***************************************************************************)
(* Events of the channel, whose descriptor is closed with the connection.  *)
(***************************************************************************)

\* Mutant: the state is set and the user told, but the channel stays enabled.
CloseLeavesChannel ==
  /\ state_' = "kDisconnected"
  /\ downs' = downs + 1
  /\ loopAt' = "closing"
  /\ UNCHANGED <<events_, inPoller, overwrote>>

\* Mutant: state_ is left as it is.
CloseKeepsState ==
  /\ events_' = {}
  /\ inPoller' = FALSE
  /\ downs' = downs + 1
  /\ loopAt' = "closing"
  /\ UNCHANGED <<state_, overwrote>>

\* handleClose, up to connectionCallback_; closeCallback_ comes after it.
HandleClose ==
  /\ state_' = "kDisconnected"
  /\ events_' = {}
  /\ inPoller' = FALSE
  /\ downs' = downs + 1
  /\ loopAt' = "closing"
  /\ UNCHANGED overwrote

\* handleRead: all there is is read in one go and handed to messageCallback_.
HandleRead ==
  /\ loopAt = "loop" /\ Alive
  /\ inPoller /\ IsReading
  /\ readable
  /\ readable' = FALSE
  /\ loopAt' = "callback"
  /\ UNCHANGED <<connVars, functors, historyVars, serverVars, userVars, peer, outVars>>

\* handleRead with nothing left to read: the peer has closed, or the error of
\* a reset is logged and the next read returns 0.
HandleReadClose ==
  /\ loopAt = "loop" /\ Alive
  /\ inPoller /\ IsReading
  /\ ~readable /\ peer # "open"
  /\ HandleClose
  /\ UNCHANGED <<outputBuffer_, functors, serverVars, userVars, peerVars, outVars>>

\* EPOLLHUP without EPOLLIN: only a channel that does not watch for reading.
HandleHup ==
  /\ loopAt = "loop" /\ Alive
  /\ inPoller /\ ~IsReading
  /\ peer = "reset" \/ (peer = "finished" /\ finSent)
  /\ HandleClose
  /\ UNCHANGED <<outputBuffer_, functors, serverVars, userVars, peerVars, outVars>>

\* Mutant: a drained buffer is the end of it, whatever state_ says.
HandleWriteForgetsShutdown ==
  /\ loopAt = "loop" /\ Alive
  /\ inPoller /\ IsWriting
  /\ \E n \in 1 .. Len(outputBuffer_) :
       /\ WriteAccepts(outputBuffer_, n)
       /\ outputBuffer_' = SubSeq(outputBuffer_, n + 1, Len(outputBuffer_))
  /\ IF outputBuffer_' # <<>>
       THEN UNCHANGED <<events_, inPoller, functors, finSent>>
       ELSE /\ events_' = events_ \ {"kWriteEvent"}
            /\ inPoller' = (events_' # {})
            /\ functors' = Append(functors, Functor("writeComplete"))
            /\ UNCHANGED finSent
  /\ UNCHANGED <<state_, loopAt, historyVars, serverVars, userVars, peerVars, accepted>>

\* handleWrite: the kernel takes some of the buffer; the last of it ends the
\* watch for writability and carries out a shutdown() that was waiting.
HandleWrite ==
  /\ loopAt = "loop" /\ Alive
  /\ inPoller /\ IsWriting
  /\ \E n \in 1 .. Len(outputBuffer_) :
       /\ WriteAccepts(outputBuffer_, n)
       /\ outputBuffer_' = SubSeq(outputBuffer_, n + 1, Len(outputBuffer_))
  /\ IF outputBuffer_' # <<>>
       THEN UNCHANGED <<events_, inPoller, functors, finSent>>
       ELSE /\ events_' = events_ \ {"kWriteEvent"}
            /\ inPoller' = (events_' # {})
            /\ functors' = Append(functors, Functor("writeComplete"))
            /\ IF state_ = "kDisconnecting" THEN ShutdownInLoop(FALSE)
                                            ELSE UNCHANGED finSent
  /\ UNCHANGED <<state_, loopAt, historyVars, serverVars, userVars, peerVars, accepted>>

\* handleWrite when the write fails: logged, and nothing else.
HandleWriteError ==
  /\ loopAt = "loop" /\ Alive
  /\ inPoller /\ IsWriting
  /\ WriteFails
  /\ UNCHANGED <<connVars, functors, loopAt, historyVars, serverVars, userVars,
                 peerVars, finSent, accepted>>
------------------------------------------------------------------------------
(***************************************************************************)
(* The user's callbacks, on the loop's thread.                             *)
(***************************************************************************)

\* send() on the loop's thread.
LoopSend(m) ==
  /\ loopAt # "loop"
  /\ m \in unsent
  /\ unsent' = unsent \ {m}
  /\ \/ /\ state_ = "kConnected"
        /\ SendInLoop(m, Units(m, Length[m]), functors)
     \/ /\ state_ # "kConnected"
        /\ UNCHANGED <<outputBuffer_, events_, inPoller, functors, wire,
                       accepted, killed>>
  /\ UNCHANGED <<state_, loopAt, historyVars, serverVars, caller, string, holders,
                 peerVars, finSent>>

\* shutdown() on the loop's thread: runInLoop runs shutdownInLoop at once.
LoopShutdown ==
  /\ loopAt # "loop"
  /\ state_ = "kConnected"
  /\ state_' = "kDisconnecting"
  /\ ShutdownInLoop(IsWriting)
  /\ UNCHANGED <<events_, inPoller, outputBuffer_, functors, loopAt, historyVars,
                 serverVars, userVars, peerVars, wire, accepted, killed>>

\* The callback returns to the code that called it: handleClose goes on with
\* closeCallback_, which asks the base loop to remove the connection, and
\* connectDestroyed with channel_->remove().  After ~TcpServer the base loop
\* runs no more, so what closeCallback_ queues there is never run.
LeaveCallback ==
  /\ loopAt # "loop"
  /\ loopAt' = "loop"
  /\ owner' = IF loopAt = "closing" /\ ~serverGone THEN "removing" ELSE owner
  /\ inPoller' = (inPoller /\ loopAt # "destroying")
  /\ UNCHANGED <<state_, events_, outputBuffer_, functors, historyVars, serverGone,
                 userVars, peerVars, outVars>>
------------------------------------------------------------------------------
(***************************************************************************)
(* Other threads.                                                          *)
(***************************************************************************)

\* send(m): the message is in the caller's string; state_ is tested.
BeginSend(p, m) ==
  /\ p \in holders
  /\ caller[p] = "idle"
  /\ m \in unsent
  /\ CallersWait => ~QueuedBy(p)
  /\ unsent' = unsent \ {m}
  /\ string' = [string EXCEPT ![p] = m]
  /\ caller' = IF state_ = "kConnected" THEN [caller EXCEPT ![p] = "sending"]
                                        ELSE caller
  /\ UNCHANGED <<connVars, functors, loopAt, historyVars, serverVars, holders,
                 peerVars, outVars>>

\* Mutant: the string is gone when send() returns.
QueueSendOfTemporary(p) ==
  /\ caller[p] = "sending"
  /\ functors' = Append(functors, SendFunctor(p, string[p]))
  /\ caller' = [caller EXCEPT ![p] = "idle"]
  /\ string' = [string EXCEPT ![p] = NoMessage]
  /\ UNCHANGED <<connVars, loopAt, historyVars, serverVars, holders, unsent,
                 peerVars, outVars>>

\* Then runInLoop(bind(&sendInLoop, this, message.c_str(), message.size())).
QueueSend(p) ==
  /\ caller[p] = "sending"
  /\ functors' = Append(functors, SendFunctor(p, string[p]))
  /\ caller' = [caller EXCEPT ![p] = "idle"]
  /\ UNCHANGED <<connVars, loopAt, historyVars, serverVars, string, holders, unsent,
                 peerVars, outVars>>

\* shutdown(): the test of state_ ...
BeginShutdown(p) ==
  /\ p \in holders \intersect ShutdownCallers
  /\ caller[p] = "idle"
  /\ state_ = "kConnected"
  /\ caller' = [caller EXCEPT ![p] = "setting"]
  /\ UNCHANGED <<connVars, functors, loopAt, historyVars, serverVars, string, holders,
                 unsent, peerVars, outVars>>

\* ... the store ...
SetDisconnecting(p) ==
  /\ caller[p] = "setting"
  /\ state_' = "kDisconnecting"
  /\ overwrote' = (overwrote \/ state_ = "kDisconnected")
  /\ caller' = [caller EXCEPT ![p] = "shutting"]
  /\ UNCHANGED <<events_, inPoller, outputBuffer_, functors, loopAt, downs,
                 serverVars, string, holders, unsent, peerVars, outVars>>

\* ... and the functor.
QueueShutdown(p) ==
  /\ caller[p] = "shutting"
  /\ functors' = Append(functors, ShutdownFunctor(p))
  /\ caller' = [caller EXCEPT ![p] = "idle"]
  /\ UNCHANGED <<connVars, loopAt, historyVars, serverVars, string, holders, unsent,
                 peerVars, outVars>>

\* The caller lets go of its TcpConnectionPtr, whatever it has queued.
Release(p) ==
  /\ p \in holders
  /\ caller[p] = "idle"
  /\ holders' = holders \ {p}
  /\ UNCHANGED <<connVars, functors, loopAt, historyVars, serverVars, caller, string,
                 unsent, peerVars, outVars>>
------------------------------------------------------------------------------
(***************************************************************************)
(* The TcpServer and the peer.                                             *)
(***************************************************************************)

\* removeConnectionInLoop, on the base loop.
RemoveConnectionInLoop ==
  /\ owner = "removing"
  /\ owner' = "released"
  /\ functors' = Append(functors, Functor("connectDestroyed"))
  /\ UNCHANGED <<connVars, loopAt, historyVars, serverGone, userVars, peerVars, outVars>>

\* ~TcpServer, after its base loop has ended; the IO loop is another one.
DestroyServer ==
  /\ ~serverGone
  /\ serverGone' = TRUE
  /\ owner' = "released"
  /\ functors' = IF owner = "released" THEN functors
                 ELSE Append(functors, Functor("connectDestroyed"))
  /\ UNCHANGED <<connVars, loopAt, historyVars, userVars, peerVars, outVars>>

PeerSends ==
  /\ peer = "open"
  /\ readable' = TRUE
  /\ UNCHANGED <<connVars, functors, loopAt, historyVars, serverVars, userVars, peer,
                 outVars>>

PeerCloses(how) ==
  /\ peer = "open" \/ (peer = "finished" /\ how = "reset")
  /\ peer' = how
  /\ UNCHANGED <<connVars, functors, loopAt, historyVars, serverVars, userVars,
                 readable, outVars>>
------------------------------------------------------------------------------
FunctorStep ==
  \/ ConnectEstablished \/ ConnectDestroyed
  \/ RunSendInLoop \/ RunShutdownInLoop \/ RunDangling \/ RunUserCallback

EventStep == HandleReadClose \/ HandleHup \/ HandleWrite

CallerStep(p) ==
  \/ QueueSend(p) \/ SetDisconnecting(p) \/ QueueShutdown(p)

Next ==
  /\ ~killed
  /\ \/ FunctorStep
     \/ EventStep \/ HandleRead \/ HandleWriteError
     \/ LeaveCallback
     \/ \E m \in Messages : LoopSend(m)
     \/ LoopShutdown
     \/ \E p \in Callers : CallerStep(p)
     \/ \E p \in Callers, m \in Messages : BeginSend(p, m)
     \/ \E p \in Callers : BeginShutdown(p) \/ Release(p)
     \/ RemoveConnectionInLoop
     \/ DestroyServer
     \/ PeerSends
     \/ \E how \in {"finished", "reset"} : PeerCloses(how)

SafetySpec == Init /\ [][Next]_vars

\* Callbacks return and calls once begun end.  The loop runs what is queued
\* (TaskQueue) and handles what epoll reports (EPollPoller's EventuallyReported)
\* even if other events keep coming, since each turn of loop() does both: hence
\* strong fairness.  A socket whose peer is there accepts data sooner or later.
Fairness ==
  /\ SF_vars(~killed /\ FunctorStep)
  /\ SF_vars(~killed /\ HandleRead)
  /\ SF_vars(~killed /\ EventStep)
  /\ WF_vars(~killed /\ LeaveCallback)
  /\ \A p \in Callers : WF_vars(~killed /\ CallerStep(p))

Spec == SafetySpec /\ Fairness
------------------------------------------------------------------------------
\* Every variable has its type.
TypeOK ==
  /\ state_ \in States
  /\ events_ \subseteq {"kReadEvent", "kWriteEvent"}
  /\ inPoller \in BOOLEAN
  /\ outputBuffer_ \in Seq(Messages \X Nat)
  /\ functors \in Seq([op : Ops, by : Callers \union {NoCaller},
                       message : Messages \union {NoMessage}])
  /\ loopAt \in {"loop", "callback", "closing", "destroying"}
  /\ downs \in Nat
  /\ overwrote \in BOOLEAN
  /\ owner \in {"holds", "removing", "released"}
  /\ serverGone \in BOOLEAN
  /\ caller \in [Callers -> {"idle", "sending", "setting", "shutting"}]
  /\ string \in [Callers -> Messages \union {NoMessage}]
  /\ holders \subseteq Callers
  /\ unsent \subseteq Messages
  /\ readable \in BOOLEAN
  /\ peer \in {"open", "finished", "reset"}
  /\ finSent \in BOOLEAN
  /\ wire \in Seq(Messages \X Nat)
  /\ accepted \in Seq(Messages \X Nat)
  /\ killed \in BOOLEAN

Up == state_ \in {"kConnected", "kDisconnecting"} /\ downs = 0

\* The byte stream (TcpConnection.cc:67-124, 187-223): what the kernel accepted
\* and what is still buffered are, in order and without loss or repetition,
\* the messages sendInLoop took, whatever mix of direct and buffered writes,
\* partial writes and sending threads brought them there.
StreamIntegrity == wire \o outputBuffer_ = accepted

\* While the connection is up the channel watches for writability exactly
\* when there is something to write (TcpConnection.cc:119-122, 197-200):
\* otherwise the buffer would never drain, or the loop would spin.
WatchesWhileBuffered == Up => (IsWriting <=> outputBuffer_ # <<>>)

\* shutdown() does not cut the stream short: as long as the connection is up,
\* FIN follows everything that was taken for sending (TcpConnection.cc:136-143,
\* 207-210), and nothing is taken after it.
FinAfterData == Up /\ finSent => wire = accepted

\* A shutdown() is carried out: the state reached by it leads to FIN, unless
\* the connection goes down, is removed or dies first, or the process is killed
\* (TcpConnection.cc:126-143, 207-210).
ShutdownSendsFin ==
  (state_ = "kDisconnecting" /\ Up) ~>
    (finSent \/ ~Up \/ ~inPoller \/ ~Alive \/ killed)

\* The user is told once that a connection is down (TcpConnection.cc:161, 234),
\* as long as no shutdown() on another thread undoes kDisconnected.  Where one does,
\* a send() queued before it enables writing again, EPOLLHUP calls handleClose a
\* second time, and the user is told again.
DownOnce == ~overwrote => downs <= 1

\* sendInLoop gives up once the connection is down (TcpConnection.cc:72-76):
\* nothing is written or buffered from then on, under the same condition.
NoDataAfterDown ==
  [][downs > 0 /\ ~overwrote => wire' = wire /\ outputBuffer_' = outputBuffer_]_vars

\* The Channel is destroyed only after it has left the poller, which is what
\* EPollPoller relies on: whatever was queued before connectDestroyed
\* (TcpConnection.cc:155-164) or behind it, nothing puts the Channel of a
\* connection that is down back.  Of a connection that dies in kDisconnecting this
\* is not so: the guard of sendInLoop (line 72) stops kDisconnected only.
RemovedBeforeDestroyed == ~Alive /\ state_ = "kDisconnected" => ~inPoller
==============================================================================
