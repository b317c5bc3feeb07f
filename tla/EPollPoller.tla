----------------------------- MODULE EPollPoller -----------------------------
(***************************************************************************)
(* The poller of one EventLoop, the Channels registered with it, and the   *)
(* kernel's epoll set behind it.                                           *)
(*                                                                         *)
(* Three records of the same fact have to agree: index_ and events_ in the *)
(* Channel, channels_ in the poller, and the kernel's interest list, which *)
(* holds raw Channel pointers and is keyed by file descriptors the kernel  *)
(* hands out again.  A disagreement makes epoll_ctl fail and update() end  *)
(* the process with LOG_FATAL, or leaves a pointer to a freed Channel.     *)
(*                                                                         *)
(* updateChannel and removeChannel run on the loop's thread only, one call *)
(* per step; other threads construct and destroy Channels.                 *)
(***************************************************************************)
EXTENDS Integers, FiniteSets, FiniteSetsExt

CONSTANTS
  Channels,             \* the Channel objects, each one reused once destroyed
  Fds,                  \* file descriptors, likewise
  NoChannel,            \* no Channel: nullptr
  NoFd,                 \* the descriptor of a Channel that does not exist
  kInitEventListSize    \* initial length of events_, what epoll_wait can return

ASSUME ConstantsAssumption ==
  /\ NoChannel \notin Channels
  /\ NoFd \notin Fds
  /\ kInitEventListSize \in Nat \ {0}

VARIABLES
  phase,            \* what the loop is doing: "poll", "dispatch" or "functors"
  fd_, events_, revents_, index_,       \* of each Channel
  channels_,        \* of the poller: descriptor -> Channel
  eventListSize,    \* events_.size()
  activeChannels_,  \* reported and not yet dispatched
  epoll,            \* the kernel: descriptor -> registration
  ready,            \* the kernel: <<descriptor, event>> pairs that are ready
  fatal             \* LOG_FATAL was reached: the process has exited

channelVars == <<fd_, events_, revents_, index_>>
vars == <<phase, channelVars, channels_, eventListSize, activeChannels_,
          epoll, ready, fatal>>

Events == {"kReadEvent", "kWriteEvent"}
Indexes == {"kNew", "kAdded", "kDeleted"}
Registrations == [ptr : Channels \union {NoChannel}, events : SUBSET Events]
NotRegistered == [ptr |-> NoChannel, events |-> {}]

Live(c) == fd_[c] # NoFd
OpenFds == {fd_[c] : c \in Channels} \ {NoFd}

\* Poller::hasChannel.
HasChannel(c) == Live(c) /\ channels_[fd_[c]] = c

Init ==
  /\ phase = "functors"
  /\ fd_ = [c \in Channels |-> NoFd]
  /\ events_ = [c \in Channels |-> {}]
  /\ revents_ = [c \in Channels |-> {}]
  /\ index_ = [c \in Channels |-> "kNew"]
  /\ channels_ = [fd \in Fds |-> NoChannel]
  /\ eventListSize = kInitEventListSize
  /\ activeChannels_ = {}
  /\ epoll = [fd \in Fds |-> NotRegistered]
  /\ ready = {}
  /\ fatal = FALSE
------------------------------------------------------------------------------
(***************************************************************************)
(* The kernel.                                                             *)
(***************************************************************************)

Registered(fd) == epoll[fd].ptr # NoChannel

\* epoll_ctl: ADD is refused for a descriptor that is registered (EEXIST),
\* MOD and DEL for one that is not (ENOENT).
CtlRefused(op, fd) == IF op = "ADD" THEN Registered(fd) ELSE ~Registered(fd)

\* EPollerPoller::update: a refused DEL is logged, anything else is fatal.
Update(op, c, events) ==
  LET refused == CtlRefused(op, fd_[c])
      entry   == IF op = "DEL" THEN NotRegistered
                               ELSE [ptr |-> c, events |-> events]
  IN  /\ epoll' = IF refused THEN epoll ELSE [epoll EXCEPT ![fd_[c]] = entry]
      /\ fatal' = (refused /\ op # "DEL")

\* What epoll_wait has to report about descriptor fd.
Pending(fd) == {e \in epoll[fd].events : <<fd, e>> \in ready}
------------------------------------------------------------------------------
(***************************************************************************)
(* Channels come and go.                                                   *)
(***************************************************************************)

\* A Channel is constructed on a descriptor just opened.
Construct(c, fd) ==
  /\ ~Live(c)
  /\ fd \in Fds \ OpenFds
  /\ fd_' = [fd_ EXCEPT ![c] = fd]
  /\ UNCHANGED <<phase, events_, revents_, index_, channels_, eventListSize,
                 activeChannels_, epoll, ready, fatal>>

\* Its owner, having removed it, destroys it and closes the descriptor, which
\* takes the descriptor out of every epoll set.  The fields go back to what the
\* next construction finds.
Destroy(c) ==
  /\ Live(c)
  /\ index_[c] = "kNew"
  /\ fd_' = [fd_ EXCEPT ![c] = NoFd]
  /\ events_' = [events_ EXCEPT ![c] = {}]
  /\ revents_' = [revents_ EXCEPT ![c] = {}]
  /\ epoll' = [epoll EXCEPT ![fd_[c]] = NotRegistered]
  /\ ready' = {r \in ready : r[1] # fd_[c]}
  /\ UNCHANGED <<phase, index_, channels_, eventListSize, activeChannels_,
                 fatal>>

\* Data arrives, buffers drain, or what was ready has been consumed.
ReadyChanges(fd, e) ==
  /\ fd \in OpenFds
  /\ ready' = IF <<fd, e>> \in ready THEN ready \ {<<fd, e>>}
                                     ELSE ready \union {<<fd, e>>}
  /\ UNCHANGED <<phase, channelVars, channels_, eventListSize,
                 activeChannels_, epoll, fatal>>
------------------------------------------------------------------------------
(***************************************************************************)
(* Registration, from callbacks and functors.                              *)
(***************************************************************************)

\* Mutant: a Channel that was taken off the tree is taken for a registered one.
UpdateForgetsDeleted(c) ==
  \/ /\ index_[c] = "kNew"
     /\ channels_' = [channels_ EXCEPT ![fd_[c]] = c]
     /\ index_' = [index_ EXCEPT ![c] = "kAdded"]
     /\ Update("ADD", c, events_'[c])
  \/ /\ index_[c] # "kNew"
     /\ events_'[c] = {}
     /\ Update("DEL", c, {})
     /\ index_' = [index_ EXCEPT ![c] = "kDeleted"]
     /\ UNCHANGED channels_
  \/ /\ index_[c] # "kNew"
     /\ events_'[c] # {}
     /\ Update("MOD", c, events_'[c])
     /\ UNCHANGED <<index_, channels_>>

\* EPollerPoller::updateChannel, events_ being set already.
UpdateChannel(c) ==
  \/ /\ index_[c] \in {"kNew", "kDeleted"}
     /\ channels_' = IF index_[c] = "kNew"
                       THEN [channels_ EXCEPT ![fd_[c]] = c] ELSE channels_
     /\ index_' = [index_ EXCEPT ![c] = "kAdded"]
     /\ Update("ADD", c, events_'[c])
  \/ /\ index_[c] = "kAdded"
     /\ events_'[c] = {}
     /\ Update("DEL", c, {})
     /\ index_' = [index_ EXCEPT ![c] = "kDeleted"]
     /\ UNCHANGED channels_
  \/ /\ index_[c] = "kAdded"
     /\ events_'[c] # {}
     /\ Update("MOD", c, events_'[c])
     /\ UNCHANGED <<index_, channels_>>

\* A Channel of this loop changes its events_ and updates the poller.
SetEvents(c, events) ==
  /\ phase # "poll"
  /\ Live(c)
  /\ events_' = [events_ EXCEPT ![c] = events]
  /\ UpdateChannel(c)
  /\ UNCHANGED <<phase, fd_, revents_, eventListSize, activeChannels_, ready>>

EnableReading(c)  == SetEvents(c, events_[c] \union {"kReadEvent"})
DisableReading(c) == SetEvents(c, events_[c] \ {"kReadEvent"})
EnableWriting(c)  == SetEvents(c, events_[c] \union {"kWriteEvent"})
DisableWriting(c) == SetEvents(c, events_[c] \ {"kWriteEvent"})
DisableAll(c)     == SetEvents(c, {})

\* Mutant: the kernel is told only of Channels that it no longer watches.
RemoveSkipsAdded(c) ==
  /\ phase = "functors"
  /\ Live(c)
  /\ channels_' = [channels_ EXCEPT ![fd_[c]] = NoChannel]
  /\ \/ index_[c] = "kDeleted" /\ Update("DEL", c, {})
     \/ index_[c] # "kDeleted" /\ UNCHANGED <<epoll, fatal>>
  /\ index_' = [index_ EXCEPT ![c] = "kNew"]
  /\ UNCHANGED <<phase, fd_, events_, revents_, eventListSize,
                 activeChannels_, ready>>

\* Mutant: connectDestroyed is run at once, in the middle of a dispatch.
RemoveWhileDispatching(c) ==
  /\ phase # "poll"
  /\ Live(c)
  /\ channels_' = [channels_ EXCEPT ![fd_[c]] = NoChannel]
  /\ \/ index_[c] = "kAdded" /\ Update("DEL", c, {})
     \/ index_[c] # "kAdded" /\ UNCHANGED <<epoll, fatal>>
  /\ index_' = [index_ EXCEPT ![c] = "kNew"]
  /\ UNCHANGED <<phase, fd_, events_, revents_, eventListSize,
                 activeChannels_, ready>>

\* Channel::remove and EPollerPoller::removeChannel.  connectDestroyed, which
\* calls it, is queued and so runs as a functor, after the dispatch; the
\* destructors that call it run outside loop().  events_ keeps its value.
RemoveChannel(c) ==
  /\ phase = "functors"
  /\ Live(c)
  /\ channels_' = [channels_ EXCEPT ![fd_[c]] = NoChannel]
  /\ \/ index_[c] = "kAdded" /\ Update("DEL", c, {})
     \/ index_[c] # "kAdded" /\ UNCHANGED <<epoll, fatal>>
  /\ index_' = [index_ EXCEPT ![c] = "kNew"]
  /\ UNCHANGED <<phase, fd_, events_, revents_, eventListSize,
                 activeChannels_, ready>>
------------------------------------------------------------------------------
(***************************************************************************)
(* The loop's turn.                                                        *)
(***************************************************************************)

\* The array grows when epoll_wait filled it.  Mutants first: it never does, or
\* it is fitted to the last report.
NeverGrows(size, numEvents) == size

FitsReport(size, numEvents) == numEvents

GrownSize(size, numEvents) == IF numEvents = size THEN size * 2 ELSE size

\* EPollerPoller::poll and fillActiveChannels.  When more descriptors are
\* ready than the array holds, the kernel chooses which to report.
Poll(reported) ==
  /\ phase = "poll"
  /\ LET readyFds == {fd \in Fds : Pending(fd) # {}}
     IN  /\ reported \subseteq readyFds
         /\ Cardinality(reported) = Min({Cardinality(readyFds), eventListSize})
  /\ activeChannels_' = {epoll[fd].ptr : fd \in reported}
  /\ revents_' = [c \in Channels |-> IF c \in activeChannels_'
                                       THEN Pending(fd_[c]) ELSE revents_[c]]
  /\ eventListSize' = GrownSize(eventListSize, Cardinality(reported))
  /\ phase' = "dispatch"
  /\ UNCHANGED <<fd_, events_, index_, channels_, epoll, ready, fatal>>

\* handleEvent of the next active Channel.
Dispatch(c) ==
  /\ phase = "dispatch"
  /\ c \in activeChannels_
  /\ activeChannels_' = activeChannels_ \ {c}
  /\ UNCHANGED <<phase, channelVars, channels_, eventListSize, epoll, ready,
                 fatal>>

EndDispatch ==
  /\ phase = "dispatch"
  /\ activeChannels_ = {}
  /\ phase' = "functors"
  /\ UNCHANGED <<channelVars, channels_, eventListSize, activeChannels_,
                 epoll, ready, fatal>>

EndFunctors ==
  /\ phase = "functors"
  /\ phase' = "poll"
  /\ UNCHANGED <<channelVars, channels_, eventListSize, activeChannels_,
                 epoll, ready, fatal>>
------------------------------------------------------------------------------
LoopStep ==
  /\ ~fatal
  /\ \/ \E reported \in SUBSET Fds : Poll(reported)
     \/ \E c \in Channels : Dispatch(c)
     \/ EndDispatch
     \/ EndFunctors

ChannelCall(c) ==
  \/ EnableReading(c) \/ DisableReading(c)
  \/ EnableWriting(c) \/ DisableWriting(c)
  \/ DisableAll(c)
  \/ RemoveChannel(c)

Environment ==
  \/ \E c \in Channels, fd \in Fds : Construct(c, fd)
  \/ \E c \in Channels : Destroy(c)
  \/ \E fd \in Fds, e \in Events : ReadyChanges(fd, e)

Next ==
  \/ LoopStep
  \/ ~fatal /\ \E c \in Channels : ChannelCall(c)
  \/ ~fatal /\ Environment

SafetySpec == Init /\ [][Next]_vars

\* The loop's thread runs, and callbacks and functors return.
Spec == SafetySpec /\ WF_vars(LoopStep)
------------------------------------------------------------------------------
\* Every variable has its type.
TypeOK ==
  /\ phase \in {"poll", "dispatch", "functors"}
  /\ fd_ \in [Channels -> Fds \union {NoFd}]
  /\ events_ \in [Channels -> SUBSET Events]
  /\ revents_ \in [Channels -> SUBSET Events]
  /\ index_ \in [Channels -> Indexes]
  /\ channels_ \in [Fds -> Channels \union {NoChannel}]
  /\ eventListSize \in Nat \ {0}
  /\ activeChannels_ \subseteq Channels
  /\ epoll \in [Fds -> Registrations]
  /\ ready \subseteq Fds \X Events
  /\ fatal \in BOOLEAN

\* epoll_ctl never refuses an ADD or a MOD (EPollPoller.cc:131-139): no order
\* of enabling, disabling, removing, destroying and constructing Channels on
\* recycled descriptors brings the process down.
NeverFatal == ~fatal

\* The kernel watches each Channel for the events_ it asks for when index_
\* says so, and not at all otherwise; channels_ knows it from its first update
\* to its removal (EPollPoller.cc:67-109).
KernelMatchesChannels ==
  \A c \in Channels : Live(c) =>
    /\ index_[c] = "kAdded" => epoll[fd_[c]] = [ptr |-> c, events |-> events_[c]]
    /\ index_[c] # "kAdded" => ~Registered(fd_[c])
    /\ index_[c] # "kNew" <=> HasChannel(c)

\* No Channel pointer outlives its Channel (TcpServer.cc:116 is why): what the
\* kernel, channels_ and the rest of the dispatch hold are live Channels, on
\* the descriptor they are filed under.
NoStalePointers ==
  /\ \A fd \in Fds : Registered(fd) => fd_[epoll[fd].ptr] = fd
  /\ \A fd \in Fds : channels_[fd] # NoChannel => fd_[channels_[fd]] = fd
  /\ \A c \in activeChannels_ : Live(c)

\* The event the Channel waits for has happened.
Due(c, e) ==
  /\ Live(c)
  /\ index_[c] # "kNew"
  /\ e \in events_[c]
  /\ <<fd_[c], e>> \in ready

\* No Channel starves (EPollPoller.cc:40-44): an event that a Channel waits for
\* and that lasts is reported to it, however many descriptors are ready and
\* however the kernel chooses among them, because the array keeps growing.
EventuallyReported ==
  \A c \in Channels, e \in Events :
    Due(c, e) ~> ((c \in activeChannels_ /\ e \in revents_[c]) \/ ~Due(c, e))
==============================================================================
