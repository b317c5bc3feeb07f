-------------------------- MODULE EPollPollerProofs --------------------------
(***************************************************************************)
(* Theorems about EPollPoller, for any set of Channels and descriptors.    *)
(***************************************************************************)
EXTENDS EPollPoller, TLAPS

(***************************************************************************)
(* NeverFatal rests on the agreement of index_, channels_ and the kernel,  *)
(* which in turn rests on two live Channels never sharing a descriptor and *)
(* on nothing being destroyed while a dispatch still holds it.             *)
(***************************************************************************)
OneChannelPerFd ==
  \A c, d \in Channels : Live(c) /\ fd_[c] = fd_[d] => c = d

ActiveStayRegistered ==
  /\ \A c \in activeChannels_ : index_[c] # "kNew"
  /\ phase # "dispatch" => activeChannels_ = {}

UnusedAreBlank ==
  /\ \A c \in Channels : ~Live(c) => index_[c] = "kNew"
  /\ \A fd \in Fds : ~Registered(fd) => epoll[fd].events = {}

PollerInv ==
  /\ TypeOK
  /\ UnusedAreBlank
  /\ OneChannelPerFd
  /\ ActiveStayRegistered
  /\ KernelMatchesChannels
  /\ NoStalePointers
  /\ NeverFatal

\* Registration entries and what is registered, whatever the epoll set.
LEMMA EntryProperties ==
  /\ NotRegistered \in Registrations
  /\ NotRegistered.ptr = NoChannel /\ NotRegistered.events = {}
  /\ \A c \in Channels, es \in SUBSET Events :
       /\ [ptr |-> c, events |-> es] \in Registrations
       /\ [ptr |-> c, events |-> es].ptr # NoChannel
BY ConstantsAssumption DEF NotRegistered, Registrations

\* Changing events_ keeps the agreement, whichever way updateChannel goes.
LEMMA SetEventsKeepsInv ==
  ASSUME PollerInv, NEW c \in Channels, NEW es \in SUBSET Events,
         SetEvents(c, es)
  PROVE  PollerInv'
<1> USE DEF PollerInv, Live
<1>1. /\ fd_[c] \in Fds /\ fd_[c] # NoFd
      /\ fd_' = fd_ /\ phase' = phase /\ activeChannels_' = activeChannels_
      /\ revents_' = revents_ /\ eventListSize' = eventListSize /\ ready' = ready
      /\ events_' = [events_ EXCEPT ![c] = es] /\ events_'[c] = es
      /\ UpdateChannel(c)
  BY DEF SetEvents, TypeOK
<1>2. /\ index_' = [index_ EXCEPT ![c] = index_'[c]]
      /\ index_'[c] \in {"kAdded", "kDeleted"}
  BY <1>1 DEF UpdateChannel, TypeOK
<1>3. channels_' = [channels_ EXCEPT ![fd_[c]] = c]
  BY <1>1 DEF UpdateChannel, KernelMatchesChannels, HasChannel, TypeOK, Indexes
<1>4. /\ fatal' = FALSE
      /\ epoll' = [epoll EXCEPT ![fd_[c]] =
                     IF index_'[c] = "kAdded" THEN [ptr |-> c, events |-> es]
                                              ELSE NotRegistered]
  <2>1. CASE index_[c] # "kAdded"
    <3>1. Update("ADD", c, es) /\ index_'[c] = "kAdded"
      BY <1>1, <2>1 DEF UpdateChannel, TypeOK
    <3>2. ~Registered(fd_[c])
      BY <1>1, <2>1 DEF KernelMatchesChannels
    <3>3. QED
      BY <3>1, <3>2 DEF Update, CtlRefused
  <2>2. CASE index_[c] = "kAdded"
    <3>1. Registered(fd_[c])
      <4>1. epoll[fd_[c]] = [ptr |-> c, events |-> events_[c]]
        BY <1>1, <2>2 DEF KernelMatchesChannels
      <4>2. QED
        BY <4>1, ConstantsAssumption DEF Registered
    <3>2. CASE es = {}
      <4>1. Update("DEL", c, {}) /\ index_'[c] = "kDeleted"
        BY <1>1, <2>2, <3>2 DEF UpdateChannel, TypeOK
      <4>2. QED
        BY <3>1, <4>1 DEF Update, CtlRefused
    <3>3. CASE es # {}
      <4>1. Update("MOD", c, es) /\ index_'[c] = "kAdded"
        BY <1>1, <2>2, <3>3 DEF UpdateChannel, TypeOK
      <4>2. QED
        BY <3>1, <4>1 DEF Update, CtlRefused
    <3>4. QED
      BY <3>2, <3>3
  <2>3. QED
    BY <2>1, <2>2
<1>5. TypeOK'
  BY <1>1, <1>2, <1>3, <1>4, EntryProperties DEF TypeOK, Indexes
<1>6. OneChannelPerFd' /\ ActiveStayRegistered' /\ NeverFatal'
  BY <1>1, <1>2, <1>4 DEF OneChannelPerFd, ActiveStayRegistered, NeverFatal, TypeOK
<1>7. KernelMatchesChannels'
  <2> SUFFICES ASSUME NEW d \in Channels, fd_[d] # NoFd
               PROVE  /\ index_'[d] = "kAdded" =>
                           epoll'[fd_[d]] = [ptr |-> d, events |-> events_'[d]]
                      /\ index_'[d] # "kAdded" => epoll'[fd_[d]].ptr = NoChannel
                      /\ index_'[d] # "kNew" <=> channels_'[fd_[d]] = d
    BY <1>1 DEF KernelMatchesChannels, Registered, HasChannel
  <2>1. CASE d = c
    BY <1>1, <1>2, <1>3, <1>4, <2>1, EntryProperties DEF TypeOK
  <2>2. CASE d # c
    <3>1. fd_[d] # fd_[c] /\ fd_[d] \in Fds
      BY <2>2 DEF OneChannelPerFd, TypeOK
    <3>2. /\ epoll'[fd_[d]] = epoll[fd_[d]] /\ channels_'[fd_[d]] = channels_[fd_[d]]
          /\ index_'[d] = index_[d] /\ events_'[d] = events_[d]
      BY <1>1, <1>2, <1>3, <1>4, <2>2, <3>1 DEF TypeOK
    <3>3. QED
      BY <3>2 DEF KernelMatchesChannels, Registered, HasChannel
  <2>3. QED
    BY <2>1, <2>2
<1>8. NoStalePointers'
  BY <1>1, <1>3, <1>4, EntryProperties DEF NoStalePointers, Registered, TypeOK
<1>9. UnusedAreBlank'
  BY <1>1, <1>2, <1>4, EntryProperties DEF Registered, UnusedAreBlank, TypeOK
<1>10. QED
  BY <1>5, <1>6, <1>7, <1>8, <1>9
------------------------------------------------------------------------------
\* removeChannel takes all three records of a registration away.
LEMMA RemoveKeepsInv ==
  ASSUME PollerInv, NEW c \in Channels, RemoveChannel(c)
  PROVE  PollerInv'
<1> USE DEF PollerInv, Live
<1>1. /\ fd_[c] \in Fds /\ fd_[c] # NoFd
      /\ fd_' = fd_ /\ phase' = phase /\ activeChannels_' = activeChannels_
      /\ revents_' = revents_ /\ eventListSize' = eventListSize /\ ready' = ready
      /\ events_' = events_
      /\ channels_' = [channels_ EXCEPT ![fd_[c]] = NoChannel]
      /\ index_' = [index_ EXCEPT ![c] = "kNew"]
      /\ activeChannels_ = {}
  BY DEF RemoveChannel, TypeOK, ActiveStayRegistered
<1>2. /\ fatal' = FALSE /\ epoll' \in [Fds -> Registrations]
      /\ epoll'[fd_[c]].ptr = NoChannel /\ epoll'[fd_[c]].events = {}
      /\ \A fd \in Fds \ {fd_[c]} : epoll'[fd] = epoll[fd]
  <2>1. CASE index_[c] = "kAdded"
    <3>1. Registered(fd_[c])
      <4>1. epoll[fd_[c]] = [ptr |-> c, events |-> events_[c]]
        BY <1>1, <2>1 DEF KernelMatchesChannels
      <4>2. QED
        BY <4>1, ConstantsAssumption DEF Registered
    <3>2. Update("DEL", c, {})
      BY <2>1 DEF RemoveChannel
    <3>3. /\ fatal' = FALSE
          /\ epoll' = [epoll EXCEPT ![fd_[c]] = NotRegistered]
      BY <3>1, <3>2 DEF Update, CtlRefused
    <3>4. QED
      BY <1>1, <3>3, EntryProperties DEF TypeOK
  <2>2. CASE index_[c] # "kAdded"
    <3>1. epoll' = epoll /\ fatal' = fatal
      BY <2>2 DEF RemoveChannel
    <3>2. ~Registered(fd_[c])
      BY <1>1, <2>2 DEF KernelMatchesChannels
    <3>3. fatal = FALSE
      BY Zenon DEF TypeOK, NeverFatal
    <3>4. QED
      BY <1>1, <3>1, <3>2, <3>3 DEF Registered, TypeOK, UnusedAreBlank
  <2>3. QED
    BY <2>1, <2>2
<1>3. TypeOK'
  BY <1>1, <1>2 DEF TypeOK, Indexes
<1>4. OneChannelPerFd' /\ ActiveStayRegistered' /\ NeverFatal'
  BY <1>1, <1>2 DEF OneChannelPerFd, ActiveStayRegistered, NeverFatal
<1>5. KernelMatchesChannels'
  <2> SUFFICES ASSUME NEW d \in Channels, fd_[d] # NoFd
               PROVE  /\ index_'[d] = "kAdded" =>
                           epoll'[fd_[d]] = [ptr |-> d, events |-> events_[d]]
                      /\ index_'[d] # "kAdded" => epoll'[fd_[d]].ptr = NoChannel
                      /\ index_'[d] # "kNew" <=> channels_'[fd_[d]] = d
    BY <1>1 DEF KernelMatchesChannels, Registered, HasChannel
  <2>1. CASE d = c
    BY <1>1, <1>2, <2>1, ConstantsAssumption DEF TypeOK
  <2>2. CASE d # c
    <3>1. fd_[d] # fd_[c] /\ fd_[d] \in Fds
      BY <2>2 DEF OneChannelPerFd, TypeOK
    <3>2. /\ epoll'[fd_[d]] = epoll[fd_[d]] /\ channels_'[fd_[d]] = channels_[fd_[d]]
          /\ index_'[d] = index_[d]
      BY <1>1, <1>2, <2>2, <3>1 DEF TypeOK
    <3>3. QED
      BY <3>2 DEF KernelMatchesChannels, Registered, HasChannel
  <2>3. QED
    BY <2>1, <2>2
<1>6. NoStalePointers'
  BY <1>1, <1>2 DEF NoStalePointers, Registered, TypeOK
<1>7. UnusedAreBlank'
  BY <1>1, <1>2 DEF Registered, UnusedAreBlank, TypeOK
<1>8. QED
  BY <1>3, <1>4, <1>5, <1>6, <1>7

\* With ~Live(c), c has neither a registration nor a place in a dispatch.
LEMMA ConstructKeepsInv ==
  ASSUME PollerInv, NEW c \in Channels, NEW fd \in Fds, Construct(c, fd)
  PROVE  PollerInv'
<1> USE DEF PollerInv, Construct, channelVars, Live
<1>1. \A d \in Channels : fd_[d] # fd
  BY ConstantsAssumption DEF OpenFds
<1>2. TypeOK'
  BY DEF TypeOK
<1>3. OneChannelPerFd' /\ ActiveStayRegistered' /\ NeverFatal'
  BY <1>1 DEF OneChannelPerFd, ActiveStayRegistered, NeverFatal, TypeOK
\* The descriptor is free: nothing is registered or filed under it.
<1>4. ~Registered(fd) /\ channels_[fd] = NoChannel
  BY <1>1, ConstantsAssumption DEF NoStalePointers, Registered, TypeOK, Registrations
<1>5. KernelMatchesChannels'
  <2>1. index_[c] = "kNew"
    BY DEF UnusedAreBlank
  <2>2. QED
    BY <1>4, <2>1, ConstantsAssumption
       DEF KernelMatchesChannels, HasChannel, Registered, TypeOK
<1>6. NoStalePointers'
  <2>1. ASSUME NEW f \in Fds, epoll[f].ptr # NoChannel
        PROVE  fd_'[epoll[f].ptr] = f
    <3>1. epoll[f].ptr \in Channels /\ fd_[epoll[f].ptr] = f
      BY <2>1 DEF NoStalePointers, Registered, TypeOK, Registrations
    <3>2. QED
      BY <3>1, ConstantsAssumption DEF TypeOK
  <2>2. ASSUME NEW f \in Fds, channels_[f] # NoChannel
        PROVE  fd_'[channels_[f]] = f
    <3>1. channels_[f] \in Channels /\ fd_[channels_[f]] = f
      BY <2>2 DEF NoStalePointers, TypeOK
    <3>2. QED
      BY <3>1, ConstantsAssumption DEF TypeOK
  <2>3. \A d \in activeChannels_ : fd_'[d] # NoFd
    BY ConstantsAssumption DEF NoStalePointers, TypeOK
  <2>4. QED
    BY <2>1, <2>2, <2>3 DEF NoStalePointers, Registered
<1>7. UnusedAreBlank'
  BY DEF Registered, UnusedAreBlank, TypeOK
<1>8. QED
  BY <1>2, <1>3, <1>5, <1>6, <1>7

\* A Channel that is destroyed has been removed, so nothing points to it.
LEMMA DestroyKeepsInv ==
  ASSUME PollerInv, NEW c \in Channels, Destroy(c)
  PROVE  PollerInv'
<1> USE DEF PollerInv, Live
<1>1. /\ fd_[c] \in Fds /\ fd_[c] # NoFd /\ index_[c] = "kNew"
      /\ fd_' = [fd_ EXCEPT ![c] = NoFd]
      /\ events_' = [events_ EXCEPT ![c] = {}]
      /\ revents_' = [revents_ EXCEPT ![c] = {}]
      /\ epoll' = [epoll EXCEPT ![fd_[c]] = NotRegistered]
      /\ ready' \subseteq ready
      /\ UNCHANGED <<phase, index_, channels_, eventListSize, activeChannels_, fatal>>
  BY DEF Destroy, TypeOK
<1>2. TypeOK'
  BY <1>1, EntryProperties DEF TypeOK
<1>3. OneChannelPerFd' /\ ActiveStayRegistered' /\ NeverFatal'
  BY <1>1, ConstantsAssumption
     DEF OneChannelPerFd, ActiveStayRegistered, NeverFatal, TypeOK
<1>4. \A d \in Channels : fd_'[d] # NoFd =>
        d # c /\ fd_'[d] = fd_[d] /\ fd_[d] # fd_[c] /\ fd_[d] \in Fds
  BY <1>1 DEF OneChannelPerFd, TypeOK
<1>5. KernelMatchesChannels'
  BY <1>1, <1>4 DEF KernelMatchesChannels, HasChannel, Registered, TypeOK
\* c was nowhere: not with the kernel, not in channels_, not in a dispatch.
<1>6. c \notin activeChannels_ /\ channels_[fd_[c]] # c
  BY <1>1 DEF ActiveStayRegistered, KernelMatchesChannels, HasChannel
<1>7. NoStalePointers'
  <2>1. ASSUME NEW fd \in Fds, (epoll[fd].ptr # NoChannel)'
        PROVE  fd_'[epoll'[fd].ptr] = fd
    <3>1. fd # fd_[c] /\ epoll'[fd] = epoll[fd]
      BY <1>1, <2>1, EntryProperties DEF TypeOK
    <3>2. fd_[epoll[fd].ptr] = fd /\ epoll[fd].ptr \in Channels
      BY <2>1, <3>1 DEF NoStalePointers, Registered, TypeOK, Registrations
    <3>3. QED
      BY <1>1, <3>1, <3>2 DEF TypeOK
  <2>2. ASSUME NEW fd \in Fds, channels_[fd] # NoChannel
        PROVE  fd_'[channels_[fd]] = fd
    <3>1. channels_[fd] \in Channels /\ fd_[channels_[fd]] = fd
      BY <2>2 DEF NoStalePointers, TypeOK
    <3>2. channels_[fd] # c
      BY <1>6, <3>1
    <3>3. QED
      BY <1>1, <3>1, <3>2 DEF TypeOK
  <2>3. \A d \in activeChannels_ : fd_'[d] # NoFd
    BY <1>1, <1>6 DEF NoStalePointers, TypeOK
  <2>4. QED
    BY <1>1, <2>1, <2>2, <2>3 DEF NoStalePointers, Registered
<1>8. UnusedAreBlank'
  BY <1>1, EntryProperties DEF Registered, UnusedAreBlank, TypeOK
<1>9. QED
  BY <1>2, <1>3, <1>5, <1>7, <1>8
------------------------------------------------------------------------------
\* What epoll_wait reports are the pointers it was given.
LEMMA PollKeepsInv ==
  ASSUME PollerInv, NEW reported \in SUBSET Fds, Poll(reported)
  PROVE  PollerInv'
<1> USE DEF PollerInv, Live
<1>1. /\ activeChannels_' = {epoll[fd].ptr : fd \in reported}
      /\ phase' = "dispatch"
      /\ UNCHANGED <<fd_, events_, index_, channels_, epoll, ready, fatal>>
  BY DEF Poll
<1>2. eventListSize' \in Nat \ {0}
  BY DEF Poll, GrownSize, TypeOK
<1>3. \A fd \in reported : epoll[fd].ptr \in Channels /\ fd_[epoll[fd].ptr] = fd
  <2> SUFFICES ASSUME NEW fd \in reported
               PROVE  epoll[fd].ptr \in Channels /\ fd_[epoll[fd].ptr] = fd
    OBVIOUS
  <2>1. Pending(fd) # {}
    BY DEF Poll
  <2>2. Registered(fd)
    BY <2>1 DEF Pending, UnusedAreBlank
  <2>3. QED
    BY <2>2 DEF NoStalePointers, Registered, TypeOK, Registrations
<1>4. \A c \in activeChannels_' : c \in Channels /\ fd_[c] \in Fds /\ index_[c] # "kNew"
  <2> SUFFICES ASSUME NEW fd \in reported
               PROVE  LET c == epoll[fd].ptr
                      IN  c \in Channels /\ fd_[c] \in Fds /\ index_[c] # "kNew"
    BY <1>1
  <2>1. fd_[epoll[fd].ptr] = fd /\ fd # NoFd /\ epoll[fd].ptr # NoChannel
    BY <1>3, ConstantsAssumption
  <2>2. ~(index_[epoll[fd].ptr] # "kAdded")
    BY <1>3, <2>1 DEF KernelMatchesChannels, Registered
  <2>3. QED
    BY <1>3, <2>1, <2>2
<1>5. revents_' \in [Channels -> SUBSET Events]
  <2>1. \A c \in activeChannels_' : Pending(fd_[c]) \in SUBSET Events
    BY <1>4 DEF Pending, TypeOK, Registrations
  <2>2. QED
    BY <2>1 DEF Poll, TypeOK
<1>6. TypeOK'
  BY <1>1, <1>2, <1>4, <1>5 DEF TypeOK
<1>7. KernelMatchesChannels' /\ OneChannelPerFd' /\ UnusedAreBlank' /\ NeverFatal'
  BY <1>1 DEF KernelMatchesChannels, HasChannel, Registered, OneChannelPerFd,
              UnusedAreBlank, NeverFatal
<1>8. ActiveStayRegistered' /\ NoStalePointers'
  BY <1>1, <1>4, ConstantsAssumption
     DEF ActiveStayRegistered, NoStalePointers, Registered
<1>9. QED
  BY <1>6, <1>7, <1>8

\* The steps that leave the Channels, channels_ and the kernel's list alone.
LEMMA OtherStepsKeepInv ==
  ASSUME PollerInv,
         UNCHANGED <<fd_, events_, revents_, index_, channels_, eventListSize,
                     epoll, fatal>>,
         activeChannels_' \subseteq activeChannels_,
         ready' \subseteq Fds \X Events,
         phase' \in {"poll", "dispatch", "functors"},
         phase' # "dispatch" => activeChannels_' = {}
  PROVE  PollerInv'
BY DEF PollerInv, TypeOK, UnusedAreBlank, OneChannelPerFd, ActiveStayRegistered,
       KernelMatchesChannels, NoStalePointers, NeverFatal, Live, HasChannel, Registered

\* Every step keeps the invariant.
LEMMA PollerInvInductive ==
  ASSUME PollerInv, [Next]_vars
  PROVE  PollerInv'
<1> USE DEF PollerInv
<1>1. ASSUME NEW c \in Channels, ChannelCall(c)
      PROVE  PollerInv'
  <2>1. CASE RemoveChannel(c)
    BY <2>1, RemoveKeepsInv
  <2>2. CASE ~RemoveChannel(c)
    <3>1. events_[c] \in SUBSET Events
      BY DEF TypeOK
    <3>2. PICK es \in SUBSET Events : SetEvents(c, es)
      BY <1>1, <2>2, <3>1
         DEF ChannelCall, EnableReading, DisableReading, EnableWriting,
             DisableWriting, DisableAll, Events
    <3>3. QED
      BY <3>2, SetEventsKeepsInv
  <2>3. QED
    BY <2>1, <2>2
<1>2. ASSUME NEW c \in Channels, NEW fd \in Fds, Construct(c, fd)
      PROVE  PollerInv'
  BY <1>2, ConstructKeepsInv
<1>3. ASSUME NEW c \in Channels, Destroy(c)
      PROVE  PollerInv'
  BY <1>3, DestroyKeepsInv
<1>4. ASSUME NEW fd \in Fds, NEW e \in Events, ReadyChanges(fd, e)
      PROVE  PollerInv'
  BY <1>4, OtherStepsKeepInv
     DEF ReadyChanges, channelVars, TypeOK, ActiveStayRegistered
<1>5. ASSUME NEW reported \in SUBSET Fds, Poll(reported)
      PROVE  PollerInv'
  BY <1>5, PollKeepsInv
<1>6. ASSUME NEW c \in Channels, Dispatch(c)
      PROVE  PollerInv'
  BY <1>6, OtherStepsKeepInv DEF Dispatch, channelVars, TypeOK
<1>7. CASE EndDispatch \/ EndFunctors \/ UNCHANGED vars
  BY <1>7, OtherStepsKeepInv
     DEF EndDispatch, EndFunctors, vars, channelVars, TypeOK, ActiveStayRegistered
<1>8. QED
  BY <1>1, <1>2, <1>3, <1>4, <1>5, <1>6, <1>7 DEF Next, LoopStep, Environment

\* The invariant holds.
LEMMA PollerInvHolds == SafetySpec => []PollerInv
<1>1. Init => PollerInv
  BY ConstantsAssumption, EntryProperties
     DEF Init, PollerInv, TypeOK, UnusedAreBlank, OneChannelPerFd,
         ActiveStayRegistered, KernelMatchesChannels, NoStalePointers, NeverFatal,
         Live, HasChannel, Registered, Indexes
<1>2. PollerInv /\ [Next]_vars => PollerInv'
  BY PollerInvInductive
<1>3. QED
  BY <1>1, <1>2, PTL DEF SafetySpec
------------------------------------------------------------------------------
\* TypeOK (Channel.h:96-99, Poller.h:35): every variable keeps its type,
\* for any number of Channels and descriptors.
THEOREM TypeCorrect == SafetySpec => []TypeOK
BY PollerInvHolds, PTL DEF PollerInv

\* epoll_ctl never refuses an ADD or a MOD, so update() never reaches
\* LOG_FATAL (EPollPoller.cc:131-139), for any number of Channels and any reuse
\* of descriptors.
THEOREM NeverFatalHolds == SafetySpec => []NeverFatal
BY PollerInvHolds, PTL DEF PollerInv

\* index_, events_, channels_ and the kernel's interest list tell the same
\* story (EPollPoller.cc:67-109).
THEOREM KernelMatchesChannelsHolds == SafetySpec => []KernelMatchesChannels
BY PollerInvHolds, PTL DEF PollerInv

\* No pointer to a destroyed Channel is left with the kernel, in channels_ or
\* in a dispatch, given that removal waits for the functors (TcpServer.cc:116).
THEOREM NoStalePointersHolds == SafetySpec => []NoStalePointers
BY PollerInvHolds, PTL DEF PollerInv
==============================================================================
