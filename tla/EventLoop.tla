------------------------------ MODULE EventLoop ------------------------------
(***************************************************************************)
(* EventLoop: one thread that runs loop(), and other threads that hand it  *)
(* functors through queueInLoop/runInLoop or stop it through quit().       *)
(*                                                                         *)
(* The unit of interleaving is one access to what the threads share:       *)
(* pendingFunctors_ (a critical section of mutex_), quit_ (atomic) and the *)
(* eventfd wakeupFd_ (one system call).  What the loop's thread does to    *)
(* its own data between two such accesses belongs to the same step.        *)
(***************************************************************************)
EXTENDS Sequences, FiniteSets

CONSTANTS
  Threads,      \* the threads other than the loop's own that call into it
  Tasks,        \* the functors, each handed over at most once
  SetupTasks,   \* those the loop's own thread may queue before calling loop()
  IoChannels,   \* the channels of the loop's poller, wakeupChannel_ excepted
  Wakeup        \* wakeupChannel_

ASSUME ConstantsAssumption ==
  /\ SetupTasks \subseteq Tasks
  /\ Wakeup \notin IoChannels

VARIABLES
  pc,                       \* where the loop's thread is in loop()
  quit_,
  callingPendingFunctors_,
  pendingFunctors_,
  functors,                 \* the local vector of doPendingFunctors, what is left of it
  activeChannels_,          \* the channels poll reported and not yet dispatched
  wakeupFd_,                \* whether the eventfd's counter is above zero
  owes,                     \* threads between their push or quit_ = true and wakeup()
  handed,                   \* history: the functors handed over so far
  ran                       \* history: the functors run so far, in order

vars == <<pc, quit_, callingPendingFunctors_, pendingFunctors_, functors,
          activeChannels_, wakeupFd_, owes, handed, ran>>

(***************************************************************************)
(* The points of loop() and doPendingFunctors().                           *)
(*   idle     constructed, loop() not called yet                           *)
(*   test     about to evaluate while (!quit_)                             *)
(*   poll     in epoll_wait                                                *)
(*   handle   between two channels of activeChannels_                      *)
(*   handler  in the callback of an I/O channel                            *)
(*   swap     callingPendingFunctors_ set, vector not swapped yet          *)
(*   run      between two functors                                         *)
(*   functor  in a functor                                                 *)
(*   stopped  loop() has returned                                          *)
(***************************************************************************)
Points == {"idle", "test", "poll", "handle", "handler", "swap", "run",
           "functor", "stopped"}

\* User code runs on the loop's thread: a channel's callback or a functor.
InUserCode == pc \in {"handler", "functor"}

Init ==
  /\ pc = "idle"
  /\ quit_ = FALSE
  /\ callingPendingFunctors_ = FALSE
  /\ pendingFunctors_ = <<>>
  /\ functors = <<>>
  /\ activeChannels_ = {}
  /\ wakeupFd_ = FALSE
  /\ owes = {}
  /\ handed = {}
  /\ ran = <<>>
------------------------------------------------------------------------------
(***************************************************************************)
(* The loop's own steps.                                                   *)
(***************************************************************************)

\* loop() starts by resetting quit_, whatever it was.
StartLoop ==
  /\ pc = "idle"
  /\ quit_' = FALSE
  /\ pc' = "test"
  /\ UNCHANGED <<callingPendingFunctors_, pendingFunctors_, functors,
                 activeChannels_, wakeupFd_, owes, handed, ran>>

\* while (!quit_): either another turn, into epoll_wait, or out of loop().
TestQuit ==
  /\ pc = "test"
  /\ pc' = IF quit_ THEN "stopped" ELSE "poll"
  /\ UNCHANGED <<quit_, callingPendingFunctors_, pendingFunctors_, functors,
                 activeChannels_, wakeupFd_, owes, handed, ran>>

\* epoll_wait returns the ready channels: those I/O channels `io` that have
\* events, and wakeupChannel_ exactly when the eventfd is readable.
PollReturns(io) ==
  /\ pc = "poll"
  /\ activeChannels_' = io \union (IF wakeupFd_ THEN {Wakeup} ELSE {})
  /\ activeChannels_' # {}
  /\ pc' = "handle"
  /\ UNCHANGED <<quit_, callingPendingFunctors_, pendingFunctors_, functors,
                 wakeupFd_, owes, handed, ran>>

\* epoll_wait gives up after kPollTimes, or on EINTR, with nothing ready.
PollTimesOut ==
  /\ pc = "poll"
  /\ ~wakeupFd_
  /\ pc' = "handle"
  /\ UNCHANGED <<quit_, callingPendingFunctors_, pendingFunctors_, functors,
                 activeChannels_, wakeupFd_, owes, handed, ran>>

\* EventLoop::handleRead, the callback of wakeupChannel_: one read empties
\* the eventfd however many wakeups were written to it.
HandleWakeup ==
  /\ pc = "handle"
  /\ Wakeup \in activeChannels_
  /\ activeChannels_' = activeChannels_ \ {Wakeup}
  /\ wakeupFd_' = FALSE
  /\ UNCHANGED <<pc, quit_, callingPendingFunctors_, pendingFunctors_,
                 functors, owes, handed, ran>>

\* handleEvent of an I/O channel enters the callback...
EnterHandler(c) ==
  /\ pc = "handle"
  /\ c \in activeChannels_ \ {Wakeup}
  /\ activeChannels_' = activeChannels_ \ {c}
  /\ pc' = "handler"
  /\ UNCHANGED <<quit_, callingPendingFunctors_, pendingFunctors_, functors,
                 wakeupFd_, owes, handed, ran>>

\* ... and comes back from it.
LeaveHandler ==
  /\ pc = "handler"
  /\ pc' = "handle"
  /\ UNCHANGED <<quit_, callingPendingFunctors_, pendingFunctors_, functors,
                 activeChannels_, wakeupFd_, owes, handed, ran>>

\* doPendingFunctors, first statement.
BeginPending ==
  /\ pc = "handle"
  /\ activeChannels_ = {}
  /\ callingPendingFunctors_' = TRUE
  /\ pc' = "swap"
  /\ UNCHANGED <<quit_, pendingFunctors_, functors, activeChannels_,
                 wakeupFd_, owes, handed, ran>>

\* Mutant: the vector is copied out instead of swapped.
CopyFunctors ==
  /\ pc = "swap"
  /\ functors' = pendingFunctors_
  /\ pc' = "run"
  /\ UNCHANGED <<quit_, callingPendingFunctors_, pendingFunctors_,
                 activeChannels_, wakeupFd_, owes, handed, ran>>

\* Its critical section.
SwapFunctors ==
  /\ pc = "swap"
  /\ functors' = pendingFunctors_
  /\ pendingFunctors_' = <<>>
  /\ pc' = "run"
  /\ UNCHANGED <<quit_, callingPendingFunctors_, activeChannels_,
                 wakeupFd_, owes, handed, ran>>

\* The next functor of the batch is called...
EnterFunctor ==
  /\ pc = "run"
  /\ functors # <<>>
  /\ ran' = Append(ran, Head(functors))
  /\ functors' = Tail(functors)
  /\ pc' = "functor"
  /\ UNCHANGED <<quit_, callingPendingFunctors_, pendingFunctors_,
                 activeChannels_, wakeupFd_, owes, handed>>

\* ... and returns.
LeaveFunctor ==
  /\ pc = "functor"
  /\ pc' = "run"
  /\ UNCHANGED <<quit_, callingPendingFunctors_, pendingFunctors_, functors,
                 activeChannels_, wakeupFd_, owes, handed, ran>>

\* Mutant: the flag is never cleared.
EndPendingKeepsFlag ==
  /\ pc = "run"
  /\ functors = <<>>
  /\ pc' = "test"
  /\ UNCHANGED <<quit_, callingPendingFunctors_, pendingFunctors_, functors,
                 activeChannels_, wakeupFd_, owes, handed, ran>>

\* The batch is done: back to while (!quit_).
EndPending ==
  /\ pc = "run"
  /\ functors = <<>>
  /\ callingPendingFunctors_' = FALSE
  /\ pc' = "test"
  /\ UNCHANGED <<quit_, pendingFunctors_, functors, activeChannels_,
                 wakeupFd_, owes, handed, ran>>
------------------------------------------------------------------------------
\* Whether queueInLoop writes a wakeup after the push, and quit after the
\* store.  What follows each is the mistake its mutant makes.
QueueNeverWakesOwnThread(inLoopThread) == ~inLoopThread

QueueWakes(inLoopThread) == ~inLoopThread \/ callingPendingFunctors_

QuitWakesOwnThread(inLoopThread) == inLoopThread

QuitWakes(inLoopThread) == ~inLoopThread

(***************************************************************************)
(* Calls made on the loop's own thread.                                    *)
(***************************************************************************)

\* queueInLoop with isInLoopThread(): the wakeup is written only when called
\* from a functor.  SetupTasks are queued this way before loop().
QueueOnLoopThread(t) ==
  /\ InUserCode \/ (pc = "idle" /\ t \in SetupTasks)
  /\ t \in Tasks \ handed
  /\ handed' = handed \union {t}
  /\ pendingFunctors_' = Append(pendingFunctors_, t)
  /\ wakeupFd_' = (wakeupFd_ \/ QueueWakes(TRUE))
  /\ UNCHANGED <<pc, quit_, callingPendingFunctors_, functors,
                 activeChannels_, owes, ran>>

\* runInLoop with isInLoopThread(): the functor is called at once.
RunOnLoopThread(t) ==
  /\ InUserCode
  /\ t \in Tasks \ handed
  /\ handed' = handed \union {t}
  /\ ran' = Append(ran, t)
  /\ UNCHANGED <<pc, quit_, callingPendingFunctors_, pendingFunctors_,
                 functors, activeChannels_, wakeupFd_, owes>>

\* quit() with isInLoopThread(): no wakeup, the test comes after this turn.
QuitOnLoopThread ==
  /\ InUserCode
  /\ quit_' = TRUE
  /\ wakeupFd_' = (wakeupFd_ \/ QuitWakes(TRUE))
  /\ UNCHANGED <<pc, callingPendingFunctors_, pendingFunctors_, functors,
                 activeChannels_, owes, handed, ran>>
------------------------------------------------------------------------------
(***************************************************************************)
(* Calls made on another thread p: a first step that changes shared data,  *)
(* then wakeup().                                                          *)
(***************************************************************************)

\* queueInLoop, or runInLoop, up to the unlock of mutex_.
Push(p, t) ==
  /\ p \notin owes
  /\ t \in Tasks \ handed
  /\ handed' = handed \union {t}
  /\ pendingFunctors_' = Append(pendingFunctors_, t)
  /\ owes' = IF QueueWakes(FALSE) THEN owes \union {p} ELSE owes
  /\ UNCHANGED <<pc, quit_, callingPendingFunctors_, functors,
                 activeChannels_, wakeupFd_, ran>>

\* quit(), its store to quit_.
SetQuit(p) ==
  /\ p \notin owes
  /\ quit_' = TRUE
  /\ owes' = IF QuitWakes(FALSE) THEN owes \union {p} ELSE owes
  /\ UNCHANGED <<pc, callingPendingFunctors_, pendingFunctors_, functors,
                 activeChannels_, wakeupFd_, handed, ran>>

\* wakeup(), which ends either call: the eventfd becomes readable.
WriteWakeup(p) ==
  /\ p \in owes
  /\ wakeupFd_' = TRUE
  /\ owes' = owes \ {p}
  /\ UNCHANGED <<pc, quit_, callingPendingFunctors_, pendingFunctors_,
                 functors, activeChannels_, handed, ran>>
------------------------------------------------------------------------------
\* The steps the loop's thread takes whatever the environment does: user code
\* returns, and epoll_wait returns when the eventfd is readable.
LoopStep ==
  \/ StartLoop \/ TestQuit
  \/ (wakeupFd_ /\ PollReturns({}))
  \/ HandleWakeup
  \/ (\E c \in IoChannels : EnterHandler(c))
  \/ LeaveHandler
  \/ BeginPending \/ SwapFunctors \/ EnterFunctor \/ LeaveFunctor \/ EndPending

UserStep ==
  \/ \E t \in Tasks : QueueOnLoopThread(t) \/ RunOnLoopThread(t)
  \/ QuitOnLoopThread

OtherThread(p) ==
  \/ \E t \in Tasks : Push(p, t)
  \/ SetQuit(p)
  \/ WriteWakeup(p)

Next ==
  \/ LoopStep
  \/ UserStep
  \/ \E io \in SUBSET IoChannels : PollReturns(io)
  \/ PollTimesOut
  \/ \E p \in Threads : OtherThread(p)

SafetySpec == Init /\ [][Next]_vars

\* The scheduler runs every thread, so a thread that owes a wakeup writes it.
\* I/O events and poll timeouts are not relied on.
Fairness == WF_vars(LoopStep) /\ \A p \in Threads : WF_vars(WriteWakeup(p))

Spec == SafetySpec /\ Fairness
------------------------------------------------------------------------------
\* The variables have their types, and the flag, the batch and the active
\* channels live exactly in the parts of loop() that use them.
TypeOK ==
  /\ pc \in Points
  /\ quit_ \in BOOLEAN
  /\ callingPendingFunctors_ \in BOOLEAN
  /\ pendingFunctors_ \in Seq(Tasks)
  /\ functors \in Seq(Tasks)
  /\ activeChannels_ \subseteq IoChannels \union {Wakeup}
  /\ wakeupFd_ \in BOOLEAN
  /\ owes \subseteq Threads
  /\ handed \subseteq Tasks
  /\ ran \in Seq(Tasks)
  /\ callingPendingFunctors_ <=> pc \in {"swap", "run", "functor"}
  /\ functors # <<>> => pc \in {"run", "functor"}
  /\ activeChannels_ # {} => pc \in {"handle", "handler"}

\* Somebody has made, or is about to make, the eventfd readable.
WakeupComing == wakeupFd_ \/ owes # {}

\* The loop never sleeps on work (queueInLoop, EventLoop.cc:106-117): while it
\* is in epoll_wait and a functor is pending, the eventfd is readable or the
\* thread that pushed the functor has still to write to it.  A lost wakeup
\* would leave the functor waiting for the 10 s timeout or unrelated traffic.
NoLostWakeup ==
  pc = "poll" /\ pendingFunctors_ # <<>> => WakeupComing

\* The loop never sleeps through quit() (EventLoop.cc:83-91): a quit_ set by
\* any thread after loop() was entered is on its way to be seen.
NoLostQuit ==
  pc = "poll" /\ quit_ => WakeupComing

\* quit() ends loop() (EventLoop.cc:83-91), whoever calls it and wherever the
\* loop is, provided loop() has been entered, without waiting for a timeout.
QuitEndsLoop ==
  (quit_ /\ pc # "idle") ~> (pc = "stopped")

\* The loop implements the abstract queue: the batch of doPendingFunctors
\* followed by pendingFunctors_ is one FIFO queue, swapping neither loses,
\* duplicates nor reorders a functor, and what is queued runs unless the loop
\* is stopped first.
TQ == INSTANCE TaskQueue WITH queue <- functors \o pendingFunctors_,
                              open <- pc # "stopped"

ImplementsTaskQueue == TQ!Spec
==============================================================================
