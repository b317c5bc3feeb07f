--------------------------- MODULE EventLoopThread ---------------------------
(***************************************************************************)
(* An EventLoopThread: an owner (the thread pool) that starts a thread,    *)
(* waits for the EventLoop the thread constructs on its stack, uses it     *)
(* through the pointer startLoop() returned, and in its destructor stops   *)
(* the loop and joins the thread.                                          *)
(*                                                                         *)
(* The loop itself is EventLoop, run by the started thread; the owner is   *)
(* the one thread that calls into it from outside.                         *)
(***************************************************************************)
EXTENDS Sequences, FiniteSets

CONSTANTS
  Owner,                                  \* the owner's thread
  Tasks, SetupTasks, IoChannels, Wakeup   \* as in EventLoop

\* What EventLoop assumes of them.
ASSUME ConstantsAssumption ==
  /\ SetupTasks \subseteq Tasks
  /\ Wakeup \notin IoChannels

VARIABLES
  pc, quit_, callingPendingFunctors_, pendingFunctors_, functors,
  activeChannels_, wakeupFd_, owes, handed, ran,  \* of the EventLoop
  owner,    \* where the owner is
  child,    \* where ThreadFunc is
  loop_,    \* whether the pointer is set
  selfQuit  \* history: whether code run by the loop has called quit() on it

loopVars == <<pc, quit_, callingPendingFunctors_, pendingFunctors_, functors,
              activeChannels_, wakeupFd_, owes, handed, ran>>
vars == <<loopVars, owner, child, loop_, selfQuit>>

Loop == INSTANCE EventLoop WITH Threads <- {Owner}

(***************************************************************************)
(* owner: constructed   startLoop() not called                             *)
(*        waiting       in cond_.wait, until loop_ is set                  *)
(*        using         has the pointer                                    *)
(*        quitting      in the destructor, has found loop_ set             *)
(*        waking        between the two halves of loop_->quit()            *)
(*        joining       in thread_.join()                                  *)
(*        destroyed                                                        *)
(* child: none          no thread                                          *)
(*        init          EventLoop constructed, callback_ may run           *)
(*        looping       loop_ published; loop() to start, running or over  *)
(*        leaving       loop_ reset, mutex_ held, EventLoop still alive    *)
(*        ended         EventLoop destroyed                                *)
(***************************************************************************)
OwnerPoints == {"constructed", "waiting", "using", "quitting", "waking",
                "joining", "destroyed"}
ChildPoints == {"none", "init", "looping", "leaving", "ended"}

Init ==
  /\ Loop!Init
  /\ owner = "constructed"
  /\ child = "none"
  /\ loop_ = FALSE
  /\ selfQuit = FALSE
------------------------------------------------------------------------------
(***************************************************************************)
(* The owner.                                                              *)
(***************************************************************************)

\* startLoop(): Thread::start returns once the thread exists.
StartThread ==
  /\ owner = "constructed"
  /\ owner' = "waiting"
  /\ child' = "init"
  /\ UNCHANGED <<loopVars, loop_, selfQuit>>

\* Mutant: the pointer is returned without waiting for the thread to set it.
ReturnsAtOnce ==
  /\ owner = "waiting"
  /\ owner' = "using"
  /\ UNCHANGED <<loopVars, child, loop_, selfQuit>>

\* The wait ends when the owner, holding mutex_, sees loop_ set.
ReturnLoop ==
  /\ owner = "waiting"
  /\ loop_
  /\ owner' = "using"
  /\ UNCHANGED <<loopVars, child, loop_, selfQuit>>

\* The owner hands the loop functors.
OwnerPush(t) ==
  /\ owner = "using"
  /\ Loop!Push(Owner, t)
  /\ UNCHANGED <<owner, child, loop_, selfQuit>>

\* The wakeup() of queueInLoop or, in the destructor, of quit().
OwnerWakes ==
  /\ Loop!WriteWakeup(Owner)
  /\ owner' = IF owner = "waking" THEN "joining" ELSE owner
  /\ UNCHANGED <<child, loop_, selfQuit>>

\* ~EventLoopThread reads loop_ without the lock.  Where it is null the thread
\* was never started or has left loop(); it is not joined but detached.
Destroy ==
  /\ owner \in {"constructed", "using"}
  /\ Owner \notin owes
  /\ owner' = IF loop_ THEN "quitting" ELSE "destroyed"
  /\ UNCHANGED <<loopVars, child, loop_, selfQuit>>

\* loop_->quit(), the store.
DestroyQuits ==
  /\ owner = "quitting"
  /\ Loop!SetQuit(Owner)
  /\ owner' = IF Owner \in owes' THEN "waking" ELSE "joining"
  /\ UNCHANGED <<child, loop_, selfQuit>>

\* Mutant: the destructor does not wait for the thread.
JoinsNothing ==
  /\ owner = "joining"
  /\ owner' = "destroyed"
  /\ UNCHANGED <<loopVars, child, loop_, selfQuit>>

\* thread_.join().
Join ==
  /\ owner = "joining"
  /\ child = "ended"
  /\ owner' = "destroyed"
  /\ UNCHANGED <<loopVars, child, loop_, selfQuit>>
------------------------------------------------------------------------------
(***************************************************************************)
(* ThreadFunc.                                                             *)
(***************************************************************************)

\* callback_(&loop) may queue functors for the loop that is to start.
InitCallback(t) ==
  /\ child = "init"
  /\ Loop!QueueOnLoopThread(t)
  /\ UNCHANGED <<owner, child, loop_, selfQuit>>

\* Mutant: the thread enters loop() without publishing its loop.
PublishNothing ==
  /\ child = "init"
  /\ child' = "looping"
  /\ UNCHANGED <<loopVars, owner, loop_, selfQuit>>

\* Under mutex_: loop_ = &loop, and the owner is notified.
Publish ==
  /\ child = "init"
  /\ child' = "looping"
  /\ loop_' = TRUE
  /\ UNCHANGED <<loopVars, owner, selfQuit>>

\* loop.loop(): what the loop does whatever its environment does...
LoopRuns ==
  /\ child = "looping"
  /\ Loop!LoopStep
  /\ UNCHANGED <<owner, child, loop_, selfQuit>>

\* ... and what depends on I/O, on time, and on the code it calls.
LoopReacts ==
  /\ child = "looping"
  /\ \/ /\ \/ \E io \in SUBSET IoChannels : Loop!PollReturns(io)
           \/ Loop!PollTimesOut
           \/ \E t \in Tasks : Loop!InUserCode /\ Loop!QueueOnLoopThread(t)
           \/ \E t \in Tasks : Loop!RunOnLoopThread(t)
        /\ UNCHANGED selfQuit
     \/ Loop!QuitOnLoopThread /\ selfQuit' = TRUE
  /\ UNCHANGED <<owner, child, loop_>>

\* Mutant: the thread drops its loop without going through loop_ = nullptr.
LeavesPointer ==
  /\ child = "looping"
  /\ pc = "stopped"
  /\ child' = "leaving"
  /\ UNCHANGED <<loopVars, owner, loop_, selfQuit>>

\* loop() has returned: under mutex_, loop_ = nullptr.
ClearPointer ==
  /\ child = "looping"
  /\ pc = "stopped"
  /\ child' = "leaving"
  /\ loop_' = FALSE
  /\ UNCHANGED <<loopVars, owner, selfQuit>>

\* mutex_ is released, the EventLoop on the stack destroyed, the thread ends.
EndThread ==
  /\ child = "leaving"
  /\ child' = "ended"
  /\ UNCHANGED <<loopVars, owner, loop_, selfQuit>>
------------------------------------------------------------------------------
ChildStep == Publish \/ LoopRuns \/ ClearPointer \/ EndThread

OwnerStep == ReturnLoop \/ OwnerWakes \/ DestroyQuits \/ Join

Next ==
  \/ ChildStep
  \/ OwnerStep
  \/ StartThread
  \/ Destroy
  \/ \E t \in Tasks : OwnerPush(t)
  \/ \E t \in SetupTasks : InitCallback(t)
  \/ LoopReacts

SafetySpec == Init /\ [][Next]_vars

\* Both threads run; when the owner starts the thread or destroys the object is
\* its own affair, and I/O and poll timeouts are not relied on.
Spec == SafetySpec /\ WF_vars(ChildStep) /\ WF_vars(OwnerStep)
------------------------------------------------------------------------------
\* The EventLoop's variables and those added here have their types; loop_ is
\* set while the thread is between its two critical sections, and the thread
\* exists once startLoop() was called.
TypeOK ==
  /\ Loop!TypeOK
  /\ owner \in OwnerPoints
  /\ child \in ChildPoints
  /\ loop_ <=> child = "looping"
  /\ child = "none" => owner \in {"constructed", "destroyed"}
  /\ selfQuit \in BOOLEAN

\* The owner never calls into a loop that does not exist: from startLoop's
\* return (EventLoopThread.cc:28-36) until the destructor's quit() the
\* EventLoop on the thread's stack is alive, provided the loop is not stopped
\* by code it runs itself.
LoopOutlivesCalls ==
  ~selfQuit /\ owner \in {"using", "quitting"} => child \in {"looping", "leaving"}

\* mymuduo_notes.md:500-501: the destructor tells the loop to stop and waits
\* for the thread.  The thread uses the object (ThreadFunc is bound to `this`,
\* EventLoopThread.cc:7), so none may be left once it is destroyed, unless the
\* loop was stopped by code it ran itself (EventLoopThread.cc:15-19).
NoThreadLeftBehind ==
  ~selfQuit /\ owner = "destroyed" => child \in {"none", "ended"}

\* startLoop() returns (EventLoopThread.cc:28-34): the wait cannot miss the
\* pointer between its publication and its reset, again unless the loop is
\* stopped by code it runs.
StartReturns == (owner = "waiting") ~> (owner = "using" \/ selfQuit)

\* The destructor ends (EventLoopThread.cc:15-19) if its quit() comes after
\* loop() was entered, also when the loop is being stopped from inside.
DestructorEnds ==
  (owner \in {"waking", "joining"} /\ quit_ /\ pc # "idle") ~> (owner = "destroyed")

\* The destructor ends, whenever it is called: mymuduo_notes.md:500-501 again.
DestructorAlwaysEnds == (owner = "joining") ~> (owner = "destroyed")

\* EventLoop.h:37 and EventLoop.cc:86: the wakeup() of a quit() made by another
\* thread wakes the loop's thread.  For that the EventLoop whose wakeupFd_ it
\* writes to has to be there still.
WakeupReachesLoop == owner = "waking" => child # "ended"
==============================================================================
