------------------------ MODULE EventLoopThreadProofs ------------------------
(***************************************************************************)
(* Theorems about EventLoopThread, for any sets of functors and channels.  *)
(***************************************************************************)
EXTENDS EventLoopThread, TLAPS

\* The theorems about EventLoop, for the loop that the thread runs and the one
\* thread that calls into it.
LoopProofs == INSTANCE EventLoopProofs WITH Threads <- {Owner}

\* What they assume of the constants holds.
LEMMA LoopAssumption == LoopProofs!ConstantsAssumption
BY ConstantsAssumption DEF LoopProofs!ConstantsAssumption

\* The two instances of EventLoop say the same.
LEMMA SameLoop ==
  /\ Loop!Init => LoopProofs!Init
  /\ Loop!TypeOK <=> LoopProofs!TypeOK
  /\ UNCHANGED Loop!vars <=> UNCHANGED LoopProofs!vars
BY Zenon DEF Loop!Init, LoopProofs!Init, Loop!TypeOK, LoopProofs!TypeOK,
       Loop!Points, LoopProofs!Points, Loop!vars, LoopProofs!vars

\* The loop steps of EventLoopThread are those of the loop its theorems are about,
LEMMA SameNext == Loop!Next <=> LoopProofs!Next
BY Zenon
DEF Loop!Next, LoopProofs!Next, Loop!LoopStep, LoopProofs!LoopStep,
    Loop!UserStep, LoopProofs!UserStep, Loop!OtherThread, LoopProofs!OtherThread,
    Loop!StartLoop, LoopProofs!StartLoop, Loop!TestQuit, LoopProofs!TestQuit,
    Loop!PollReturns, LoopProofs!PollReturns,
    Loop!PollTimesOut, LoopProofs!PollTimesOut,
    Loop!HandleWakeup, LoopProofs!HandleWakeup,
    Loop!EnterHandler, LoopProofs!EnterHandler,
    Loop!LeaveHandler, LoopProofs!LeaveHandler,
    Loop!BeginPending, LoopProofs!BeginPending,
    Loop!SwapFunctors, LoopProofs!SwapFunctors,
    Loop!EnterFunctor, LoopProofs!EnterFunctor,
    Loop!LeaveFunctor, LoopProofs!LeaveFunctor,
    Loop!EndPending, LoopProofs!EndPending,
    Loop!QueueOnLoopThread, LoopProofs!QueueOnLoopThread,
    Loop!RunOnLoopThread, LoopProofs!RunOnLoopThread,
    Loop!QuitOnLoopThread, LoopProofs!QuitOnLoopThread,
    Loop!Push, LoopProofs!Push, Loop!SetQuit, LoopProofs!SetQuit,
    Loop!WriteWakeup, LoopProofs!WriteWakeup,
    Loop!InUserCode, LoopProofs!InUserCode,
    Loop!QueueWakes, LoopProofs!QueueWakes, Loop!QuitWakes, LoopProofs!QuitWakes
------------------------------------------------------------------------------
(***************************************************************************)
(* The loop of an EventLoopThread is an EventLoop.                         *)
(***************************************************************************)

\* What a step of the thread and its owner is to the loop.
LEMMA StepOfLoop ==
  ASSUME [Next]_vars
  PROVE  [Loop!Next]_(Loop!vars)
<1> USE DEF Loop!Next, Loop!vars, loopVars
<1>1. CASE Publish \/ ClearPointer \/ EndThread \/ ReturnLoop \/ Join \/ StartThread \/ Destroy
  BY <1>1
  DEF Publish, ClearPointer, EndThread, ReturnLoop, Join, StartThread, Destroy
<1>2. CASE LoopRuns
  BY <1>2 DEF LoopRuns
<1>3. CASE LoopReacts
  BY <1>3 DEF LoopReacts, Loop!UserStep
<1>4. CASE OwnerWakes
  BY <1>4 DEF OwnerWakes, Loop!OtherThread
<1>5. CASE DestroyQuits
  BY <1>5 DEF DestroyQuits, Loop!OtherThread
<1>6. ASSUME NEW t \in Tasks, OwnerPush(t)
      PROVE  Loop!Next
  BY <1>6 DEF OwnerPush, Loop!OtherThread
<1>7. ASSUME NEW t \in SetupTasks, InitCallback(t)
      PROVE  Loop!Next
  BY <1>7, ConstantsAssumption DEF InitCallback, Loop!UserStep
<1>8. CASE UNCHANGED vars
  BY <1>8 DEF vars
<1> QED
  BY <1>1, <1>2, <1>3, <1>4, <1>5, <1>6, <1>7, <1>8
  DEF Next, ChildStep, OwnerStep

\* Whatever the owner and the thread do around it (EventLoopThread.cc:13-58),
\* the loop behaves as EventLoop says, so that all that is proved of an
\* EventLoop holds of this one.
THEOREM ImplementsEventLoop == SafetySpec => Loop!SafetySpec
<1>1. Init => Loop!Init
  BY DEF Init
<1>2. [Next]_vars => [Loop!Next]_(Loop!vars)
  BY StepOfLoop
<1> QED
  BY <1>1, <1>2, PTL DEF SafetySpec, Loop!SafetySpec

\* The loop within the thread keeps its types.
LEMMA LoopTypeCorrect == SafetySpec => []Loop!TypeOK
<1>1. Init => LoopProofs!Init
  BY SameLoop DEF Init
<1>2. [Next]_vars => [LoopProofs!Next]_(LoopProofs!vars)
  BY StepOfLoop, SameLoop, SameNext, Zenon
<1>3. LoopProofs!TypeOK => Loop!TypeOK
  BY SameLoop
<1>4. LoopProofs!SafetySpec => []LoopProofs!TypeOK
  BY LoopAssumption, LoopProofs!TypeCorrect
<1> QED
  BY <1>1, <1>2, <1>3, <1>4, PTL DEF SafetySpec, LoopProofs!SafetySpec
------------------------------------------------------------------------------
(***************************************************************************)
(* Where the owner and the thread can be at the same time.  Unless the     *)
(* loop is stopped by code it runs, the owner is the only one to stop it,  *)
(* so that the thread is in loop() as long as the owner has the pointer.   *)
(***************************************************************************)

OwnerAndChild ==
  /\ owner = "constructed" => child = "none"
  /\ owner = "waiting" => child # "none"
  /\ owner \in {"using", "quitting", "waking", "joining"} =>
       child \in {"looping", "leaving", "ended"}
  /\ ~selfQuit =>
       /\ owner = "waiting" => child \in {"init", "looping"}
       /\ owner \in {"using", "quitting"} => child = "looping"
       /\ owner = "destroyed" => child \in {"none", "ended"}

\* Until the owner's quit() nothing ends the loop.
RunsUntilQuit ==
  /\ child \in {"none", "init"} => pc = "idle" /\ quit_ = FALSE
  /\ ~selfQuit /\ owner \in {"constructed", "waiting", "using", "quitting"} =>
       quit_ = FALSE /\ pc # "stopped"

OwnTypes ==
  /\ owner \in OwnerPoints
  /\ child \in ChildPoints
  /\ loop_ \in BOOLEAN /\ (loop_ <=> child = "looping")
  /\ child = "none" => owner \in {"constructed", "destroyed"}
  /\ selfQuit \in BOOLEAN

ThreadInv == OwnTypes /\ OwnerAndChild /\ RunsUntilQuit

\* A loop that was not told to quit goes on.
LEMMA LoopGoesOn ==
  ASSUME Loop!LoopStep \/ (\E io \in SUBSET IoChannels : Loop!PollReturns(io))
           \/ Loop!PollTimesOut
           \/ (\E t \in Tasks : Loop!InUserCode /\ Loop!QueueOnLoopThread(t))
           \/ (\E t \in Tasks : Loop!RunOnLoopThread(t))
  PROVE  quit_ = FALSE /\ pc # "stopped" => quit_' = FALSE /\ pc' # "stopped"
BY DEF Loop!LoopStep, Loop!PollReturns, Loop!PollTimesOut, Loop!QueueOnLoopThread,
       Loop!RunOnLoopThread, Loop!StartLoop, Loop!TestQuit, Loop!HandleWakeup,
       Loop!EnterHandler, Loop!LeaveHandler, Loop!BeginPending, Loop!SwapFunctors,
       Loop!EnterFunctor, Loop!LeaveFunctor, Loop!EndPending, Loop!InUserCode

\* Every step preserves the invariant ...
LEMMA ThreadInvInductive ==
  ASSUME ThreadInv, [Next]_vars
  PROVE  ThreadInv'
<1> USE DEF ThreadInv, OwnTypes, OwnerAndChild, RunsUntilQuit, OwnerPoints, ChildPoints
<1>1. CASE StartThread
  BY <1>1 DEF StartThread, loopVars
<1>2. CASE ReturnLoop
  BY <1>2 DEF ReturnLoop, loopVars
<1>3. ASSUME NEW t \in Tasks, OwnerPush(t)
      PROVE  ThreadInv'
  BY <1>3 DEF OwnerPush, Loop!Push
<1>4. CASE OwnerWakes
  BY <1>4 DEF OwnerWakes, Loop!WriteWakeup
<1>5. CASE Destroy
  BY <1>5 DEF Destroy, loopVars
<1>6. CASE DestroyQuits
  BY <1>6 DEF DestroyQuits, Loop!SetQuit
<1>7. CASE Join
  BY <1>7 DEF Join, loopVars
<1>8. ASSUME NEW t \in SetupTasks, InitCallback(t)
      PROVE  ThreadInv'
  BY <1>8 DEF InitCallback, Loop!QueueOnLoopThread
<1>9. CASE Publish
  BY <1>9 DEF Publish, loopVars
<1>10. CASE LoopRuns
  BY <1>10, LoopGoesOn DEF LoopRuns
<1>11. CASE LoopReacts
  <2>1. CASE selfQuit' = TRUE
    BY <1>11, <2>1 DEF LoopReacts
  <2>2. CASE UNCHANGED selfQuit
    BY <1>11, <2>2, LoopGoesOn DEF LoopReacts
  <2> QED
    BY <1>11, <2>1, <2>2 DEF LoopReacts
<1>12. CASE ClearPointer
  BY <1>12 DEF ClearPointer, loopVars
<1>13. CASE EndThread
  BY <1>13 DEF EndThread, loopVars
<1>14. CASE UNCHANGED vars
  BY <1>14 DEF vars, loopVars
<1> QED
  BY <1>1, <1>2, <1>3, <1>4, <1>5, <1>6, <1>7, <1>8, <1>9, <1>10, <1>11, <1>12,
     <1>13, <1>14
  DEF Next, ChildStep, OwnerStep

\* ... which therefore always holds.
LEMMA ThreadInvHolds == SafetySpec => []ThreadInv
<1>1. Init => ThreadInv
  BY DEF Init, ThreadInv, OwnTypes, OwnerAndChild, RunsUntilQuit, OwnerPoints,
         ChildPoints, Loop!Init
<1>2. ThreadInv /\ [Next]_vars => ThreadInv'
  BY ThreadInvInductive
<1> QED
  BY <1>1, <1>2, PTL DEF SafetySpec

\* The variables keep their types, and loop_ is set exactly while the thread is
\* between its two critical sections (EventLoopThread.cc:47-55).
THEOREM TypeCorrect == SafetySpec => []TypeOK
<1>1. Loop!TypeOK /\ ThreadInv => TypeOK
  BY Zenon DEF TypeOK, ThreadInv, OwnTypes
<1> QED
  BY <1>1, LoopTypeCorrect, ThreadInvHolds, PTL

\* From the return of startLoop() to the destructor's quit() the loop the owner
\* calls into exists (EventLoopThread.cc:28-36).
THEOREM LoopOutlivesCallsHolds == SafetySpec => []LoopOutlivesCalls
<1>1. ThreadInv => LoopOutlivesCalls
  BY DEF ThreadInv, OwnerAndChild, LoopOutlivesCalls
<1> QED
  BY <1>1, ThreadInvHolds, PTL

\* No thread is left that could use the destroyed object
\* (EventLoopThread.cc:13-21).
THEOREM NoThreadLeftBehindHolds == SafetySpec => []NoThreadLeftBehind
<1>1. ThreadInv => NoThreadLeftBehind
  BY DEF ThreadInv, OwnerAndChild, NoThreadLeftBehind
<1> QED
  BY <1>1, ThreadInvHolds, PTL
=============================================================================
