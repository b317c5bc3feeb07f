--------------------------- MODULE EventLoopProofs ---------------------------
(***************************************************************************)
(* Theorems about EventLoop, for any set of threads, functors and          *)
(* channels.                                                               *)
(***************************************************************************)
EXTENDS EventLoop, SequenceTheorems, TLAPS

\* What a step of Next can be.
LEMMA NextCases ==
  ASSUME Next
  PROVE  \/ StartLoop
         \/ TestQuit
         \/ \E io \in SUBSET IoChannels : PollReturns(io)
         \/ PollTimesOut
         \/ HandleWakeup
         \/ \E c \in IoChannels : EnterHandler(c)
         \/ LeaveHandler
         \/ BeginPending
         \/ SwapFunctors
         \/ EnterFunctor
         \/ LeaveFunctor
         \/ EndPending
         \/ \E t \in Tasks : QueueOnLoopThread(t)
         \/ \E t \in Tasks : RunOnLoopThread(t)
         \/ QuitOnLoopThread
         \/ \E p \in Threads, t \in Tasks : Push(p, t)
         \/ \E p \in Threads : SetQuit(p)
         \/ \E p \in Threads : WriteWakeup(p)
<1>1. {} \in SUBSET IoChannels
  OBVIOUS
<1>2. QED
  BY <1>1 DEF Next, LoopStep, UserStep, OtherThread
------------------------------------------------------------------------------
\* Every variable keeps its type, and callingPendingFunctors_, the batch and
\* activeChannels_ are confined to the parts of loop() that use them
\* (EventLoop.cc:60-81, 155-172).
THEOREM TypeCorrect == SafetySpec => []TypeOK
<1>1. Init => TypeOK
  <2> SUFFICES ASSUME Init
               PROVE  TypeOK
    OBVIOUS
  <2>1. /\ callingPendingFunctors_ \in BOOLEAN
        /\ callingPendingFunctors_ <=> pc \in {"swap", "run", "functor"}
    <3>1. pc = "idle" /\ callingPendingFunctors_ = FALSE
      BY DEF Init
    <3>2. pc \notin {"swap", "run", "functor"}
      BY <3>1
    <3>3. QED
      BY <3>1, <3>2, Zenon
  <2>2. quit_ \in BOOLEAN /\ wakeupFd_ \in BOOLEAN
    BY Zenon DEF Init
  <2>3. QED
    BY <2>1, <2>2, EmptySeq, Zenon DEF Init, TypeOK, Points
<1>2. TypeOK /\ [Next]_vars => TypeOK'
  <2> SUFFICES ASSUME TypeOK, [Next]_vars
               PROVE  TypeOK'
    OBVIOUS
  <2> USE DEF TypeOK, Points
  <2>1. CASE StartLoop
    BY <2>1 DEF StartLoop
  <2>2. CASE TestQuit
    BY <2>2 DEF TestQuit
  <2>3. ASSUME NEW io \in SUBSET IoChannels, PollReturns(io)
        PROVE  TypeOK'
    BY <2>3 DEF PollReturns
  <2>4. CASE PollTimesOut
    BY <2>4 DEF PollTimesOut
  <2>5. CASE HandleWakeup
    BY <2>5 DEF HandleWakeup
  <2>6. ASSUME NEW c \in IoChannels, EnterHandler(c)
        PROVE  TypeOK'
    BY <2>6 DEF EnterHandler
  <2>7. CASE LeaveHandler
    BY <2>7 DEF LeaveHandler
  <2>8. CASE BeginPending
    BY <2>8 DEF BeginPending
  <2>9. CASE SwapFunctors
    BY <2>9 DEF SwapFunctors
  <2>10. CASE EnterFunctor
    BY <2>10 DEF EnterFunctor
  <2>11. CASE LeaveFunctor
    BY <2>11 DEF LeaveFunctor
  <2>12. CASE EndPending
    BY <2>12 DEF EndPending
  <2>13. ASSUME NEW t \in Tasks, QueueOnLoopThread(t)
         PROVE  TypeOK'
    <3>1. wakeupFd_' \in BOOLEAN
      BY <2>13, Zenon DEF QueueOnLoopThread, QueueWakes
    <3>2. QED
      BY <2>13, <3>1 DEF QueueOnLoopThread, InUserCode
  <2>14. ASSUME NEW t \in Tasks, RunOnLoopThread(t)
         PROVE  TypeOK'
    BY <2>14 DEF RunOnLoopThread, InUserCode
  <2>15. CASE QuitOnLoopThread
    <3>1. wakeupFd_' \in BOOLEAN
      BY <2>15, Zenon DEF QuitOnLoopThread, QuitWakes
    <3>2. QED
      BY <2>15, <3>1 DEF QuitOnLoopThread, InUserCode
  <2>16. ASSUME NEW p \in Threads, NEW t \in Tasks, Push(p, t)
         PROVE  TypeOK'
    BY <2>16 DEF Push, QueueWakes
  <2>17. ASSUME NEW p \in Threads, SetQuit(p)
         PROVE  TypeOK'
    BY <2>17 DEF SetQuit, QuitWakes
  <2>18. ASSUME NEW p \in Threads, WriteWakeup(p)
         PROVE  TypeOK'
    BY <2>18 DEF WriteWakeup
  <2>19. CASE UNCHANGED vars
    BY <2>19 DEF vars
  <2>20. QED
    BY NextCases, <2>1, <2>2, <2>3, <2>4, <2>5, <2>6, <2>7, <2>8, <2>9,
       <2>10, <2>11, <2>12, <2>13, <2>14, <2>15, <2>16, <2>17, <2>18, <2>19
<1>3. QED
  BY <1>1, <1>2, PTL DEF SafetySpec
------------------------------------------------------------------------------
(***************************************************************************)
(* NoLostWakeup is not inductive: it says nothing of the loop until it     *)
(* sleeps.  What the code maintains is that from the swap of one turn to   *)
(* the end of the next poll every pending functor has a wakeup behind it.  *)
(* Between that poll and the swap functors may be queued without one, and  *)
(* need none, the swap being ahead.                                        *)
(***************************************************************************)
SwapAhead == pc \in {"handle", "handler", "swap"}

WakeupInv ==
  pendingFunctors_ # <<>> /\ ~SwapAhead /\ pc # "stopped" => WakeupComing

\* The wakeups a step can take away: handleRead is the only one that clears
\* the eventfd, and writing it is what settles a debt.
LEMMA WakeupComingKept ==
  ASSUME TypeOK, [Next]_vars, WakeupComing, ~HandleWakeup
  PROVE  WakeupComing'
<1> USE DEF WakeupComing, TypeOK
<1>1. ASSUME NEW io \in SUBSET IoChannels, PollReturns(io)
      PROVE  WakeupComing'
  BY <1>1 DEF PollReturns
<1>2. ASSUME NEW c \in IoChannels, EnterHandler(c)
      PROVE  WakeupComing'
  BY <1>2 DEF EnterHandler
<1>3. ASSUME NEW t \in Tasks, QueueOnLoopThread(t)
      PROVE  WakeupComing'
  BY <1>3, Zenon DEF QueueOnLoopThread
<1>4. ASSUME NEW t \in Tasks, RunOnLoopThread(t)
      PROVE  WakeupComing'
  BY <1>4 DEF RunOnLoopThread
<1>5. CASE QuitOnLoopThread
  BY <1>5, Zenon DEF QuitOnLoopThread
<1>6. ASSUME NEW p \in Threads, NEW t \in Tasks, Push(p, t)
      PROVE  WakeupComing'
  BY <1>6 DEF Push, QueueWakes
<1>7. ASSUME NEW p \in Threads, SetQuit(p)
      PROVE  WakeupComing'
  BY <1>7 DEF SetQuit, QuitWakes
<1>8. ASSUME NEW p \in Threads, WriteWakeup(p)
      PROVE  WakeupComing'
  BY <1>8 DEF WriteWakeup
<1>9. CASE StartLoop \/ TestQuit \/ PollTimesOut \/ LeaveHandler
  BY <1>9 DEF StartLoop, TestQuit, PollTimesOut, LeaveHandler
<1>10. CASE BeginPending \/ SwapFunctors \/ EnterFunctor \/ LeaveFunctor \/ EndPending
  BY <1>10 DEF BeginPending, SwapFunctors, EnterFunctor, LeaveFunctor, EndPending
<1>11. CASE UNCHANGED vars
  BY <1>11 DEF vars
<1>12. QED
  BY NextCases, <1>1, <1>2, <1>3, <1>4, <1>5, <1>6, <1>7, <1>8, <1>9, <1>10, <1>11

\* Every step keeps the wakeup coming while a functor is pending.
LEMMA WakeupInvInductive ==
  ASSUME SetupTasks = {}, TypeOK, [Next]_vars, WakeupInv
  PROVE  WakeupInv'
<1> SUFFICES ASSUME (pendingFunctors_ # <<>>)', ~SwapAhead', (pc # "stopped")'
             PROVE  WakeupComing'
  BY DEF WakeupInv
<1> USE DEF SwapAhead
\* A functor that was pending already had its wakeup, and keeps it.
<1>1. CASE pendingFunctors_' = pendingFunctors_ /\ ~SwapAhead /\ pc # "stopped"
  <2>1. WakeupComing
    BY <1>1 DEF WakeupInv
  <2>2. ~HandleWakeup
    BY <1>1 DEF HandleWakeup
  <2>3. QED
    BY <2>1, <2>2, WakeupComingKept
\* The steps that stay clear of both.
<1>2. CASE StartLoop \/ TestQuit \/ PollTimesOut
  BY <1>1, <1>2 DEF StartLoop, TestQuit, PollTimesOut
<1>3. ASSUME NEW io \in SUBSET IoChannels, PollReturns(io)
      PROVE  WakeupComing'
  BY <1>3 DEF PollReturns
<1>4. CASE HandleWakeup \/ LeaveHandler \/ BeginPending
  BY <1>4 DEF HandleWakeup, LeaveHandler, BeginPending
<1>5. ASSUME NEW c \in IoChannels, EnterHandler(c)
      PROVE  WakeupComing'
  BY <1>5 DEF EnterHandler
\* The swap leaves nothing pending.
<1>6. CASE SwapFunctors
  BY <1>6 DEF SwapFunctors
<1>7. CASE EnterFunctor \/ LeaveFunctor \/ EndPending
  BY <1>1, <1>7 DEF EnterFunctor, LeaveFunctor, EndPending
\* In a functor callingPendingFunctors_ is set, so queueInLoop wakes.
<1>8. ASSUME NEW t \in Tasks, QueueOnLoopThread(t)
      PROVE  WakeupComing'
  <2>1. pc = "functor"
    BY <1>8 DEF QueueOnLoopThread, InUserCode
  <2>2. callingPendingFunctors_
    BY <2>1, Zenon DEF TypeOK
  <2>3. QED
    BY <1>8, <2>2, Zenon DEF QueueOnLoopThread, QueueWakes, WakeupComing
<1>9. ASSUME NEW t \in Tasks, RunOnLoopThread(t)
      PROVE  WakeupComing'
  BY <1>1, <1>9 DEF RunOnLoopThread, InUserCode
<1>10. CASE QuitOnLoopThread
  BY <1>1, <1>10 DEF QuitOnLoopThread, InUserCode
\* Another thread that pushes owes the wakeup.
<1>11. ASSUME NEW p \in Threads, NEW t \in Tasks, Push(p, t)
       PROVE  WakeupComing'
  BY <1>11 DEF Push, QueueWakes, WakeupComing
<1>12. ASSUME NEW p \in Threads, SetQuit(p)
       PROVE  WakeupComing'
  BY <1>1, <1>12 DEF SetQuit
<1>13. ASSUME NEW p \in Threads, WriteWakeup(p)
       PROVE  WakeupComing'
  BY <1>1, <1>13 DEF WriteWakeup
<1>14. CASE UNCHANGED vars
  BY <1>1, <1>14 DEF vars
<1>15. QED
  BY NextCases, <1>2, <1>3, <1>4, <1>5, <1>6, <1>7, <1>8, <1>9, <1>10, <1>11,
     <1>12, <1>13, <1>14

\* No functor handed to queueInLoop is slept on (EventLoop.cc:106-117), for
\* any number of threads, as long as the loop's own thread queues nothing
\* before it calls loop().
THEOREM NoLostWakeupHolds ==
  ASSUME SetupTasks = {}
  PROVE  SafetySpec => []NoLostWakeup
<1>1. Init => WakeupInv
  BY DEF Init, WakeupInv
<1>2. TypeOK /\ WakeupInv /\ [Next]_vars => WakeupInv'
  BY WakeupInvInductive
<1>3. WakeupInv => NoLostWakeup
  BY DEF WakeupInv, NoLostWakeup, SwapAhead
<1>4. QED
  BY <1>1, <1>2, <1>3, TypeCorrect, PTL DEF SafetySpec

\* No quit() is slept through (EventLoop.cc:83-91): a quit_ set while the
\* loop is in epoll_wait has a wakeup behind it, and one set earlier is seen
\* by while (!quit_).
THEOREM NoLostQuitHolds == SafetySpec => []NoLostQuit
<1>1. Init => NoLostQuit
  BY DEF Init, NoLostQuit
<1>2. TypeOK /\ NoLostQuit /\ [Next]_vars => NoLostQuit'
  <2> SUFFICES ASSUME TypeOK, NoLostQuit, [Next]_vars, pc' = "poll", quit_'
               PROVE  WakeupComing'
    BY DEF NoLostQuit
  <2>1. CASE pc = "poll" /\ quit_
    <3>1. ~HandleWakeup
      BY <2>1 DEF HandleWakeup
    <3>2. WakeupComing
      BY <2>1, Zenon DEF NoLostQuit
    <3>3. QED
      BY <3>1, <3>2, WakeupComingKept
  <2>2. CASE pc = "poll" /\ ~quit_
    <3>1. PICK p \in Threads : SetQuit(p)
      BY NextCases, <2>2
         DEF StartLoop, TestQuit, PollReturns, PollTimesOut, HandleWakeup,
             EnterHandler, LeaveHandler, BeginPending, SwapFunctors,
             EnterFunctor, LeaveFunctor, EndPending, QueueOnLoopThread,
             RunOnLoopThread, QuitOnLoopThread, InUserCode, Push, WriteWakeup, vars
    <3>2. QED
      BY <3>1 DEF SetQuit, QuitWakes, WakeupComing
  <2>3. CASE pc # "poll"
    <3>1. TestQuit
      BY NextCases, <2>3
         DEF StartLoop, PollReturns, PollTimesOut, HandleWakeup,
             EnterHandler, LeaveHandler, BeginPending, SwapFunctors,
             EnterFunctor, LeaveFunctor, EndPending, QueueOnLoopThread,
             RunOnLoopThread, QuitOnLoopThread, Push, SetQuit, WriteWakeup, vars
    <3>2. quit_' = quit_ /\ ~quit_
      BY <3>1 DEF TestQuit
    <3>3. QED
      BY <3>2
  <2>4. QED
    BY <2>1, <2>2, <2>3
<1>3. QED
  BY <1>1, <1>2, TypeCorrect, PTL DEF SafetySpec
------------------------------------------------------------------------------
(***************************************************************************)
(* The loop implements TaskQueue.  The abstract queue is what is left of   *)
(* the batch followed by what is pending.                                  *)
(***************************************************************************)

\* A push onto what is pending is one onto the abstract queue.
LEMMA AppendToConcat ==
  ASSUME NEW S, NEW s \in Seq(S), NEW t \in Seq(S), NEW e \in S
  PROVE  s \o Append(t, e) = Append(s \o t, e)
<1>1. Append(t, e) = t \o <<e>>
  BY AppendIsConcat
<1>2. s \o t \in Seq(S)
  BY ConcatProperties
<1>3. Append(s \o t, e) = (s \o t) \o <<e>>
  BY <1>2, AppendIsConcat
<1>4. <<e>> \in Seq(S)
  OBVIOUS
<1>5. QED
  BY <1>1, <1>3, <1>4, ConcatAssociative

\* Taking the head of the batch takes that of the abstract queue.
LEMMA HeadTailOfConcat ==
  ASSUME NEW S, NEW s \in Seq(S), NEW t \in Seq(S), s # <<>>
  PROVE  /\ s \o t # <<>>
         /\ Head(s \o t) = Head(s)
         /\ Tail(s \o t) = Tail(s) \o t
<1>1. /\ s \o t \in Seq(S)
      /\ Len(s \o t) = Len(s) + Len(t)
      /\ Len(s) \in Nat \ {0}
      /\ Len(t) \in Nat
  BY ConcatProperties, LenProperties
<1>2. s \o t # <<>>
  BY <1>1
<1>3. Head(s \o t) = Head(s)
  BY <1>1, <1>2, HeadTailProperties, ConcatProperties
<1>4. Tail(s) \in Seq(S) /\ Len(Tail(s)) = Len(s) - 1
  BY HeadTailProperties
<1>5. Tail(s \o t) \in Seq(S) /\ Len(Tail(s \o t)) = Len(s) + Len(t) - 1
  BY <1>1, <1>2, HeadTailProperties
<1>6. Tail(s) \o t \in Seq(S) /\ Len(Tail(s) \o t) = Len(s) - 1 + Len(t)
  BY <1>4, ConcatProperties
<1>7. \A i \in 1 .. Len(Tail(s \o t)) : Tail(s \o t)[i] = (Tail(s) \o t)[i]
  BY <1>1, <1>4, <1>5
<1>8. Tail(s \o t) = Tail(s) \o t
  BY <1>1, <1>5, <1>6, <1>7, SeqEqual
<1>9. QED
  BY <1>2, <1>3, <1>8

\* A step of the loop is a step of the queue, or leaves it alone.
LEMMA StepRefines ==
  ASSUME TypeOK, [Next]_vars
  PROVE  [TQ!Next]_(TQ!vars)
<1> USE DEF TQ!vars
<1>1. functors \in Seq(Tasks) /\ pendingFunctors_ \in Seq(Tasks)
  BY DEF TypeOK
\* pc moves, but neither into nor out of "stopped", and nothing else does.
<1>2. CASE StartLoop \/ PollTimesOut \/ HandleWakeup \/ LeaveHandler \/ BeginPending
  BY <1>2 DEF StartLoop, PollTimesOut, HandleWakeup, LeaveHandler, BeginPending
<1>3. CASE TestQuit
  BY <1>3 DEF TestQuit, TQ!Next, TQ!Close
<1>4. ASSUME NEW io \in SUBSET IoChannels, PollReturns(io)
      PROVE  UNCHANGED TQ!vars
  BY <1>4 DEF PollReturns
<1>5. ASSUME NEW c \in IoChannels, EnterHandler(c)
      PROVE  UNCHANGED TQ!vars
  BY <1>5 DEF EnterHandler
\* The batch is used up when the next one is swapped in.
<1>6. CASE SwapFunctors
  <2>1. functors = <<>>
    BY <1>6 DEF SwapFunctors, TypeOK
  <2>2. functors' \o pendingFunctors_' = functors \o pendingFunctors_
    BY <1>1, <1>6, <2>1, ConcatEmptySeq DEF SwapFunctors
  <2>3. QED
    BY <1>6, <2>2 DEF SwapFunctors
<1>7. CASE EnterFunctor
  BY <1>1, <1>7, HeadTailOfConcat DEF EnterFunctor, TQ!Next, TQ!RunNext
<1>8. CASE LeaveFunctor \/ EndPending
  BY <1>8 DEF LeaveFunctor, EndPending
<1>9. ASSUME NEW t \in Tasks, QueueOnLoopThread(t)
      PROVE  TQ!Next
  BY <1>1, <1>9, AppendToConcat DEF QueueOnLoopThread, TQ!Next, TQ!Submit
<1>10. ASSUME NEW t \in Tasks, RunOnLoopThread(t)
       PROVE  TQ!Next
  BY <1>10 DEF RunOnLoopThread, InUserCode, TQ!Next, TQ!RunNow
<1>11. CASE QuitOnLoopThread
  BY <1>11 DEF QuitOnLoopThread
<1>12. ASSUME NEW p \in Threads, NEW t \in Tasks, Push(p, t)
       PROVE  TQ!Next
  BY <1>1, <1>12, AppendToConcat DEF Push, TQ!Next, TQ!Submit
<1>13. ASSUME NEW p \in Threads, SetQuit(p)
       PROVE  UNCHANGED TQ!vars
  BY <1>13 DEF SetQuit
<1>14. ASSUME NEW p \in Threads, WriteWakeup(p)
       PROVE  UNCHANGED TQ!vars
  BY <1>14 DEF WriteWakeup
<1>15. CASE UNCHANGED vars
  BY <1>15 DEF vars
<1>16. QED
  BY NextCases, <1>2, <1>3, <1>4, <1>5, <1>6, <1>7, <1>8, <1>9, <1>10, <1>11,
     <1>12, <1>13, <1>14, <1>15

\* Functors run in the order they were queued and at most once each
\* (EventLoop.cc:94-117, 155-172), for any number of threads and functors.
THEOREM RefinesTaskQueue == SafetySpec => TQ!SafetySpec
<1>1. Init => TQ!Init
  BY ConcatEmptySeq, EmptySeq DEF Init, TQ!Init
<1>2. TypeOK /\ [Next]_vars => [TQ!Next]_(TQ!vars)
  BY StepRefines
<1>3. QED
  BY <1>1, <1>2, TypeCorrect, PTL DEF SafetySpec, TQ!SafetySpec
==============================================================================
