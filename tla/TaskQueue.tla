------------------------------ MODULE TaskQueue ------------------------------
(***************************************************************************)
(* What an EventLoop promises to whoever hands it functors, with no        *)
(* threads, mutex or wakeup descriptor in sight: the functors handed to    *)
(* queueInLoop run in the order in which they were handed over, each of    *)
(* them once, for as long as the loop is open; a functor handed to         *)
(* runInLoop on the loop's own thread runs on the spot.                    *)
(***************************************************************************)
EXTENDS Sequences

CONSTANT Tasks      \* the functors

VARIABLES
  queue,    \* handed over with queueInLoop and not yet run, oldest first
  ran,      \* the functors that have run, in the order they ran
  handed,   \* every functor handed over so far
  open      \* FALSE once EventLoop::loop() has returned

vars == <<queue, ran, handed, open>>

Init ==
  /\ queue = <<>>
  /\ ran = <<>>
  /\ handed = {}
  /\ open = TRUE

\* queueInLoop: a closed loop still accepts functors, it just never runs them.
Submit(t) ==
  /\ t \in Tasks \ handed
  /\ handed' = handed \union {t}
  /\ queue' = Append(queue, t)
  /\ UNCHANGED <<ran, open>>

\* The loop runs the oldest functor it was handed.
RunNext ==
  /\ open
  /\ queue # <<>>
  /\ ran' = Append(ran, Head(queue))
  /\ queue' = Tail(queue)
  /\ UNCHANGED <<handed, open>>

\* runInLoop called on the loop's thread.
RunNow(t) ==
  /\ open
  /\ t \in Tasks \ handed
  /\ handed' = handed \union {t}
  /\ ran' = Append(ran, t)
  /\ UNCHANGED <<queue, open>>

\* loop() returns after quit(); what is still queued stays there.
Close ==
  /\ open
  /\ open' = FALSE
  /\ UNCHANGED <<queue, ran, handed>>

Next ==
  \/ \E t \in Tasks : Submit(t) \/ RunNow(t)
  \/ RunNext
  \/ Close

SafetySpec == Init /\ [][Next]_vars

\* An open loop with work runs it: nothing waits for a further event.
Spec == SafetySpec /\ WF_vars(RunNext)
==============================================================================
