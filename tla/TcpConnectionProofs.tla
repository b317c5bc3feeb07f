------------------------- MODULE TcpConnectionProofs -------------------------
(***************************************************************************)
(* Theorems about TcpConnection, for any callers, messages and lengths.    *)
(***************************************************************************)
EXTENDS TcpConnection, SequenceTheorems, TLAPS

Unit == Messages \X Nat
FunctorType == [op : Ops, by : Callers \union {NoCaller},
                message : Messages \union {NoMessage}]
------------------------------------------------------------------------------
(***************************************************************************)
(* Sequences.                                                              *)
(***************************************************************************)

\* Queue q is s with functors behind it that have one of the operations ops.
Follows(q, s, ops) ==
  /\ q \in Seq(FunctorType)
  /\ Len(s) <= Len(q)
  /\ \A i \in 1 .. Len(s) : q[i] = s[i]
  /\ \A i \in Len(s) + 1 .. Len(q) : q[i].op \in ops

\* Nothing has been appended yet.
LEMMA FollowsItself ==
  ASSUME NEW s \in Seq(FunctorType), NEW ops
  PROVE  Follows(s, s, ops)
<1>1. Len(s) \in Nat
  OBVIOUS
<1> QED
  BY <1>1 DEF Follows

\* One more functor behind the queue.
LEMMA AppendFollows ==
  ASSUME NEW s \in Seq(FunctorType), NEW q, NEW ops, NEW f \in FunctorType,
         Follows(q, s, ops), f.op \in ops
  PROVE  Follows(Append(q, f), s, ops)
<1>1. /\ q \in Seq(FunctorType) /\ Len(q) \in Nat /\ Len(s) \in Nat
      /\ Append(q, f) \in Seq(FunctorType)
      /\ Len(Append(q, f)) = Len(q) + 1
      /\ Append(q, f)[Len(q) + 1] = f
      /\ \A i \in 1 .. Len(q) : Append(q, f)[i] = q[i]
  BY DEF Follows
<1> DEFINE a == Append(q, f)
<1> HIDE DEF a
<1>2. \A i \in Len(s) + 1 .. Len(q) + 1 : a[i].op \in ops
  <2> SUFFICES ASSUME NEW i \in Len(s) + 1 .. Len(q) + 1
               PROVE  a[i].op \in ops
    OBVIOUS
  <2>1. CASE i = Len(q) + 1
    BY <1>1, <2>1 DEF a
  <2>2. CASE i # Len(q) + 1
    BY <1>1, <2>2 DEF a, Follows
  <2> QED
    BY <2>1, <2>2
<1> QED
  BY <1>1, <1>2 DEF Follows, a

\* The units of a message.
LEMMA UnitsFacts ==
  ASSUME NEW m \in Messages, NEW n \in Nat
  PROVE  Units(m, n) \in Seq(Unit) /\ Len(Units(m, n)) = n
<1>1. Units(m, n) \in [1 .. n -> Unit]
  BY DEF Units, Unit
<1> QED
  BY <1>1

\* A sequence split at n.
LEMMA Split ==
  ASSUME NEW S, NEW s \in Seq(S), NEW n \in 0 .. Len(s)
  PROVE  /\ SubSeq(s, 1, n) \in Seq(S) /\ Len(SubSeq(s, 1, n)) = n
         /\ SubSeq(s, n + 1, Len(s)) \in Seq(S)
         /\ Len(SubSeq(s, n + 1, Len(s))) = Len(s) - n
         /\ SubSeq(s, 1, n) \o SubSeq(s, n + 1, Len(s)) = s
<1> DEFINE len == Len(s)
<1>1. len \in Nat /\ n \in Nat /\ n <= len /\ \A i \in 1 .. len : s[i] \in S
  OBVIOUS
<1>2. /\ 1 \in 1 .. len + 1 /\ n \in 1 - 1 .. len /\ len \in n .. len
  BY <1>1
<1>3. SubSeq(s, 1, len) = s
  BY SubSeqFull
<1> HIDE DEF len
<1>4. SubSeq(s, 1, n) \o SubSeq(s, n + 1, len) = SubSeq(s, 1, len)
  BY <1>2, ConcatAdjacentSubSeq, Zenon DEF len
<1>5. SubSeq(s, 1, n) \in Seq(S) /\ Len(SubSeq(s, 1, n)) = n
  <2>1. /\ SubSeq(s, 1, n) \in Seq(S)
        /\ Len(SubSeq(s, 1, n)) = IF 1 <= n THEN n - 1 + 1 ELSE 0
    BY <1>1, SubSeqProperties
  <2> QED
    BY <1>1, <2>1
<1>6. SubSeq(s, n + 1, len) \in Seq(S) /\ Len(SubSeq(s, n + 1, len)) = len - n
  <2>1. /\ SubSeq(s, n + 1, len) \in Seq(S)
        /\ Len(SubSeq(s, n + 1, len)) = IF n + 1 <= len THEN len - (n + 1) + 1 ELSE 0
    BY <1>1, SubSeqProperties
  <2> QED
    BY <1>1, <2>1
<1> QED
  BY <1>3, <1>4, <1>5, <1>6 DEF len
------------------------------------------------------------------------------
(***************************************************************************)
(* sendInLoop.                                                             *)
(***************************************************************************)

\* The functors that call the user back.
UserOps == {"writeComplete", "highWaterMark"}

\* The channel watches for writability exactly when there is something to write.
Watching == "kWriteEvent" \in events_ <=> outputBuffer_ # <<>>

\* The types that sending depends on.
SendTypes ==
  /\ events_ \subseteq {"kReadEvent", "kWriteEvent"}
  /\ inPoller \in BOOLEAN
  /\ outputBuffer_ \in Seq(Unit)
  /\ wire \in Seq(Unit)
  /\ accepted \in Seq(Unit)
  /\ finSent \in BOOLEAN
  /\ killed \in BOOLEAN

\* What write() left over goes behind what is buffered, and is watched for.
LEMMA KeepFacts ==
  ASSUME SendTypes, NEW rest \in Seq(Unit), NEW queue \in Seq(FunctorType),
         NEW queue0 \in Seq(FunctorType), Follows(queue, queue0, UserOps),
         Keep(rest, queue)
  PROVE  /\ Follows(functors', queue0, UserOps)
         /\ outputBuffer_' = outputBuffer_ \o rest
         /\ outputBuffer_' \in Seq(Unit)
         /\ events_' \subseteq {"kReadEvent", "kWriteEvent"}
         /\ inPoller' \in BOOLEAN
         /\ Watching => Watching'
<1>1. Functor("highWaterMark") \in FunctorType /\ Functor("highWaterMark").op \in UserOps
  BY DEF Functor, FunctorType, Ops, UserOps
<1>2. Follows(Append(queue, Functor("highWaterMark")), queue0, UserOps)
  BY <1>1, AppendFollows
<1>3. CASE rest = <<>>
  <2>1. /\ functors' = queue /\ outputBuffer_' = outputBuffer_ /\ events_' = events_
        /\ inPoller' = inPoller
    BY <1>3 DEF Keep
  <2>2. outputBuffer_ \o rest = outputBuffer_
    BY <1>3, ConcatEmptySeq DEF SendTypes
  <2> QED
    BY <2>1, <2>2 DEF SendTypes, Watching
<1>4. CASE rest # <<>>
  <2>1. /\ functors' = queue \/ functors' = Append(queue, Functor("highWaterMark"))
        /\ outputBuffer_' = outputBuffer_ \o rest
        /\ events_' = events_ \union {"kWriteEvent"}
    BY <1>4 DEF Keep, IsWriting
  <2>2. inPoller' = inPoller \/ inPoller' = TRUE
    BY <1>4 DEF Keep
  <2>3. inPoller' \in BOOLEAN
    BY <2>2, Zenon DEF SendTypes
  <2>4. outputBuffer_ \o rest \in Seq(Unit) /\ outputBuffer_ \o rest # <<>>
    BY <1>4 DEF SendTypes
  <2>5. Follows(functors', queue0, UserOps)
    BY <1>2, <2>1, Zenon
  <2> QED
    BY <2>1, <2>3, <2>4, <2>5 DEF SendTypes, Watching
<1> QED
  BY <1>3, <1>4

\* Whatever way sendInLoop takes, the units it was given end up on the wire or in
\* the buffer behind the earlier ones; once the connection is down nothing
\* does, and nothing either once FIN has been sent and the buffer is empty.
LEMMA SendInLoopFacts ==
  ASSUME SendTypes, NEW m, NEW units \in Seq(Unit), Units(m, Length[m]) \in Seq(Unit),
         NEW queue \in Seq(FunctorType), SendInLoop(m, units, queue),
         finSent' = finSent
  PROVE  /\ Follows(functors', queue, UserOps)
         /\ SendTypes'
         /\ Watching => Watching'
         /\ state_ = "kDisconnected" =>
              UNCHANGED <<outputBuffer_, events_, inPoller, wire>>
         /\ Watching /\ finSent /\ outputBuffer_ = <<>> =>
              UNCHANGED <<outputBuffer_, wire, accepted>>
         /\ units = Units(m, Length[m]) /\ wire \o outputBuffer_ = accepted =>
              wire' \o outputBuffer_' = accepted'
<1> DEFINE given == Units(m, Length[m])
<1>1. Follows(queue, queue, UserOps)
  BY FollowsItself
<1>2. accepted \o given \in Seq(Unit)
  BY DEF SendTypes
<1>3. CASE state_ = "kDisconnected"
  BY <1>1, <1>3 DEF SendInLoop, SendTypes, Watching
<1>4. CASE /\ state_ # "kDisconnected" /\ ~IsWriting /\ outputBuffer_ = <<>>
           /\ WriteFails /\ functors' = queue
           /\ UNCHANGED <<outputBuffer_, events_, inPoller, accepted>>
  BY <1>1, <1>4 DEF WriteFails, SendTypes, Watching
<1>5. CASE /\ state_ # "kDisconnected" /\ ~IsWriting /\ outputBuffer_ = <<>>
           /\ \E n \in 0 .. Len(units) :
                /\ WriteAccepts(units, n)
                /\ Keep(SubSeq(units, n + 1, Len(units)),
                        IF n = Len(units) THEN Append(queue, Functor("writeComplete"))
                                          ELSE queue)
           /\ accepted' = accepted \o given
  <2> PICK n \in 0 .. Len(units) :
             /\ WriteAccepts(units, n)
             /\ Keep(SubSeq(units, n + 1, Len(units)),
                     IF n = Len(units) THEN Append(queue, Functor("writeComplete"))
                                       ELSE queue)
    BY <1>5
  <2> DEFINE done == SubSeq(units, 1, n)
             rest == SubSeq(units, n + 1, Len(units))
             longer == IF n = Len(units) THEN Append(queue, Functor("writeComplete"))
                                         ELSE queue
  <2>1. done \in Seq(Unit) /\ rest \in Seq(Unit) /\ done \o rest = units
    BY Split
  <2>2. longer \in Seq(FunctorType) /\ Follows(longer, queue, UserOps)
    <3>1. /\ Functor("writeComplete") \in FunctorType
          /\ Functor("writeComplete").op \in UserOps
      BY DEF Functor, FunctorType, Ops, UserOps
    <3>2. Follows(Append(queue, Functor("writeComplete")), queue, UserOps)
      BY <1>1, <3>1, AppendFollows
    <3> QED
      BY <1>1, <3>2 DEF Follows
  <2>3. ~Broken /\ wire' = wire \o done /\ killed' = killed
    BY DEF WriteAccepts
  <2>4. Keep(rest, longer)
    OBVIOUS
  <2> HIDE DEF done, rest, longer
  <2>5. /\ Follows(functors', queue, UserOps)
        /\ outputBuffer_' = outputBuffer_ \o rest
        /\ outputBuffer_' \in Seq(Unit)
        /\ events_' \subseteq {"kReadEvent", "kWriteEvent"}
        /\ inPoller' \in BOOLEAN
        /\ Watching => Watching'
    BY <2>1, <2>2, <2>4, KeepFacts
  <2>6. finSent = FALSE
    BY <2>3 DEF Broken, SendTypes
  <2>7. wire \o done \in Seq(Unit)
    BY <2>1 DEF SendTypes
  <2>8. SendTypes'
    BY <1>2, <1>5, <2>3, <2>5, <2>7 DEF SendTypes
  <2>9. units = given /\ wire \o outputBuffer_ = accepted =>
          wire' \o outputBuffer_' = accepted'
    <3> SUFFICES ASSUME units = given, wire \o outputBuffer_ = accepted
                 PROVE  wire' \o outputBuffer_' = accepted'
      OBVIOUS
    <3>1. /\ wire \in Seq(Unit) /\ accepted \in Seq(Unit)
          /\ done \in Seq(Unit) /\ rest \in Seq(Unit)
      BY <2>1 DEF SendTypes
    <3>2. accepted = wire /\ outputBuffer_' = rest
      BY <1>5, <2>1, <2>5, <3>1, ConcatEmptySeq
    <3>3. (wire \o done) \o rest = wire \o (done \o rest)
      BY ONLY <3>1, ConcatAssociative
    <3> QED
      BY <1>5, <2>1, <2>3, <3>2, <3>3, Zenon
  <2> QED
    BY <1>5, <2>5, <2>6, <2>8, <2>9
<1>6. CASE /\ state_ # "kDisconnected"
           /\ IsWriting \/ outputBuffer_ # <<>>
           /\ Keep(units, queue)
           /\ accepted' = accepted \o given
           /\ UNCHANGED <<wire, killed>>
  <2>1. /\ Follows(functors', queue, UserOps)
        /\ outputBuffer_' = outputBuffer_ \o units
        /\ outputBuffer_' \in Seq(Unit)
        /\ events_' \subseteq {"kReadEvent", "kWriteEvent"}
        /\ inPoller' \in BOOLEAN
        /\ Watching => Watching'
    BY <1>1, <1>6, KeepFacts
  <2>2. SendTypes'
    BY <1>2, <1>6, <2>1 DEF SendTypes
  <2>3. ~(Watching /\ outputBuffer_ = <<>>)
    BY <1>6 DEF Watching, IsWriting
  <2>4. units = given /\ wire \o outputBuffer_ = accepted =>
          wire' \o outputBuffer_' = accepted'
    <3> SUFFICES ASSUME units = given, wire \o outputBuffer_ = accepted
                 PROVE  wire' \o outputBuffer_' = accepted'
      OBVIOUS
    <3>1. wire \in Seq(Unit) /\ outputBuffer_ \in Seq(Unit) /\ units \in Seq(Unit)
      BY DEF SendTypes
    <3>2. (wire \o outputBuffer_) \o units = wire \o (outputBuffer_ \o units)
      BY ONLY <3>1, ConcatAssociative
    <3> QED
      BY <1>6, <2>1, <3>2, Zenon
  <2>5. state_ # "kDisconnected"
    BY <1>6
  <2> QED
    BY <2>1, <2>2, <2>3, <2>4, <2>5
<1> QED
  BY <1>3, <1>4, <1>5, <1>6 DEF SendInLoop

------------------------------------------------------------------------------
(***************************************************************************)
(* The inductive invariant.                                                *)
(***************************************************************************)

\* A caller in the middle of a call holds the connection, and one that is
\* sending has its message.
CallersHold ==
  \A p \in Callers :
    /\ caller[p] # "idle" => p \in holders
    /\ caller[p] = "sending" => string[p] \in Messages

\* The functors bound to a raw `this` come from callers, and what a sendInLoop
\* finds behind its pointer is some message.
RawShape(f) ==
  /\ f.op \in {"sendInLoop", "shutdownInLoop"} => f.by \in Callers
  /\ f.op = "sendInLoop" => f.message \in Messages /\ string[f.by] \in Messages

FunctorShape == \A i \in 1 .. Len(functors) : RawShape(functors[i])

\* Until connectEstablished, the first functor of all, has run, nobody else has
\* the connection and nothing has happened to it.
Untouched ==
  /\ functors # <<>> /\ functors[1].op = "connectEstablished"
  /\ events_ = {} /\ inPoller = FALSE /\ outputBuffer_ = <<>>
  /\ loopAt = "loop" /\ holders = {}
  /\ downs = 0 /\ overwrote = FALSE /\ finSent = FALSE

EstablishedFirst ==
  /\ state_ = "kConnecting" => Untouched
  /\ \A i \in 1 .. Len(functors) :
       functors[i].op = "connectEstablished" => i = 1 /\ state_ = "kConnecting"

\* A connection that is down is not watched, and the user knows.
DownIsUnwatched ==
  state_ = "kDisconnected" => events_ = {} /\ inPoller = FALSE /\ downs > 0

\* The user has been told of nothing, or once and the connection is down.
ToldOnce ==
  overwrote = FALSE => downs = 0 \/ (downs = 1 /\ state_ = "kDisconnected")

\* Nothing is buffered behind FIN.
FinDrained == Up /\ finSent = TRUE => outputBuffer_ = <<>>

ConnInv ==
  /\ TypeOK
  /\ CallersHold
  /\ FunctorShape
  /\ EstablishedFirst
  /\ DownIsUnwatched
  /\ ToldOnce
  /\ WatchesWhileBuffered
  /\ FinDrained
------------------------------------------------------------------------------
(***************************************************************************)
(* The steps that write: sendInLoop, from the queue or from a callback,    *)
(* and handleWrite.                                                        *)
(***************************************************************************)

\* What such a step does, `queue` being what it leaves of the functors.
Output(queue) ==
  /\ Follows(functors', queue, UserOps)
  /\ SendTypes'
  /\ Watching => Watching'
  /\ state_ = "kDisconnected" =>
       UNCHANGED <<outputBuffer_, events_, inPoller, wire, finSent>>
  /\ finSent = TRUE /\ Watching /\ outputBuffer_ = <<>> => outputBuffer_' = <<>>
  /\ finSent' = finSent \/ outputBuffer_' = <<>>
  /\ unsent' \subseteq unsent
  /\ UNCHANGED <<state_, loopAt, historyVars, serverVars, caller, string, holders,
                 peerVars>>

\* Length is a number, and so a message's units are units.
LEMMA MessageUnits ==
  ASSUME NEW m \in Messages, NEW n \in Messages
  PROVE  Units(m, Length[n]) \in Seq(Unit)
<1>1. Length[n] \in Nat
  BY ConstantsAssumption
<1> QED
  BY <1>1, UnitsFacts

\* TypeOK in the terms of these lemmas.
LEMMA TypesForSending ==
  ASSUME TypeOK
  PROVE  SendTypes /\ functors \in Seq(FunctorType)
BY DEF TypeOK, SendTypes, FunctorType, Unit

\* The queue without its head.
LEMMA TailFacts ==
  ASSUME NEW s \in Seq(FunctorType), s # <<>>
  PROVE  /\ Head(s) = s[1] /\ Head(s) \in FunctorType
         /\ Len(s) \in Nat /\ Len(s) > 0
         /\ Tail(s) \in Seq(FunctorType) /\ Len(Tail(s)) = Len(s) - 1
         /\ \A i \in 1 .. Len(s) - 1 : Tail(s)[i] = s[i + 1]
BY HeadTailProperties

\* A queued sendInLoop writes or buffers what its pointer leads to, and keeps
\* the stream if that is the message it was queued for.
LEMMA RunSendFacts ==
  ASSUME TypeOK, FunctorShape, RunSendInLoop
  PROVE  /\ functors # <<>> /\ Output(Tail(functors))
         /\ LET f == Head(functors)
            IN  string[f.by] = f.message /\ StreamIntegrity => StreamIntegrity'
<1> DEFINE f == Head(functors)
           units == Units(string[f.by], Length[f.message])
<1>1. /\ functors # <<>> /\ f.op = "sendInLoop" /\ loopAt = "loop"
      /\ SendInLoop(f.message, units, Tail(functors))
      /\ UNCHANGED <<state_, loopAt, historyVars, serverVars, userVars, peerVars, finSent>>
  BY DEF RunSendInLoop, Runs
<1>2. SendTypes /\ functors \in Seq(FunctorType)
  BY TypesForSending
<1>3. /\ f = functors[1] /\ Len(functors) \in Nat /\ Len(functors) > 0
      /\ Tail(functors) \in Seq(FunctorType)
  BY <1>1, <1>2, TailFacts
<1>4. f.message \in Messages /\ string[f.by] \in Messages
  <2>1. RawShape(functors[1])
    BY <1>3 DEF FunctorShape
  <2> QED
    BY <1>1, <1>3, <2>1 DEF RawShape
<1>5. units \in Seq(Unit) /\ Units(f.message, Length[f.message]) \in Seq(Unit)
  BY <1>4, MessageUnits
<1> HIDE DEF f
<1>6. finSent' = finSent
  BY <1>1
<1>7. /\ Follows(functors', Tail(functors), UserOps)
      /\ SendTypes'
      /\ Watching => Watching'
      /\ state_ = "kDisconnected" =>
           UNCHANGED <<outputBuffer_, events_, inPoller, wire>>
      /\ Watching /\ finSent /\ outputBuffer_ = <<>> =>
           UNCHANGED <<outputBuffer_, wire, accepted>>
      /\ units = Units(f.message, Length[f.message]) /\ wire \o outputBuffer_ = accepted =>
           wire' \o outputBuffer_' = accepted'
  BY <1>1, <1>2, <1>3, <1>5, <1>6, SendInLoopFacts
<1>8. Output(Tail(functors))
  BY <1>1, <1>6, <1>7 DEF Output, userVars
<1> QED
  BY <1>1, <1>7, <1>8 DEF StreamIntegrity, f

\* So does send() on the loop's thread.
LEMMA LoopSendFacts ==
  ASSUME TypeOK, NEW m \in Messages, LoopSend(m)
  PROVE  /\ loopAt # "loop" /\ Output(functors)
         /\ StreamIntegrity => StreamIntegrity'
<1> DEFINE given == Units(m, Length[m])
<1>1. SendTypes /\ functors \in Seq(FunctorType) /\ given \in Seq(Unit)
  BY TypesForSending, MessageUnits
<1>2. /\ loopAt # "loop"
      /\ unsent' \subseteq unsent
      /\ UNCHANGED <<state_, loopAt, historyVars, serverVars, caller, string, holders,
                     peerVars, finSent>>
  BY DEF LoopSend
<1>3. CASE SendInLoop(m, given, functors)
  <2>1. finSent' = finSent
    BY <1>2
  <2>2. /\ Follows(functors', functors, UserOps)
        /\ SendTypes'
        /\ Watching => Watching'
        /\ state_ = "kDisconnected" =>
             UNCHANGED <<outputBuffer_, events_, inPoller, wire>>
        /\ Watching /\ finSent /\ outputBuffer_ = <<>> =>
             UNCHANGED <<outputBuffer_, wire, accepted>>
        /\ wire \o outputBuffer_ = accepted => wire' \o outputBuffer_' = accepted'
    BY <1>1, <1>3, <2>1, SendInLoopFacts
  <2> QED
    BY <1>2, <2>1, <2>2 DEF Output, StreamIntegrity
<1>4. CASE UNCHANGED <<outputBuffer_, events_, inPoller, functors, wire, accepted, killed>>
  <2>1. Follows(functors', functors, UserOps)
    BY <1>1, <1>4, FollowsItself
  <2> QED
    BY <1>1, <1>2, <1>4, <2>1 DEF Output, StreamIntegrity, SendTypes, Watching
<1> QED
  BY <1>2, <1>3, <1>4 DEF LoopSend

\* handleWrite moves units from the buffer to the wire.
LEMMA HandleWriteFacts ==
  ASSUME TypeOK, DownIsUnwatched, HandleWrite
  PROVE  /\ loopAt = "loop" /\ Output(functors)
         /\ StreamIntegrity => StreamIntegrity'
<1>1. SendTypes /\ functors \in Seq(FunctorType)
  BY TypesForSending
<1>2. PICK n \in 1 .. Len(outputBuffer_) :
        /\ WriteAccepts(outputBuffer_, n)
        /\ outputBuffer_' = SubSeq(outputBuffer_, n + 1, Len(outputBuffer_))
  BY DEF HandleWrite
<1> DEFINE done == SubSeq(outputBuffer_, 1, n)
           rest == SubSeq(outputBuffer_, n + 1, Len(outputBuffer_))
<1>3. n \in 0 .. Len(outputBuffer_) /\ outputBuffer_ \in Seq(Unit)
  BY <1>1 DEF SendTypes
<1>4. done \in Seq(Unit) /\ rest \in Seq(Unit) /\ done \o rest = outputBuffer_
  BY <1>3, Split
<1>5. outputBuffer_' = rest /\ wire' = wire \o done /\ killed' = killed /\ finSent = FALSE
  BY <1>1, <1>2 DEF WriteAccepts, Broken, SendTypes
<1> HIDE DEF done, rest
<1>6. /\ loopAt = "loop" /\ inPoller = TRUE /\ "kWriteEvent" \in events_
      /\ UNCHANGED <<state_, loopAt, historyVars, serverVars, userVars, peerVars, accepted>>
  BY <1>1 DEF HandleWrite, IsWriting, SendTypes
<1>7. state_ # "kDisconnected"
  BY <1>6 DEF DownIsUnwatched
<1>8. wire \o done \in Seq(Unit)
  BY <1>1, <1>4 DEF SendTypes
<1>9. /\ Follows(functors', functors, UserOps)
      /\ events_' \subseteq {"kReadEvent", "kWriteEvent"} /\ inPoller' \in BOOLEAN
      /\ Watching'
      /\ finSent' = finSent \/ outputBuffer_' = <<>>
      /\ finSent' \in BOOLEAN
  <2>1. CASE outputBuffer_' # <<>>
    <3>1. UNCHANGED <<events_, inPoller, functors, finSent>>
      BY <2>1 DEF HandleWrite
    <3>2. Follows(functors', functors, UserOps)
      BY <1>1, <3>1, FollowsItself
    <3> QED
      BY <1>1, <1>6, <2>1, <3>1, <3>2 DEF SendTypes, Watching
  <2>2. CASE outputBuffer_' = <<>>
    <3>1. /\ events_' = events_ \ {"kWriteEvent"}
          /\ functors' = Append(functors, Functor("writeComplete"))
      BY <2>2 DEF HandleWrite
    <3>2. inPoller' = (events_' # {})
      BY <2>2 DEF HandleWrite
    <3>3. finSent' = (finSent \/ ~FALSE) \/ finSent' = finSent
      BY <2>2 DEF HandleWrite, ShutdownInLoop
    <3>4. /\ Functor("writeComplete") \in FunctorType
          /\ Functor("writeComplete").op \in UserOps
      BY DEF Functor, FunctorType, Ops, UserOps
    <3>5. Follows(functors', functors, UserOps)
      BY <1>1, <3>1, <3>4, FollowsItself, AppendFollows
    <3>6. inPoller' \in BOOLEAN
      BY <3>2, Zenon
    <3>7. finSent' \in BOOLEAN
      BY <1>5, <3>3
    <3> QED
      BY <1>1, <2>2, <3>1, <3>5, <3>6, <3>7 DEF SendTypes, Watching
  <2> QED
    BY <2>1, <2>2
<1>10. SendTypes'
  BY <1>1, <1>4, <1>5, <1>6, <1>8, <1>9 DEF SendTypes
<1>11. Output(functors)
  BY <1>5, <1>6, <1>7, <1>9, <1>10 DEF Output, userVars
<1>12. StreamIntegrity => StreamIntegrity'
  <2>1. wire \in Seq(Unit) /\ done \in Seq(Unit) /\ rest \in Seq(Unit)
    BY <1>1, <1>4 DEF SendTypes
  <2>2. (wire \o done) \o rest = wire \o (done \o rest)
    BY ONLY <2>1, ConcatAssociative
  <2> QED
    BY <1>4, <1>5, <1>6, <2>2, Zenon DEF StreamIntegrity
<1> QED
  BY <1>6, <1>11, <1>12

\* What a step may do to the functors: nothing, append what the user, the TcpServer
\* or a caller asked for, or run the first and append what that asked for.
Queueing ==
  \/ functors' = functors
  \/ Follows(functors', functors, UserOps \union {"connectDestroyed"})
  \/ functors # <<>> /\ Follows(functors', Tail(functors), UserOps)
  \/ \E p \in Callers :
       \/ /\ caller[p] = "sending"
          /\ functors' = Append(functors, SendFunctor(p, string[p]))
       \/ /\ caller[p] = "shutting"
          /\ functors' = Append(functors, ShutdownFunctor(p))

\* Every step of the system is of that kind.
LEMMA QueueStep ==
  ASSUME TypeOK, FunctorShape, DownIsUnwatched, Next
  PROVE  Queueing
<1>1. functors \in Seq(FunctorType)
  BY TypesForSending
<1>2. ASSUME functors # <<>>
      PROVE  Follows(Tail(functors), Tail(functors), UserOps)
  BY <1>1, <1>2, TailFacts, FollowsItself
<1>3. ASSUME NEW s, Follows(s, functors, UserOps)
      PROVE  Follows(s, functors, UserOps \union {"connectDestroyed"})
  BY <1>3 DEF Follows
<1>4. Follows(Append(functors, Functor("connectDestroyed")), functors,
              UserOps \union {"connectDestroyed"})
  <2>1. /\ Functor("connectDestroyed") \in FunctorType
        /\ Functor("connectDestroyed").op \in UserOps \union {"connectDestroyed"}
    BY DEF Functor, FunctorType, Ops
  <2> QED
    BY <1>1, <2>1, FollowsItself, AppendFollows
<1>5. CASE ConnectEstablished \/ ConnectDestroyed \/ RunShutdownInLoop \/ RunUserCallback
  <2>1. functors # <<>> /\ functors' = Tail(functors)
    BY <1>5 DEF ConnectEstablished, ConnectDestroyed, RunShutdownInLoop,
                RunUserCallback, Runs
  <2> QED
    BY <1>2, <2>1 DEF Queueing
<1>6. CASE RunSendInLoop
  BY <1>6, RunSendFacts DEF Output, Queueing
<1>7. ASSUME NEW m \in Messages, LoopSend(m)
      PROVE  Queueing
  BY <1>3, <1>7, LoopSendFacts DEF Output, Queueing
<1>8. CASE HandleWrite
  BY <1>3, <1>8, HandleWriteFacts DEF Output, Queueing
<1>9. CASE \/ RunDangling \/ HandleReadClose \/ HandleHup \/ HandleRead
           \/ HandleWriteError \/ LeaveCallback \/ LoopShutdown \/ PeerSends
           \/ \E how \in {"finished", "reset"} : PeerCloses(how)
  BY <1>9 DEF RunDangling, HandleReadClose, HandleHup, HandleRead, HandleWriteError,
              LeaveCallback, LoopShutdown, PeerSends, PeerCloses, connVars, Queueing
<1>10. CASE RemoveConnectionInLoop \/ DestroyServer
  BY <1>4, <1>10 DEF RemoveConnectionInLoop, DestroyServer, Queueing
<1>11. ASSUME NEW p \in Callers, CallerStep(p)
       PROVE  Queueing
  BY <1>11 DEF CallerStep, QueueSend, SetDisconnecting, QueueShutdown, Queueing
<1>12. ASSUME NEW p \in Callers, BeginShutdown(p) \/ Release(p)
       PROVE  Queueing
  BY <1>12 DEF BeginShutdown, Release, Queueing
<1>13. ASSUME NEW p \in Callers, NEW m \in Messages, BeginSend(p, m)
       PROVE  Queueing
  BY <1>13 DEF BeginSend, Queueing
<1> QED
  BY <1>5, <1>6, <1>7, <1>8, <1>9, <1>10, <1>11, <1>12, <1>13
     DEF Next, FunctorStep, EventStep

\* Where the i-th functor of the new queue comes from.
Origin(i) ==
  \/ \E j \in {i, i + 1} \intersect (1 .. Len(functors)) : functors'[i] = functors[j]
  \/ functors'[i].op \in UserOps \union {"connectDestroyed"}
  \/ \E p \in Callers :
       caller[p] = "sending" /\ functors'[i] = SendFunctor(p, string[p])
  \/ \E p \in Callers :
       caller[p] = "shutting" /\ functors'[i] = ShutdownFunctor(p)

\* Every functor of the new queue is an old one or one of the new kinds.
LEMMA QueueMembers ==
  ASSUME TypeOK, CallersHold, Queueing
  PROVE  /\ functors' \in Seq(FunctorType)
         /\ \A i \in 1 .. Len(functors') : Origin(i)
<1>1. functors \in Seq(FunctorType) /\ Len(functors) \in Nat
  BY TypesForSending
<1>2. CASE functors' = functors
  BY <1>1, <1>2 DEF Origin
<1>3. CASE Follows(functors', functors, UserOps \union {"connectDestroyed"})
  <2>1. functors' \in Seq(FunctorType) /\ Len(functors') \in Nat
    BY <1>3 DEF Follows
  <2>2. ASSUME NEW i \in 1 .. Len(functors')
        PROVE  Origin(i)
    <3>1. CASE i \in 1 .. Len(functors)
      BY <1>3, <3>1 DEF Follows, Origin
    <3>2. CASE i \notin 1 .. Len(functors)
      <4>1. i \in Len(functors) + 1 .. Len(functors')
        BY <1>1, <2>1, <3>2
      <4> QED
        BY <1>3, <4>1 DEF Follows, Origin
    <3> QED
      BY <3>1, <3>2
  <2> QED
    BY <2>1, <2>2
<1>4. CASE functors # <<>> /\ Follows(functors', Tail(functors), UserOps)
  <2> DEFINE t == Tail(functors)
  <2>1. /\ t \in Seq(FunctorType) /\ Len(t) = Len(functors) - 1
        /\ \A i \in 1 .. Len(functors) - 1 : t[i] = functors[i + 1]
    BY <1>1, <1>4, TailFacts
  <2>2. Follows(functors', t, UserOps)
    BY <1>4
  <2> HIDE DEF t
  <2>3. functors' \in Seq(FunctorType) /\ Len(functors') \in Nat
    BY <2>2 DEF Follows
  <2>4. ASSUME NEW i \in 1 .. Len(functors')
        PROVE  Origin(i)
    <3>1. CASE i \in 1 .. Len(t)
      <4>1. functors'[i] = t[i]
        BY <2>2, <3>1 DEF Follows
      <4>2. i + 1 \in 1 .. Len(functors) /\ t[i] = functors[i + 1]
        BY <1>1, <2>1, <3>1
      <4> QED
        BY <4>1, <4>2 DEF Origin
    <3>2. CASE i \notin 1 .. Len(t)
      <4>1. i \in Len(t) + 1 .. Len(functors')
        BY <1>1, <2>1, <2>3, <3>2
      <4> QED
        BY <2>2, <4>1 DEF Follows, Origin
    <3> QED
      BY <3>1, <3>2
  <2> QED
    BY <2>3, <2>4
<1>5. ASSUME NEW f \in FunctorType, functors' = Append(functors, f)
      PROVE  /\ functors' \in Seq(FunctorType)
             /\ Len(functors') = Len(functors) + 1 /\ functors'[Len(functors) + 1] = f
             /\ \A i \in 1 .. Len(functors) : functors'[i] = functors[i]
  BY <1>1, <1>5
<1>6. ASSUME NEW p \in Callers, caller[p] = "sending",
             functors' = Append(functors, SendFunctor(p, string[p]))
      PROVE  /\ functors' \in Seq(FunctorType)
             /\ \A i \in 1 .. Len(functors') : Origin(i)
  <2> DEFINE f == SendFunctor(p, string[p])
  <2>1. f \in FunctorType
    BY <1>6 DEF SendFunctor, FunctorType, Ops, CallersHold
  <2> HIDE DEF f
  <2>2. /\ functors' \in Seq(FunctorType)
        /\ Len(functors') = Len(functors) + 1 /\ functors'[Len(functors) + 1] = f
        /\ \A i \in 1 .. Len(functors) : functors'[i] = functors[i]
    BY <1>5, <1>6, <2>1 DEF f
  <2>3. ASSUME NEW i \in 1 .. Len(functors')
        PROVE  Origin(i)
    <3>1. CASE i = Len(functors) + 1
      BY <1>6, <2>2, <3>1 DEF Origin, f
    <3>2. CASE i # Len(functors) + 1
      BY <1>1, <2>2, <3>2 DEF Origin
    <3> QED
      BY <3>1, <3>2
  <2> QED
    BY <2>2, <2>3
<1>7. ASSUME NEW p \in Callers, caller[p] = "shutting",
             functors' = Append(functors, ShutdownFunctor(p))
      PROVE  /\ functors' \in Seq(FunctorType)
             /\ \A i \in 1 .. Len(functors') : Origin(i)
  <2> DEFINE f == ShutdownFunctor(p)
  <2>1. f \in FunctorType
    BY DEF ShutdownFunctor, FunctorType, Ops
  <2> HIDE DEF f
  <2>2. /\ functors' \in Seq(FunctorType)
        /\ Len(functors') = Len(functors) + 1 /\ functors'[Len(functors) + 1] = f
        /\ \A i \in 1 .. Len(functors) : functors'[i] = functors[i]
    BY <1>5, <1>7, <2>1 DEF f
  <2>3. ASSUME NEW i \in 1 .. Len(functors')
        PROVE  Origin(i)
    <3>1. CASE i = Len(functors) + 1
      BY <1>7, <2>2, <3>1 DEF Origin, f
    <3>2. CASE i # Len(functors) + 1
      BY <1>1, <2>2, <3>2 DEF Origin
    <3> QED
      BY <3>1, <3>2
  <2> QED
    BY <2>2, <2>3
<1> QED
  BY <1>2, <1>3, <1>4, <1>6, <1>7 DEF Queueing
------------------------------------------------------------------------------
(***************************************************************************)
(* Every step preserves the invariant, part by part.                       *)
(***************************************************************************)

\* connectDestroyed lets callers that were about to store kDisconnecting do so.
LEMMA LateStores ==
  ASSUME TypeOK, ConnectDestroyed
  PROVE  /\ UNCHANGED <<string, holders, unsent>>
         /\ caller' \in [Callers -> {"idle", "sending", "setting", "shutting"}]
         /\ \A p \in Callers : caller'[p] # caller[p] =>
              caller[p] = "setting" /\ caller'[p] = "shutting"
<1>1. caller \in [Callers -> {"idle", "sending", "setting", "shutting"}]
  BY DEF TypeOK
<1>2. CASE UNCHANGED caller
  BY <1>1, <1>2 DEF ConnectDestroyed
<1>3. ASSUME NEW late \in SUBSET {p \in Callers : caller[p] = "setting"},
             caller' = [p \in Callers |-> IF p \in late THEN "shutting" ELSE caller[p]]
      PROVE  /\ caller' \in [Callers -> {"idle", "sending", "setting", "shutting"}]
             /\ \A p \in Callers : caller'[p] # caller[p] =>
              caller[p] = "setting" /\ caller'[p] = "shutting"
  BY <1>1, <1>3
<1> QED
  BY <1>2, <1>3 DEF ConnectDestroyed

\* The types.
LEMMA TypeStep ==
  ASSUME TypeOK, CallersHold, FunctorShape, DownIsUnwatched, Next
  PROVE  TypeOK'
<1> DEFINE CallerTypes ==
             /\ caller \in [Callers -> {"idle", "sending", "setting", "shutting"}]
             /\ string \in [Callers -> Messages \union {NoMessage}]
             /\ holders \subseteq Callers
             /\ unsent \subseteq Messages
           OtherTypes ==
             /\ state_ \in States
             /\ loopAt \in {"loop", "callback", "closing", "destroying"}
             /\ downs \in Nat
             /\ overwrote \in BOOLEAN
             /\ owner \in {"holds", "removing", "released"}
             /\ serverGone \in BOOLEAN
             /\ readable \in BOOLEAN
             /\ peer \in {"open", "finished", "reset"}
<1>1. functors' \in Seq(FunctorType)
  BY QueueStep, QueueMembers
<1>2. SendTypes /\ CallerTypes /\ OtherTypes
  BY TypesForSending DEF TypeOK
<1>3. SendTypes' /\ CallerTypes' /\ OtherTypes' => TypeOK'
  BY <1>1 DEF TypeOK, SendTypes, Unit, FunctorType
<1>4. ASSUME UNCHANGED userVars
      PROVE  CallerTypes'
  BY <1>2, <1>4 DEF userVars
<1>5. ASSUME UNCHANGED <<state_, loopAt, historyVars, serverVars, peerVars>>
      PROVE  OtherTypes'
  BY <1>2, <1>5 DEF historyVars, serverVars, peerVars
<1>6. ASSUME UNCHANGED <<connVars, outVars>>
      PROVE  SendTypes'
  BY <1>2, <1>6 DEF SendTypes, connVars, outVars
<1> HIDE DEF CallerTypes, OtherTypes
<1>7. CASE ConnectEstablished
  <2>1. SendTypes'
    BY <1>2, <1>7 DEF ConnectEstablished, SendTypes, outVars
  <2>2. CallerTypes'
    BY <1>2, <1>7 DEF ConnectEstablished, CallerTypes
  <2>3. OtherTypes'
    BY <1>2, <1>7 DEF ConnectEstablished, OtherTypes, States, historyVars, serverVars,
       peerVars
  <2> QED
    BY <1>3, <2>1, <2>2, <2>3
<1>8. CASE ConnectDestroyed
  <2>1. SendTypes'
    BY <1>2, <1>8 DEF ConnectDestroyed, SendTypes, outVars
  <2>2. OtherTypes'
    BY <1>2, <1>8 DEF ConnectDestroyed, OtherTypes, States, serverVars, peerVars
  <2>3. CallerTypes'
    BY <1>2, <1>8, LateStores DEF CallerTypes
  <2> QED
    BY <1>3, <2>1, <2>2, <2>3
<1>9. CASE RunShutdownInLoop
  <2>1. finSent' \in BOOLEAN
    BY <1>2, <1>9 DEF RunShutdownInLoop, ShutdownInLoop, SendTypes
  <2>2. SendTypes'
    BY <1>2, <1>9, <2>1 DEF RunShutdownInLoop, SendTypes, connVars
  <2> QED
    BY <1>3, <1>4, <1>5, <1>9, <2>2 DEF RunShutdownInLoop, connVars
<1>10. CASE RunUserCallback
  <2>1. OtherTypes'
    BY <1>2, <1>10 DEF RunUserCallback, OtherTypes, connVars, historyVars, serverVars,
       peerVars
  <2> QED
    BY <1>3, <1>4, <1>6, <1>10, <2>1 DEF RunUserCallback
<1>11. ASSUME Output(Tail(functors)) \/ Output(functors), owner' = owner
       PROVE  TypeOK'
  <2>1. CallerTypes'
    BY <1>2, <1>11 DEF Output, CallerTypes
  <2> QED
    BY <1>3, <1>5, <1>11, <2>1 DEF Output
<1>12. CASE RunSendInLoop
  BY <1>11, <1>12, RunSendFacts DEF Output, serverVars
<1>13. ASSUME NEW m \in Messages, LoopSend(m)
      PROVE  TypeOK'
  BY <1>11, <1>13, LoopSendFacts DEF Output, serverVars
<1>14. CASE HandleWrite
  BY <1>11, <1>14, HandleWriteFacts DEF Output, serverVars
<1>15. CASE HandleReadClose \/ HandleHup
  <2>1. /\ HandleClose
        /\ UNCHANGED <<outputBuffer_, functors, serverVars, userVars, peerVars, outVars>>
    BY <1>15 DEF HandleReadClose, HandleHup
  <2>2. SendTypes'
    BY <1>2, <2>1 DEF HandleClose, SendTypes, outVars
  <2>3. OtherTypes'
    BY <1>2, <2>1 DEF HandleClose, OtherTypes, States, serverVars, peerVars
  <2> QED
    BY <1>3, <1>4, <2>1, <2>2, <2>3
<1>16. CASE HandleRead
  <2>1. OtherTypes'
    BY <1>2, <1>16 DEF HandleRead, OtherTypes, connVars, historyVars, serverVars
  <2> QED
    BY <1>3, <1>4, <1>6, <1>16, <2>1 DEF HandleRead
<1>17. CASE LoopShutdown
  <2>1. finSent' \in BOOLEAN
    BY <1>2, <1>17 DEF LoopShutdown, ShutdownInLoop, SendTypes
  <2>2. SendTypes'
    BY <1>2, <1>17, <2>1 DEF LoopShutdown, SendTypes
  <2>3. OtherTypes'
    BY <1>2, <1>17 DEF LoopShutdown, OtherTypes, States, historyVars, serverVars, peerVars
  <2> QED
    BY <1>3, <1>4, <1>17, <2>2, <2>3 DEF LoopShutdown
<1>18. CASE PeerSends \/ \E how \in {"finished", "reset"} : PeerCloses(how)
  <2>1. OtherTypes'
    BY <1>2, <1>18 DEF PeerSends, PeerCloses, OtherTypes, connVars, historyVars, serverVars
  <2> QED
    BY <1>3, <1>4, <1>6, <1>18, <2>1 DEF PeerSends, PeerCloses
<1>19. CASE HandleWriteError \/ RunDangling
  <2>1. killed' \in BOOLEAN
    BY <1>19, Zenon DEF HandleWriteError, WriteFails, RunDangling
  <2>2. SendTypes'
    BY <1>2, <1>19, <2>1 DEF HandleWriteError, WriteFails, RunDangling, SendTypes, connVars
  <2> QED
    BY <1>3, <1>4, <1>5, <1>19, <2>2 DEF HandleWriteError, RunDangling, connVars
<1>20. CASE LeaveCallback
  <2>1. inPoller' = (inPoller /\ loopAt # "destroying")
    BY <1>20 DEF LeaveCallback
  <2>2. inPoller' \in BOOLEAN
    BY <2>1, Zenon
  <2>3. SendTypes'
    BY <1>2, <1>20, <2>2 DEF LeaveCallback, SendTypes, outVars
  <2>4. OtherTypes'
    BY <1>2, <1>20 DEF LeaveCallback, OtherTypes, historyVars, peerVars
  <2> QED
    BY <1>3, <1>4, <1>20, <2>3, <2>4 DEF LeaveCallback
<1>21. CASE RemoveConnectionInLoop \/ DestroyServer
  <2>1. OtherTypes'
    BY <1>2, <1>21 DEF RemoveConnectionInLoop, DestroyServer, OtherTypes, connVars,
       historyVars, peerVars
  <2> QED
    BY <1>3, <1>4, <1>6, <1>21, <2>1 DEF RemoveConnectionInLoop, DestroyServer
<1>22. ASSUME NEW p \in Callers, QueueSend(p) \/ QueueShutdown(p) \/ BeginShutdown(p)
       PROVE  TypeOK'
  <2>1. CallerTypes'
    BY <1>2, <1>22 DEF QueueSend, QueueShutdown, BeginShutdown, CallerTypes
  <2>2. /\ UNCHANGED <<connVars, outVars>>
        /\ UNCHANGED <<state_, loopAt, historyVars, serverVars, peerVars>>
    BY <1>22 DEF QueueSend, QueueShutdown, BeginShutdown, connVars
  <2> QED
    BY <1>3, <1>5, <1>6, <2>1, <2>2
<1>23. ASSUME NEW p \in Callers, SetDisconnecting(p)
       PROVE  TypeOK'
  <2>1. CallerTypes'
    BY <1>2, <1>23 DEF SetDisconnecting, CallerTypes
  <2>2. OtherTypes'
    BY <1>2, <1>23 DEF SetDisconnecting, OtherTypes, States, serverVars, peerVars
  <2>3. SendTypes'
    BY <1>2, <1>23 DEF SetDisconnecting, SendTypes, outVars
  <2> QED
    BY <1>3, <2>1, <2>2, <2>3
<1>24. ASSUME NEW p \in Callers, Release(p)
       PROVE  TypeOK'
  <2>1. CallerTypes'
    BY <1>2, <1>24 DEF Release, CallerTypes
  <2> QED
    BY <1>3, <1>5, <1>6, <1>24, <2>1 DEF Release, connVars
<1>25. ASSUME NEW p \in Callers, NEW m \in Messages, BeginSend(p, m)
       PROVE  TypeOK'
  <2>1. CallerTypes'
    BY <1>2, <1>25 DEF BeginSend, CallerTypes
  <2> QED
    BY <1>3, <1>5, <1>6, <1>25, <2>1 DEF BeginSend, connVars
<1> QED
  BY <1>7, <1>8, <1>9, <1>10, <1>12, <1>13, <1>14, <1>15, <1>16, <1>17, <1>18, <1>19,
     <1>20, <1>21, <1>22, <1>23, <1>24, <1>25
     DEF Next, FunctorStep, EventStep, CallerStep

\* What holds of the callers in the middle of a call.
LEMMA CallersStep ==
  ASSUME TypeOK, FunctorShape, DownIsUnwatched, CallersHold, Next
  PROVE  /\ CallersHold'
         /\ \A q \in Callers : string[q] \in Messages => string'[q] \in Messages
<1>1. ASSUME UNCHANGED <<caller, string, holders>>
      PROVE  CallersHold' /\ string' = string
  BY <1>1 DEF CallersHold
<1>2. CASE ConnectEstablished
  BY <1>2 DEF ConnectEstablished, CallersHold
<1>3. CASE \/ RunDangling \/ RunShutdownInLoop \/ RunUserCallback
           \/ HandleReadClose \/ HandleHup \/ HandleRead \/ HandleWriteError
           \/ LeaveCallback \/ LoopShutdown \/ RemoveConnectionInLoop \/ DestroyServer
           \/ PeerSends \/ \E how \in {"finished", "reset"} : PeerCloses(how)
  <2>1. UNCHANGED userVars
    BY <1>3 DEF RunDangling, RunShutdownInLoop, RunUserCallback, HandleReadClose,
       HandleHup, HandleRead, HandleWriteError, LeaveCallback, LoopShutdown,
       RemoveConnectionInLoop, DestroyServer, PeerSends, PeerCloses
  <2> QED
    BY <1>1, <2>1 DEF userVars
<1>4. CASE RunSendInLoop
  BY <1>1, <1>4, RunSendFacts DEF Output
<1>5. ASSUME NEW m \in Messages, LoopSend(m)
      PROVE  CallersHold' /\ string' = string
  BY <1>1, <1>5, LoopSendFacts DEF Output
<1>6. CASE HandleWrite
  BY <1>1, <1>6, HandleWriteFacts DEF Output
<1>7. ASSUME NEW p \in Callers, CallerStep(p)
      PROVE  CallersHold' /\ string' = string
  BY <1>7 DEF CallerStep, QueueSend, SetDisconnecting, QueueShutdown, CallersHold, TypeOK
<1>8. ASSUME NEW p \in Callers, BeginShutdown(p) \/ Release(p)
      PROVE  CallersHold' /\ string' = string
  BY <1>8 DEF BeginShutdown, Release, CallersHold, TypeOK
<1>9. ASSUME NEW p \in Callers, NEW m \in Messages, BeginSend(p, m)
      PROVE  /\ CallersHold'
             /\ \A q \in Callers : string[q] \in Messages => string'[q] \in Messages
  <2>1. /\ p \in holders /\ holders' = holders
        /\ string' = [string EXCEPT ![p] = m]
        /\ caller' = caller \/ caller' = [caller EXCEPT ![p] = "sending"]
    BY <1>9 DEF BeginSend
  <2>2. /\ caller \in [Callers -> {"idle", "sending", "setting", "shutting"}]
        /\ string \in [Callers -> Messages \union {NoMessage}]
    BY DEF TypeOK
  <2>3. string'[p] = m /\ \A q \in Callers \ {p} : string'[q] = string[q]
    BY <2>1, <2>2
  <2>4. \A q \in Callers \ {p} : caller'[q] = caller[q]
    BY <2>1, <2>2
  <2> QED
    BY <2>1, <2>3, <2>4 DEF CallersHold
<1>10. CASE ConnectDestroyed
  BY <1>10, LateStores DEF CallersHold
<1> QED
  BY <1>2, <1>3, <1>4, <1>5, <1>6, <1>7, <1>8, <1>9, <1>10
     DEF Next, FunctorStep, EventStep, ConnectEstablished

\* The functors bound to a raw `this`.
LEMMA ShapeStep ==
  ASSUME TypeOK, FunctorShape, DownIsUnwatched, CallersHold, Next
  PROVE  FunctorShape'
<1>1. \A i \in 1 .. Len(functors') : Origin(i)
  BY QueueStep, QueueMembers
<1>2. \A q \in Callers : string[q] \in Messages => string'[q] \in Messages
  BY CallersStep
<1> SUFFICES ASSUME NEW i \in 1 .. Len(functors')
             PROVE  RawShape(functors[i])'
  BY DEF FunctorShape
<1>3. Origin(i)
  BY <1>1
<1>4. ASSUME NEW j \in 1 .. Len(functors), functors'[i] = functors[j]
      PROVE  RawShape(functors[i])'
  <2>1. RawShape(functors[j])
    BY DEF FunctorShape
  <2> QED
    BY <1>2, <1>4, <2>1 DEF RawShape
<1>5. CASE functors'[i].op \in UserOps \union {"connectDestroyed"}
  BY <1>5 DEF RawShape, UserOps
<1>6. ASSUME NEW p \in Callers, caller[p] = "sending",
             functors'[i] = SendFunctor(p, string[p])
      PROVE  RawShape(functors[i])'
  <2>1. string[p] \in Messages
    BY <1>6 DEF CallersHold
  <2> QED
    BY <1>2, <1>6, <2>1 DEF RawShape, SendFunctor
<1>7. ASSUME NEW p \in Callers, functors'[i] = ShutdownFunctor(p)
      PROVE  RawShape(functors[i])'
  BY <1>7 DEF RawShape, ShutdownFunctor
<1> QED
  BY <1>3, <1>4, <1>5, <1>6, <1>7 DEF Origin

\* connectEstablished comes first: until it has run, only it, the TcpServer and
\* the peer can take a step.
LEMMA EstablishedStep ==
  ASSUME TypeOK, FunctorShape, DownIsUnwatched, CallersHold, EstablishedFirst, Next
  PROVE  EstablishedFirst'
<1>1. functors \in Seq(FunctorType) /\ Len(functors) \in Nat
  BY TypesForSending
<1>2. \A i \in 1 .. Len(functors') : Origin(i)
  BY QueueStep, QueueMembers
<1>3. CASE state_ # "kConnecting"
  <2>1. \A i \in 1 .. Len(functors) : functors[i].op # "connectEstablished"
    BY <1>3 DEF EstablishedFirst
  <2>2. \A i \in 1 .. Len(functors') : functors'[i].op # "connectEstablished"
    <3> SUFFICES ASSUME NEW i \in 1 .. Len(functors')
                 PROVE  functors'[i].op # "connectEstablished"
      OBVIOUS
    <3>1. Origin(i)
      BY <1>2
    <3>2. ASSUME NEW p \in Callers,
                 \/ functors'[i] = SendFunctor(p, string[p])
                 \/ functors'[i] = ShutdownFunctor(p)
          PROVE  functors'[i].op # "connectEstablished"
      BY <3>2 DEF SendFunctor, ShutdownFunctor
    <3>3. CASE functors'[i].op \in UserOps \union {"connectDestroyed"}
      BY <3>3 DEF UserOps
    <3> QED
      BY <2>1, <3>1, <3>2, <3>3 DEF Origin
  <2>3. state_' # "kConnecting"
    <3>1. CASE \/ RunSendInLoop \/ HandleWrite \/ \E m \in Messages : LoopSend(m)
      BY <1>3, <3>1, RunSendFacts, HandleWriteFacts, LoopSendFacts DEF Output
    <3>2. CASE \/ RunDangling \/ RunShutdownInLoop \/ RunUserCallback
               \/ HandleRead \/ HandleWriteError
               \/ LeaveCallback \/ RemoveConnectionInLoop \/ DestroyServer \/ PeerSends
               \/ \E how \in {"finished", "reset"} : PeerCloses(how)
               \/ \E p \in Callers, m \in Messages : BeginSend(p, m)
               \/ \E p \in Callers : \/ BeginShutdown(p) \/ Release(p)
                                     \/ QueueSend(p) \/ QueueShutdown(p)
      BY <1>3, <3>2 DEF RunDangling, RunShutdownInLoop, RunUserCallback, HandleRead,
         HandleWriteError, LeaveCallback, RemoveConnectionInLoop, DestroyServer, PeerSends, PeerCloses,
         BeginSend, BeginShutdown, Release, QueueSend, QueueShutdown, connVars
    <3>3. CASE \/ ConnectEstablished \/ ConnectDestroyed \/ HandleReadClose \/ HandleHup
               \/ LoopShutdown \/ \E p \in Callers : SetDisconnecting(p)
      BY <1>3, <3>3 DEF ConnectEstablished, ConnectDestroyed, HandleReadClose, HandleHup,
         HandleClose, LoopShutdown, SetDisconnecting
    <3> QED
      BY <3>1, <3>2, <3>3 DEF Next, FunctorStep, EventStep, CallerStep
  <2> QED
    BY <2>2, <2>3 DEF EstablishedFirst
<1>4. CASE state_ = "kConnecting"
  <2>1. Untouched
    BY <1>4 DEF EstablishedFirst
  <2>2. \A p \in Callers : caller[p] = "idle"
    BY <2>1 DEF CallersHold, Untouched
  <2>3. Head(functors) = functors[1] /\ functors # <<>>
    BY <1>1, <2>1, TailFacts DEF Untouched
  <2>4. /\ ~ (ConnectDestroyed \/ RunSendInLoop \/ RunShutdownInLoop \/ RunDangling)
        /\ ~ RunUserCallback
        /\ ~ (HandleReadClose \/ HandleHup \/ HandleRead \/ HandleWriteError \/ HandleWrite)
        /\ ~ (LeaveCallback \/ LoopShutdown)
        /\ ~ \E m \in Messages : LoopSend(m)
    BY <2>1, <2>3 DEF Untouched, ConnectDestroyed, RunSendInLoop, RunShutdownInLoop,
       RunDangling, RunUserCallback, Runs, HandleReadClose, HandleHup, HandleRead, HandleWriteError,
       HandleWrite, LeaveCallback, LoopShutdown, LoopSend
  <2>5. /\ ~ \E p \in Callers : CallerStep(p) \/ BeginShutdown(p) \/ Release(p)
        /\ ~ \E p \in Callers, m \in Messages : BeginSend(p, m)
    BY <2>1, <2>2 DEF Untouched, CallerStep, QueueSend, SetDisconnecting, QueueShutdown,
       BeginShutdown, Release, BeginSend
  <2>6. CASE ConnectEstablished
    <3>1. state_' = "kConnected" /\ functors' = Tail(functors)
      BY <2>6 DEF ConnectEstablished
    <3>2. \A i \in 1 .. Len(functors') : functors'[i].op # "connectEstablished"
      <4> DEFINE t == Tail(functors)
      <4>1. /\ Len(t) = Len(functors) - 1
            /\ \A i \in 1 .. Len(functors) - 1 : t[i] = functors[i + 1]
        BY <1>1, <2>3, TailFacts
      <4>2. functors' = t
        BY <3>1
      <4> HIDE DEF t
      <4> SUFFICES ASSUME NEW i \in 1 .. Len(t)
                   PROVE  t[i].op # "connectEstablished"
        BY <4>2
      <4>3. i + 1 \in 1 .. Len(functors) /\ t[i] = functors[i + 1] /\ i + 1 # 1
        BY <1>1, <4>1
      <4> QED
        BY <4>3 DEF EstablishedFirst
    <3> QED
      BY <3>1, <3>2 DEF EstablishedFirst
  <2>7. CASE RemoveConnectionInLoop \/ DestroyServer
    <3>1. UNCHANGED <<connVars, loopAt, historyVars, userVars, outVars>>
      BY <2>7 DEF RemoveConnectionInLoop, DestroyServer
    <3>2. functors' = functors \/ functors' = Append(functors, Functor("connectDestroyed"))
      BY <2>7 DEF RemoveConnectionInLoop, DestroyServer
    <3>3. /\ functors' # <<>> /\ functors'[1] = functors[1]
          /\ \A i \in 1 .. Len(functors') :
               functors'[i].op = "connectEstablished" => i = 1
      <4>1. Functor("connectDestroyed").op # "connectEstablished"
        BY DEF Functor
      <4>2. Functor("connectDestroyed") \in FunctorType
        BY DEF Functor, FunctorType, Ops
      <4> QED
        BY <1>1, <2>3, <3>2, <4>1, <4>2 DEF EstablishedFirst
    <3> QED
      BY <1>4, <2>1, <3>1, <3>3 DEF EstablishedFirst, Untouched, connVars, historyVars,
         userVars, outVars
  <2>8. CASE PeerSends \/ \E how \in {"finished", "reset"} : PeerCloses(how)
    <3>1. UNCHANGED <<connVars, functors, loopAt, historyVars, userVars, outVars>>
      BY <2>8 DEF PeerSends, PeerCloses
    <3> QED
      BY <1>4, <2>1, <3>1 DEF EstablishedFirst, Untouched, connVars, historyVars, userVars,
         outVars
  <2> QED
    BY <2>4, <2>5, <2>6, <2>7, <2>8 DEF Next, FunctorStep, EventStep
<1> QED
  BY <1>3, <1>4

\* The steps that matter to what follows; the others leave the connection and
\* what has gone out alone.
LEMMA StepKinds ==
  ASSUME TypeOK, FunctorShape, DownIsUnwatched, Next
  PROVE  \/ UNCHANGED <<connVars, historyVars, finSent, wire, accepted>>
         \/ \E queue \in {functors, Tail(functors)} : Output(queue)
         \/ ConnectEstablished \/ ConnectDestroyed \/ RunShutdownInLoop
         \/ HandleReadClose \/ HandleHup \/ LeaveCallback \/ LoopShutdown
         \/ \E p \in Callers : SetDisconnecting(p)
<1>1. CASE \/ RunDangling \/ RunUserCallback \/ HandleRead \/ HandleWriteError
           \/ RemoveConnectionInLoop \/ DestroyServer \/ PeerSends
           \/ \E how \in {"finished", "reset"} : PeerCloses(how)
           \/ \E p \in Callers, m \in Messages : BeginSend(p, m)
           \/ \E p \in Callers : \/ BeginShutdown(p) \/ Release(p)
                                 \/ QueueSend(p) \/ QueueShutdown(p)
  BY <1>1 DEF RunDangling, RunUserCallback, HandleRead, HandleWriteError, WriteFails,
     RemoveConnectionInLoop, DestroyServer, PeerSends, PeerCloses, BeginSend, BeginShutdown,
     Release, QueueSend, QueueShutdown, outVars
<1>2. CASE \/ RunSendInLoop \/ HandleWrite \/ \E m \in Messages : LoopSend(m)
  BY <1>2, RunSendFacts, HandleWriteFacts, LoopSendFacts
<1> QED
  BY <1>1, <1>2 DEF Next, FunctorStep, EventStep, CallerStep

\* connectEstablished finds a connection that nothing has happened to.
LEMMA EstablishedFinds ==
  ASSUME TypeOK, EstablishedFirst, ConnectEstablished
  PROVE  Untouched
<1>1. functors \in Seq(FunctorType) /\ functors # <<>>
  BY TypesForSending DEF ConnectEstablished, Runs
<1>2. Len(functors) \in Nat /\ Len(functors) > 0 /\ Head(functors) = functors[1]
  BY <1>1, TailFacts
<1>3. functors[1].op = "connectEstablished"
  BY <1>2 DEF ConnectEstablished, Runs
<1> QED
  BY <1>2, <1>3 DEF EstablishedFirst

\* Down means not watched, and the user is told once.
LEMMA DownStep ==
  ASSUME ConnInv, Next
  PROVE  DownIsUnwatched' /\ ToldOnce'
<1>1. /\ TypeOK /\ FunctorShape /\ CallersHold /\ EstablishedFirst
      /\ DownIsUnwatched /\ ToldOnce
  BY DEF ConnInv
<1>2. downs \in Nat /\ inPoller \in BOOLEAN /\ overwrote \in BOOLEAN
  BY <1>1 DEF TypeOK
<1>3. CASE UNCHANGED <<connVars, historyVars, finSent, wire, accepted>>
  BY <1>1, <1>3 DEF DownIsUnwatched, ToldOnce, connVars, historyVars
<1>4. ASSUME NEW queue, Output(queue)
      PROVE  DownIsUnwatched' /\ ToldOnce'
  BY <1>1, <1>4 DEF Output, DownIsUnwatched, ToldOnce, historyVars
<1>5. CASE ConnectEstablished
  <2>1. Untouched
    BY <1>1, <1>5, EstablishedFinds
  <2> QED
    BY <1>1, <1>5, <2>1 DEF Untouched, ConnectEstablished, historyVars,
       DownIsUnwatched, ToldOnce
<1>6. CASE ConnectDestroyed
  <2>1. CASE state_ = "kConnected"
    BY <1>1, <1>2, <1>6, <2>1 DEF ConnectDestroyed, DownIsUnwatched, ToldOnce
  <2>2. CASE state_ # "kConnected"
    BY <1>1, <1>6, <2>2 DEF ConnectDestroyed, DownIsUnwatched, ToldOnce
  <2> QED
    BY <2>1, <2>2
<1>7. CASE RunShutdownInLoop
  BY <1>1, <1>7 DEF RunShutdownInLoop, connVars, historyVars, DownIsUnwatched, ToldOnce
<1>8. CASE HandleReadClose \/ HandleHup
  <2>1. state_ # "kDisconnected" /\ HandleClose
    BY <1>1, <1>2, <1>8 DEF HandleReadClose, HandleHup, DownIsUnwatched
  <2> QED
    BY <1>1, <1>2, <2>1 DEF HandleClose, DownIsUnwatched, ToldOnce
<1>9. CASE LeaveCallback
  BY <1>1, <1>9 DEF LeaveCallback, historyVars, DownIsUnwatched, ToldOnce
<1>10. CASE LoopShutdown
  BY <1>1, <1>10 DEF LoopShutdown, historyVars, DownIsUnwatched, ToldOnce
<1>11. ASSUME NEW p \in Callers, SetDisconnecting(p)
       PROVE  DownIsUnwatched' /\ ToldOnce'
  BY <1>1, <1>2, <1>11 DEF SetDisconnecting, DownIsUnwatched, ToldOnce
<1> QED
  BY <1>1, <1>3, <1>4, <1>5, <1>6, <1>7, <1>8, <1>9, <1>10, <1>11, StepKinds

\* While the connection is up the channel watches for writability when something
\* is buffered, and nothing is buffered behind FIN.
LEMMA WatchStep ==
  ASSUME ConnInv, Next
  PROVE  WatchesWhileBuffered' /\ FinDrained'
<1>1. /\ TypeOK /\ FunctorShape /\ CallersHold /\ EstablishedFirst
      /\ DownIsUnwatched /\ WatchesWhileBuffered /\ FinDrained
  BY DEF ConnInv
<1>2. /\ downs \in Nat /\ finSent \in BOOLEAN /\ inPoller \in BOOLEAN
      /\ outputBuffer_ \in Seq(Unit)
  BY <1>1, TypesForSending DEF TypeOK, SendTypes
<1>3. WatchesWhileBuffered <=> (Up => Watching)
  BY DEF WatchesWhileBuffered, Watching, IsWriting
<1>4. WatchesWhileBuffered' <=> (Up' => Watching')
  BY DEF WatchesWhileBuffered, Watching, IsWriting
<1>5. CASE UNCHANGED <<connVars, historyVars, finSent, wire, accepted>>
  BY <1>1, <1>5 DEF Up, WatchesWhileBuffered, IsWriting, FinDrained, connVars, historyVars
<1>6. ASSUME NEW queue, Output(queue)
      PROVE  WatchesWhileBuffered' /\ FinDrained'
  <2>1. Up' <=> Up
    BY <1>6 DEF Output, Up, historyVars
  <2>2. /\ Watching => Watching'
        /\ finSent = TRUE /\ Watching /\ outputBuffer_ = <<>> => outputBuffer_' = <<>>
        /\ finSent' = finSent \/ outputBuffer_' = <<>>
    BY <1>6 DEF Output
  <2> QED
    BY <1>1, <1>3, <1>4, <2>1, <2>2 DEF FinDrained
<1>7. CASE ConnectEstablished
  <2>1. Untouched
    BY <1>1, <1>7, EstablishedFinds
  <2>2. /\ events_' = events_ \union {"kReadEvent"} /\ outputBuffer_' = outputBuffer_
    BY <1>7 DEF ConnectEstablished
  <2> QED
    BY <1>4, <2>1, <2>2 DEF Untouched, Watching, FinDrained
<1>8. CASE ConnectDestroyed \/ HandleReadClose \/ HandleHup
  <2>1. \/ Up' = FALSE
        \/ UNCHANGED <<state_, events_, outputBuffer_, downs, finSent>>
    BY <1>8 DEF ConnectDestroyed, HandleReadClose, HandleHup, HandleClose, Up, outVars
  <2> QED
    BY <1>1, <1>4, <2>1 DEF WatchesWhileBuffered, FinDrained, IsWriting, Up
<1>9. CASE RunShutdownInLoop \/ LoopShutdown
  <2>1. /\ UNCHANGED <<events_, outputBuffer_, downs>>
        /\ finSent' = (finSent \/ ~IsWriting)
        /\ state_' = state_ \/ state_ = "kConnected"
    BY <1>9 DEF RunShutdownInLoop, LoopShutdown, ShutdownInLoop, connVars, historyVars
  <2>2. Up' => Up
    BY <2>1 DEF Up
  <2>3. WatchesWhileBuffered'
    BY <1>1, <2>1, <2>2 DEF WatchesWhileBuffered, IsWriting
  <2>4. FinDrained'
    BY <1>1, <1>2, <2>1, <2>2 DEF WatchesWhileBuffered, FinDrained
  <2> QED
    BY <2>3, <2>4
<1>10. CASE LeaveCallback
  BY <1>1, <1>10 DEF LeaveCallback, historyVars, outVars, WatchesWhileBuffered, FinDrained,
     IsWriting, Up
<1>11. ASSUME NEW p \in Callers, SetDisconnecting(p)
       PROVE  WatchesWhileBuffered' /\ FinDrained'
  <2>1. UNCHANGED <<events_, outputBuffer_, downs, finSent>>
    BY <1>11 DEF SetDisconnecting, outVars
  <2>2. state_ # "kConnecting"
    <3>1. p \in holders
      BY <1>1, <1>11 DEF SetDisconnecting, CallersHold
    <3> QED
      BY <1>1, <3>1 DEF EstablishedFirst, Untouched
  <2>3. Up' => Up
    BY <1>1, <1>2, <2>1, <2>2 DEF Up, TypeOK, States, DownIsUnwatched
  <2> QED
    BY <1>1, <2>1, <2>3 DEF WatchesWhileBuffered, FinDrained, IsWriting
<1> QED
  BY <1>1, <1>5, <1>6, <1>7, <1>8, <1>9, <1>10, <1>11, StepKinds
------------------------------------------------------------------------------
(***************************************************************************)
(* The theorems.                                                           *)
(***************************************************************************)

\* The invariant holds at first, when TcpServer::newConnection has queued
\* connectEstablished ...
LEMMA ConnInvInit ==
  ASSUME Init
  PROVE  ConnInv
<1> DEFINE f == Functor("connectEstablished")
<1>1. f \in FunctorType /\ f.op = "connectEstablished"
  BY DEF Functor, FunctorType, Ops
<1>2. functors = <<f>>
  BY DEF Init
<1> HIDE DEF f
<1>3. /\ functors \in Seq(FunctorType) /\ functors # <<>>
      /\ Len(functors) = 1 /\ functors[1] = f
  BY <1>1, <1>2
<1>4. <<>> \in Seq(Messages \X Nat)
  OBVIOUS
<1>5. TypeOK
  BY <1>3, <1>4 DEF Init, TypeOK, States, FunctorType
<1>6. CallersHold
  BY DEF Init, CallersHold
<1>7. FunctorShape
  BY <1>1, <1>3 DEF FunctorShape, RawShape
<1>8. EstablishedFirst
  BY <1>1, <1>3 DEF Init, EstablishedFirst, Untouched
<1>9. DownIsUnwatched /\ ToldOnce /\ WatchesWhileBuffered /\ FinDrained
  BY DEF Init, DownIsUnwatched, ToldOnce, WatchesWhileBuffered, FinDrained, Up
<1> QED
  BY <1>5, <1>6, <1>7, <1>8, <1>9 DEF ConnInv

\* ... and always.
LEMMA ConnInvHolds == SafetySpec => []ConnInv
<1>1. ASSUME ConnInv, [Next]_vars
      PROVE  ConnInv'
  <2>1. CASE Next
    <3>1. TypeOK /\ CallersHold /\ FunctorShape /\ EstablishedFirst /\ DownIsUnwatched
      BY <1>1 DEF ConnInv
    <3>2. TypeOK' /\ CallersHold' /\ FunctorShape' /\ EstablishedFirst'
      BY <2>1, <3>1, TypeStep, CallersStep, ShapeStep, EstablishedStep
    <3>3. DownIsUnwatched' /\ ToldOnce' /\ WatchesWhileBuffered' /\ FinDrained'
      BY <1>1, <2>1, DownStep, WatchStep
    <3> QED
      BY <3>2, <3>3 DEF ConnInv
  <2>2. CASE UNCHANGED vars
    BY <1>1, <2>2 DEF vars, connVars, userVars, serverVars, peerVars, historyVars, outVars,
       ConnInv, TypeOK, CallersHold, FunctorShape, RawShape, EstablishedFirst, Untouched,
       DownIsUnwatched, ToldOnce, WatchesWhileBuffered, FinDrained, Up, IsWriting
  <2> QED
    BY <1>1, <2>1, <2>2
<1> QED
  BY <1>1, ConnInvInit, PTL DEF SafetySpec

\* TypeOK (the members of TcpConnection.h:85-105 and the functors of
\* TcpConnection.cc): every variable keeps its type, whatever is queued.
THEOREM TypeCorrect == SafetySpec => []TypeOK
<1>1. ConnInv => TypeOK
  BY DEF ConnInv
<1> QED
  BY <1>1, ConnInvHolds, PTL

\* TcpConnection.cc:119-122, 197-200: while the connection is up the channel
\* watches for writability exactly when something is buffered, for any mix of
\* callers, callbacks and partial writes.
THEOREM WatchesWhileBufferedHolds == SafetySpec => []WatchesWhileBuffered
<1>1. ConnInv => WatchesWhileBuffered
  BY DEF ConnInv
<1> QED
  BY <1>1, ConnInvHolds, PTL

\* TcpConnection.cc:161, 234: the user is told once that a connection is down, by
\* handleClose or by connectDestroyed, as long as no shutdown() on another thread
\* has undone kDisconnected.
THEOREM DownOnceHolds == SafetySpec => []DownOnce
<1>1. ConnInv => DownOnce
  BY DEF ConnInv, TypeOK, ToldOnce, DownOnce
<1> QED
  BY <1>1, ConnInvHolds, PTL

\* TcpConnection.cc:155-164, 225-236: a Channel destroyed with a connection that is
\* down is not on the epoll tree.
THEOREM RemovedBeforeDestroyedHolds == SafetySpec => []RemovedBeforeDestroyed
<1>1. ConnInv => RemovedBeforeDestroyed
  BY DEF ConnInv, DownIsUnwatched, RemovedBeforeDestroyed
<1> QED
  BY <1>1, ConnInvHolds, PTL

\* TcpConnection.cc:72-76: nothing is written or buffered once the connection is
\* down, again unless a shutdown() has undone kDisconnected.
THEOREM NoDataAfterDownHolds == SafetySpec => NoDataAfterDown
<1>1. ASSUME ConnInv, [Next]_vars
      PROVE  [downs > 0 /\ ~overwrote => wire' = wire /\ outputBuffer_' = outputBuffer_]_vars
  <2> SUFFICES ASSUME Next, downs > 0, ~overwrote
               PROVE  wire' = wire /\ outputBuffer_' = outputBuffer_
    BY <1>1
  <2>1. /\ TypeOK /\ FunctorShape /\ CallersHold /\ EstablishedFirst
        /\ DownIsUnwatched /\ ToldOnce
    BY <1>1 DEF ConnInv
  <2>2. state_ = "kDisconnected"
    BY <2>1 DEF ToldOnce, TypeOK
  <2>3. ASSUME NEW queue, Output(queue)
        PROVE  wire' = wire /\ outputBuffer_' = outputBuffer_
    BY <2>2, <2>3 DEF Output
  <2>4. CASE \/ UNCHANGED <<connVars, historyVars, finSent, wire, accepted>>
             \/ ConnectEstablished \/ ConnectDestroyed \/ RunShutdownInLoop
             \/ HandleReadClose \/ HandleHup \/ LeaveCallback \/ LoopShutdown
             \/ \E p \in Callers : SetDisconnecting(p)
    BY <2>4 DEF ConnectEstablished, ConnectDestroyed, RunShutdownInLoop, HandleReadClose,
       HandleHup, LeaveCallback, LoopShutdown, SetDisconnecting, connVars, outVars
  <2> QED
    BY <2>1, <2>3, <2>4, StepKinds
<1> QED
  BY <1>1, ConnInvHolds, PTL DEF SafetySpec, NoDataAfterDown
------------------------------------------------------------------------------
(***************************************************************************)
(* Callers that leave their string as it is until the loop has sent it:    *)
(* CallersWait.                                                            *)
(***************************************************************************)

\* A queued sendInLoop finds the message it was queued for.
CallerKeeps(f) == f.op = "sendInLoop" => string[f.by] = f.message

CallersKeep == \A i \in 1 .. Len(functors) : CallerKeeps(functors[i])

\* A caller in the middle of a call or with a functor in the queue keeps its string.
LEMMA BusyCallersKeep ==
  ASSUME CallersWait = TRUE, TypeOK, FunctorShape, DownIsUnwatched, Next,
         NEW q \in Callers, caller[q] # "idle" \/ QueuedBy(q)
  PROVE  string'[q] = string[q]
<1>1. CASE UNCHANGED string
  BY <1>1
<1>2. CASE ConnectEstablished
  BY <1>2 DEF ConnectEstablished
<1>3. CASE \/ ConnectDestroyed \/ RunShutdownInLoop \/ RunDangling \/ RunUserCallback
           \/ HandleReadClose \/ HandleHup \/ HandleRead \/ HandleWriteError
           \/ LeaveCallback \/ LoopShutdown \/ RemoveConnectionInLoop \/ DestroyServer
           \/ PeerSends \/ \E how \in {"finished", "reset"} : PeerCloses(how)
           \/ \E p \in Callers : CallerStep(p) \/ BeginShutdown(p) \/ Release(p)
  <2>1. UNCHANGED string
    BY <1>3 DEF ConnectDestroyed, RunShutdownInLoop, RunDangling, RunUserCallback,
       HandleReadClose, HandleHup, HandleRead, HandleWriteError, LeaveCallback,
       LoopShutdown, RemoveConnectionInLoop, DestroyServer, PeerSends, PeerCloses,
       CallerStep, QueueSend, SetDisconnecting, QueueShutdown, BeginShutdown, Release,
       userVars
  <2> QED
    BY <1>1, <2>1
<1>4. CASE RunSendInLoop \/ HandleWrite \/ \E m \in Messages : LoopSend(m)
  BY <1>1, <1>4, RunSendFacts, HandleWriteFacts, LoopSendFacts DEF Output
<1>5. ASSUME NEW p \in Callers, NEW m \in Messages, BeginSend(p, m)
      PROVE  string'[q] = string[q]
  <2>1. p # q /\ string' = [string EXCEPT ![p] = m]
    BY <1>5 DEF BeginSend
  <2>2. string \in [Callers -> Messages \union {NoMessage}]
    BY DEF TypeOK
  <2> QED
    BY <2>1, <2>2
<1> QED
  BY <1>2, <1>3, <1>4, <1>5 DEF Next, FunctorStep, EventStep

\* So the functors in the queue find what they were queued for.
LEMMA CallersKeepStep ==
  ASSUME CallersWait = TRUE, ConnInv, CallersKeep, Next
  PROVE  CallersKeep'
<1>1. TypeOK /\ FunctorShape /\ DownIsUnwatched /\ CallersHold
  BY DEF ConnInv
<1>2. \A i \in 1 .. Len(functors') : Origin(i)
  BY <1>1, QueueStep, QueueMembers
<1>3. functors \in Seq(FunctorType)
  BY <1>1, TypesForSending
<1> SUFFICES ASSUME NEW i \in 1 .. Len(functors')
             PROVE  CallerKeeps(functors[i])'
  BY DEF CallersKeep
<1>4. Origin(i)
  BY <1>2
<1>5. ASSUME NEW j \in 1 .. Len(functors), functors'[i] = functors[j]
      PROVE  CallerKeeps(functors[i])'
  <2> DEFINE f == functors[j]
  <2>1. CallerKeeps(f) /\ RawShape(f)
    BY <1>1 DEF CallersKeep, FunctorShape
  <2>2. QueuedBy(f.by)
    BY <1>3 DEF QueuedBy
  <2> HIDE DEF f
  <2>3. f.by \in Callers => string'[f.by] = string[f.by]
    BY <1>1, <2>2, BusyCallersKeep
  <2>4. functors'[i] = f
    BY <1>5 DEF f
  <2> QED
    BY <2>1, <2>3, <2>4 DEF CallerKeeps, RawShape
<1>6. CASE functors'[i].op \in UserOps \union {"connectDestroyed"}
  BY <1>6 DEF CallerKeeps, UserOps
<1>7. ASSUME NEW p \in Callers,
             \/ caller[p] = "sending" /\ functors'[i] = SendFunctor(p, string[p])
             \/ caller[p] = "shutting" /\ functors'[i] = ShutdownFunctor(p)
      PROVE  CallerKeeps(functors[i])'
  <2>1. caller[p] # "idle"
    BY <1>7
  <2>2. string'[p] = string[p]
    BY <1>1, <2>1, BusyCallersKeep
  <2> QED
    BY <1>7, <2>2 DEF CallerKeeps, SendFunctor, ShutdownFunctor
<1> QED
  BY <1>4, <1>5, <1>6, <1>7 DEF Origin

\* And what they bring goes out in order.
LEMMA StreamStep ==
  ASSUME ConnInv, CallersKeep, StreamIntegrity, Next
  PROVE  StreamIntegrity'
<1>1. TypeOK /\ FunctorShape /\ DownIsUnwatched
  BY DEF ConnInv
<1>2. CASE RunSendInLoop
  <2> DEFINE f == Head(functors)
  <2>1. functors # <<>> /\ f.op = "sendInLoop"
    BY <1>2 DEF RunSendInLoop, Runs
  <2>2. f = functors[1] /\ Len(functors) \in Nat /\ Len(functors) > 0
    BY <1>1, <2>1, TypesForSending, TailFacts
  <2>3. CallerKeeps(functors[1])
    BY <2>2 DEF CallersKeep
  <2>4. string[f.by] = f.message
    BY <2>1, <2>2, <2>3 DEF CallerKeeps
  <2> QED
    BY <1>1, <1>2, <2>4, RunSendFacts
<1>3. CASE HandleWrite \/ \E m \in Messages : LoopSend(m)
  BY <1>1, <1>3, HandleWriteFacts, LoopSendFacts
<1>4. CASE \/ ConnectEstablished \/ ConnectDestroyed \/ RunShutdownInLoop
           \/ RunDangling \/ RunUserCallback \/ HandleReadClose \/ HandleHup \/ HandleRead
           \/ HandleWriteError \/ LeaveCallback \/ LoopShutdown
           \/ RemoveConnectionInLoop \/ DestroyServer \/ PeerSends
           \/ \E how \in {"finished", "reset"} : PeerCloses(how)
  <2>1. UNCHANGED <<outputBuffer_, wire, accepted>>
    BY <1>4 DEF ConnectEstablished, ConnectDestroyed, RunShutdownInLoop, RunDangling,
       RunUserCallback, HandleReadClose, HandleHup, HandleRead, HandleWriteError,
       WriteFails, LeaveCallback, LoopShutdown, RemoveConnectionInLoop, DestroyServer, PeerSends, PeerCloses,
       connVars, outVars
  <2> QED
    BY <2>1 DEF StreamIntegrity
<1>5. CASE \/ \E p \in Callers, m \in Messages : BeginSend(p, m)
           \/ \E p \in Callers : CallerStep(p) \/ BeginShutdown(p) \/ Release(p)
  <2>1. UNCHANGED <<outputBuffer_, wire, accepted>>
    BY <1>5 DEF BeginSend, CallerStep, QueueSend, SetDisconnecting, QueueShutdown,
       BeginShutdown, Release, connVars, outVars
  <2> QED
    BY <2>1 DEF StreamIntegrity
<1> QED
  BY <1>2, <1>3, <1>4, <1>5 DEF Next, FunctorStep, EventStep

\* With callers that wait, the three hold together.
LEMMA WaitingHolds ==
  ASSUME CallersWait = TRUE
  PROVE  SafetySpec => [](ConnInv /\ CallersKeep /\ StreamIntegrity)
<1>1. ASSUME Init
      PROVE  CallersKeep /\ StreamIntegrity
  <2>1. functors = <<Functor("connectEstablished")>>
    BY <1>1 DEF Init
  <2>2. Len(functors) = 1 /\ functors[1].op = "connectEstablished"
    BY <2>1 DEF Functor
  <2>3. CallersKeep
    BY <2>2 DEF CallersKeep, CallerKeeps
  <2> QED
    BY <1>1, <2>3 DEF Init, StreamIntegrity
<1>2. ASSUME ConnInv, CallersKeep, StreamIntegrity, [Next]_vars
      PROVE  CallersKeep' /\ StreamIntegrity'
  <2>1. CASE UNCHANGED vars
    BY <1>2, <2>1 DEF vars, connVars, userVars, outVars, CallersKeep, CallerKeeps,
       StreamIntegrity
  <2> QED
    BY <1>2, <2>1, CallersKeepStep, StreamStep
<1> QED
  BY <1>1, <1>2, ConnInvHolds, PTL DEF SafetySpec

\* TcpConnection.cc:67-124, 187-223: the wire and the buffer together are the
\* messages taken, in order and without loss or repetition.
THEOREM StreamIntegrityHolds ==
  ASSUME CallersWait = TRUE
  PROVE  SafetySpec => []StreamIntegrity
BY WaitingHolds, PTL

\* TcpConnection.cc:136-143, 207-210: as long as the connection is up, FIN is sent
\* behind everything that was taken, and nothing is taken after it.
THEOREM FinAfterDataHolds ==
  ASSUME CallersWait = TRUE
  PROVE  SafetySpec => []FinAfterData
<1>1. ASSUME ConnInv, StreamIntegrity
      PROVE  FinAfterData
  <2> SUFFICES ASSUME Up, finSent
               PROVE  wire = accepted
    BY DEF FinAfterData
  <2>1. outputBuffer_ = <<>>
    BY <1>1 DEF ConnInv, FinDrained, TypeOK
  <2>2. wire \in Seq(Unit)
    BY <1>1, TypesForSending DEF ConnInv, SendTypes
  <2> QED
    BY <1>1, <2>1, <2>2, ConcatEmptySeq DEF StreamIntegrity
<1> QED
  BY <1>1, WaitingHolds, PTL
=============================================================================
