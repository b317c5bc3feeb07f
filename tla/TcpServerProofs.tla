--------------------------- MODULE TcpServerProofs ---------------------------
(***************************************************************************)
(* Theorems about TcpServer for any number of threads, connections and     *)
(* descriptors: its types, its start, the order in which it and its loops  *)
(* end, and how it spreads connections.                                    *)
(***************************************************************************)
EXTENDS TcpServer, FiniteSetTheorems, SequenceTheorems, TLAPS

FunctorType == [op : Ops, conn : Conns \union {NoConn}]
------------------------------------------------------------------------------
(***************************************************************************)
(* The functors ahead of a loop.                                           *)
(***************************************************************************)

\* What is left of batch s of which n have run, and then t.
Rest(s, t, n) == SubSeq(s, n + 1, Len(s)) \o t

\* The functors that loop l has not come to, in the order in which it will.
Ahead(l) == Rest(functors[l], pendingFunctors_[l], done[l])

\* b is a without its first d members.
Drops(b, a, d) ==
  /\ b \in Seq(FunctorType) /\ d \in 0 .. Len(a)
  /\ Len(b) = Len(a) - d
  /\ \A i \in 1 .. Len(a) - d : b[i] = a[i + d]

\* The same with f behind them.
DropsAdds(b, a, d, f) ==
  /\ b \in Seq(FunctorType) /\ d \in 0 .. Len(a)
  /\ Len(b) = Len(a) - d + 1
  /\ \A i \in 1 .. Len(a) - d : b[i] = a[i + d]
  /\ b[Len(a) - d + 1] = f

\* The members of Rest.
LEMMA RestMembers ==
  ASSUME NEW s \in Seq(FunctorType), NEW t \in Seq(FunctorType), NEW n \in 0 .. Len(s)
  PROVE  /\ Rest(s, t, n) \in Seq(FunctorType)
         /\ Len(Rest(s, t, n)) = Len(s) - n + Len(t)
         /\ \A i \in 1 .. Len(s) - n : Rest(s, t, n)[i] = s[n + i]
         /\ \A i \in 1 .. Len(t) : Rest(s, t, n)[Len(s) - n + i] = t[i]
<1> DEFINE u == SubSeq(s, n + 1, Len(s))
           len == Len(s)
<1>1. len \in Nat /\ n \in Nat /\ n <= len /\ Len(t) \in Nat
      /\ \A i \in 1 .. len : s[i] \in FunctorType
  OBVIOUS
<1>2. /\ u \in Seq(FunctorType)
      /\ Len(u) = IF n + 1 <= len THEN len - (n + 1) + 1 ELSE 0
      /\ \A i \in 1 .. len - (n + 1) + 1 : u[i] = s[n + 1 + i - 1]
  <2>1. n + 1 \in Int /\ len \in Int
    BY <1>1
  <2>2. \A i \in n + 1 .. len : s[i] \in FunctorType
    BY <1>1
  <2> QED
    BY <2>1, <2>2, SubSeqProperties
<1> HIDE DEF u, len
<1>3. u \in Seq(FunctorType) /\ Len(u) = len - n
      /\ \A i \in 1 .. len - n : u[i] = s[n + i]
  BY <1>1, <1>2
<1>4. /\ u \o t \in Seq(FunctorType)
      /\ Len(u \o t) = Len(u) + Len(t)
      /\ \A i \in 1 .. Len(u) : (u \o t)[i] = u[i]
      /\ \A i \in 1 .. Len(t) : (u \o t)[Len(u) + i] = t[i]
  <2> DEFINE v == u \o t
  <2>1. /\ v \in Seq(FunctorType)
        /\ Len(v) = Len(u) + Len(t)
        /\ \A i \in 1 .. Len(u) + Len(t) :
             v[i] = IF i <= Len(u) THEN u[i] ELSE t[i - Len(u)]
    BY <1>3, ConcatProperties
  <2> HIDE DEF v
  <2>2. Len(u) \in Nat /\ Len(t) \in Nat
    BY <1>1, <1>3
  <2>3. ASSUME NEW i \in 1 .. Len(t)
        PROVE  v[Len(u) + i] = t[i]
    <3>1. Len(u) + i \in 1 .. Len(u) + Len(t) /\ ~(Len(u) + i <= Len(u))
          /\ Len(u) + i - Len(u) = i
      BY <2>2
    <3> QED
      BY <2>1, <3>1
  <2> QED
    BY <2>1, <2>2, <2>3 DEF v
<1> QED
  BY <1>1, <1>3, <1>4 DEF Rest, u, len

\* One more has run.
LEMMA RestPop ==
  ASSUME NEW s \in Seq(FunctorType), NEW t \in Seq(FunctorType), NEW n \in Nat,
         n < Len(s)
  PROVE  /\ Drops(Rest(s, t, n + 1), Rest(s, t, n), 1)
         /\ Rest(s, t, n)[1] = s[n + 1]
<1> DEFINE a == Rest(s, t, n)
           b == Rest(s, t, n + 1)
           len == Len(s)
           more == Len(t)
<1>1. len \in Nat /\ more \in Nat /\ n < len /\ n \in 0 .. len /\ n + 1 \in 0 .. len
  OBVIOUS
<1>2. /\ a \in Seq(FunctorType) /\ Len(a) = len - n + more
      /\ \A i \in 1 .. len - n : a[i] = s[n + i]
      /\ \A i \in 1 .. more : a[len - n + i] = t[i]
  BY <1>1, RestMembers
<1>3. /\ b \in Seq(FunctorType) /\ Len(b) = len - (n + 1) + more
      /\ \A i \in 1 .. len - (n + 1) : b[i] = s[n + 1 + i]
      /\ \A i \in 1 .. more : b[len - (n + 1) + i] = t[i]
  BY <1>1, RestMembers
<1> HIDE DEF a, b, len, more
<1>4. ASSUME NEW i \in 1 .. Len(a) - 1
      PROVE  b[i] = a[i + 1]
  <2>1. CASE i <= len - (n + 1)
    BY <1>1, <1>2, <1>3, <2>1
  <2>2. CASE i > len - (n + 1)
    <3> DEFINE j == i - (len - (n + 1))
    <3>1. j \in 1 .. more /\ i = len - (n + 1) + j /\ i + 1 = len - n + j
      BY <1>1, <1>2, <2>2
    <3> HIDE DEF j
    <3> QED
      BY <1>2, <1>3, <3>1
  <2> QED
    BY <1>1, <1>2, <2>1, <2>2
<1> QED
  BY <1>1, <1>2, <1>3, <1>4 DEF Drops, a, b, len, more

\* One more is behind them.
LEMMA AppendAdds ==
  ASSUME NEW a \in Seq(FunctorType), NEW b, NEW d, Drops(b, a, d),
         NEW f \in FunctorType
  PROVE  DropsAdds(Append(b, f), a, d, f)
<1> DEFINE c == Append(b, f)
<1>1. /\ b \in Seq(FunctorType) /\ Len(b) \in Nat /\ Len(a) \in Nat
      /\ Len(b) = Len(a) - d
      /\ \A i \in 1 .. Len(a) - d : b[i] = a[i + d]
  BY DEF Drops
<1>2. /\ c \in Seq(FunctorType) /\ Len(c) = Len(b) + 1
      /\ c[Len(b) + 1] = f
      /\ \A i \in 1 .. Len(b) : c[i] = b[i]
  BY <1>1
<1> HIDE DEF c
<1>3. \A i \in 1 .. Len(a) - d : c[i] = a[i + d]
  BY <1>1, <1>2
<1>4. c[Len(a) - d + 1] = f /\ Len(c) = Len(a) - d + 1
  BY <1>1, <1>2
<1> QED
  BY <1>2, <1>3, <1>4 DEF Drops, DropsAdds, c

\* Queueing f appends it to what is ahead.
LEMMA RestAppend ==
  ASSUME NEW s \in Seq(FunctorType), NEW t \in Seq(FunctorType), NEW n \in 0 .. Len(s),
         NEW f \in FunctorType
  PROVE  Rest(s, Append(t, f), n) = Append(Rest(s, t, n), f)
<1> DEFINE a == Rest(s, t, n)
           b == Rest(s, Append(t, f), n)
           r == Len(s) - n
           u == Append(t, f)
<1>1. r \in Nat /\ Len(t) \in Nat
  OBVIOUS
<1>2. /\ u \in Seq(FunctorType) /\ Len(u) = Len(t) + 1 /\ u[Len(t) + 1] = f
      /\ \A i \in 1 .. Len(t) : u[i] = t[i]
  OBVIOUS
<1>3. /\ a \in Seq(FunctorType) /\ Len(a) = r + Len(t)
      /\ \A i \in 1 .. r : a[i] = s[n + i]
      /\ \A i \in 1 .. Len(t) : a[r + i] = t[i]
  BY RestMembers
<1>4. /\ b \in Seq(FunctorType) /\ Len(b) = r + Len(u)
      /\ \A i \in 1 .. r : b[i] = s[n + i]
      /\ \A i \in 1 .. Len(u) : b[r + i] = u[i]
  BY <1>2, RestMembers
<1> HIDE DEF a, b, r, u
<1> DEFINE c == Append(a, f)
<1>5. /\ c \in Seq(FunctorType) /\ Len(c) = Len(a) + 1 /\ c[Len(a) + 1] = f
      /\ \A i \in 1 .. Len(a) : c[i] = a[i]
  BY <1>3
<1> HIDE DEF c
<1>6. ASSUME NEW i \in 1 .. r + Len(t) + 1
      PROVE  b[i] = c[i]
  <2>1. CASE i <= r
    BY <1>1, <1>3, <1>4, <1>5, <2>1
  <2>2. CASE i > r
    <3> DEFINE j == i - r
    <3>1. j \in 1 .. Len(t) + 1 /\ i = r + j
      BY <1>1, <2>2
    <3> HIDE DEF j
    <3>2. b[r + j] = u[j]
      BY <1>2, <1>4, <3>1
    <3>3. CASE j = Len(t) + 1
      BY <1>1, <1>2, <1>3, <1>5, <3>1, <3>2, <3>3
    <3>4. CASE j # Len(t) + 1
      <4>1. j \in 1 .. Len(t) /\ i \in 1 .. Len(a)
        BY <1>1, <1>3, <3>1, <3>4
      <4> QED
        BY <1>2, <1>3, <1>5, <3>1, <3>2, <4>1
    <3> QED
      BY <3>3, <3>4
  <2> QED
    BY <1>1, <2>1, <2>2
<1>7. Len(b) = r + Len(t) + 1 /\ Len(c) = r + Len(t) + 1
  BY <1>1, <1>2, <1>3, <1>4, <1>5
<1>8. b = c
  BY <1>4, <1>5, <1>6, <1>7, SeqEqual
<1> QED
  BY <1>8 DEF a, b, u, c

\* Nothing is ahead but t when the batch is done, or has not been fetched, and
\* nothing but the batch when it has just been.
LEMMA RestSimple ==
  ASSUME NEW s \in Seq(FunctorType), NEW t \in Seq(FunctorType)
  PROVE  /\ Rest(s, t, Len(s)) = t
         /\ Rest(<<>>, t, 0) = t
         /\ Rest(t, <<>>, 0) = t
<1>1. <<>> \in Seq(FunctorType) /\ Len(<<>>) = 0 /\ Len(s) \in Nat /\ Len(t) \in Nat
  OBVIOUS
<1>2. ASSUME NEW u \in Seq(FunctorType)
      PROVE  Rest(u, t, Len(u)) = t
  <2> DEFINE r == Rest(u, t, Len(u))
  <2>1. Len(u) \in Nat /\ Len(u) \in 0 .. Len(u) /\ Len(u) - Len(u) = 0
    OBVIOUS
  <2>2. /\ r \in Seq(FunctorType) /\ Len(r) = 0 + Len(t)
        /\ \A i \in 1 .. Len(t) : r[0 + i] = t[i]
    BY <2>1, RestMembers
  <2> HIDE DEF r
  <2>3. Len(r) = Len(t) /\ \A i \in 1 .. Len(t) : r[i] = t[i]
    BY <1>1, <2>2
  <2>4. r = t
    BY <2>2, <2>3, SeqEqual
  <2> QED
    BY <2>4 DEF r
<1>3. Rest(t, <<>>, 0) = t
  <2> DEFINE r == Rest(t, <<>>, 0)
             none == <<>>
  <2>1. none \in Seq(FunctorType) /\ Len(none) = 0 /\ 0 \in 0 .. Len(t)
    OBVIOUS
  <2>2. /\ r \in Seq(FunctorType) /\ Len(r) = Len(t) - 0 + Len(none)
        /\ \A i \in 1 .. Len(t) - 0 : r[i] = t[0 + i]
    BY <1>1, <2>1, RestMembers
  <2> HIDE DEF r, none
  <2>3. Len(r) = Len(t) /\ \A i \in 1 .. Len(t) : r[i] = t[i]
    BY <1>1, <2>1, <2>2
  <2>4. r = t
    BY <2>2, <2>3, SeqEqual
  <2> QED
    BY <2>4 DEF r
<1>4. Rest(<<>>, t, 0) = t
  BY <1>1, <1>2
<1> QED
  BY <1>2, <1>3, <1>4

\* What a step does to what is ahead of the loops: loop l loses its first d
\* functors, and m, if it is a loop, gets f behind the others.
Flow(l, d, m, f) ==
  \A k \in Loops :
    LET n == IF k = l THEN d ELSE 0
    IN  IF k = m THEN DropsAdds(Ahead(k)', Ahead(k), n, f)
                 ELSE Drops(Ahead(k)', Ahead(k), n)
NoLoop == -1
NoFunctor == Functor("listen", NoConn)

\* The base loop and the pool's loops are loops.
LEMMA BaseIsLoop == BaseLoop \in Loops /\ \A l \in IoLoops : l \in Loops /\ l # BaseLoop
BY ConstantsAssumption DEF BaseLoop, Loops, IoLoops

\* The queues have their types, and a batch is there only while it runs.
LEMMA QueueTypes ==
  ASSUME TypeOK, NEW l \in Loops
  PROVE  /\ functors[l] \in Seq(FunctorType) /\ pendingFunctors_[l] \in Seq(FunctorType)
         /\ done[l] \in 0 .. Len(functors[l]) /\ done[l] \in Nat
         /\ Ahead(l) \in Seq(FunctorType) /\ Len(Ahead(l)) \in Nat
         /\ functors[l] # <<>> => phase[l] = "run"
<1>1. /\ functors[l] \in Seq(FunctorType) /\ pendingFunctors_[l] \in Seq(FunctorType)
      /\ done[l] \in Nat /\ done[l] <= Len(functors[l])
      /\ functors[l] # <<>> => phase[l] = "run"
  BY DEF TypeOK, FunctorType
<1>2. done[l] \in 0 .. Len(functors[l])
  BY <1>1
<1>3. Ahead(l) \in Seq(FunctorType)
  BY <1>1, <1>2, RestMembers DEF Ahead
<1> QED
  BY <1>1, <1>2, <1>3

\* What is ahead: the rest of the batch, and the queue.
LEMMA AheadParts ==
  ASSUME TypeOK, NEW l \in Loops
  PROVE  LET s == functors[l]
             t == pendingFunctors_[l]
             n == done[l]
             a == Ahead(l)
         IN  /\ s \in Seq(FunctorType) /\ t \in Seq(FunctorType)
             /\ n \in Nat /\ Len(s) \in Nat /\ Len(t) \in Nat /\ n <= Len(s)
             /\ Len(a) = Len(s) - n + Len(t)
             /\ \A i \in 1 .. Len(s) - n : a[i] = s[n + i]
             /\ \A i \in 1 .. Len(t) : a[Len(s) - n + i] = t[i]
<1> DEFINE s == functors[l]
           t == pendingFunctors_[l]
           n == done[l]
<1>1. s \in Seq(FunctorType) /\ t \in Seq(FunctorType) /\ n \in 0 .. Len(s)
  BY QueueTypes
<1>2. Ahead(l) = Rest(s, t, n)
  BY DEF Ahead
<1> HIDE DEF s, t, n
<1>3. n \in Nat /\ Len(s) \in Nat /\ Len(t) \in Nat /\ n <= Len(s)
  BY <1>1
<1>4. /\ Len(Rest(s, t, n)) = Len(s) - n + Len(t)
      /\ \A i \in 1 .. Len(s) - n : Rest(s, t, n)[i] = s[n + i]
      /\ \A i \in 1 .. Len(t) : Rest(s, t, n)[Len(s) - n + i] = t[i]
  BY <1>1, RestMembers
<1>5. /\ s \in Seq(FunctorType) /\ t \in Seq(FunctorType)
      /\ n \in Nat /\ Len(s) \in Nat /\ Len(t) \in Nat /\ n <= Len(s)
      /\ Len(Ahead(l)) = Len(s) - n + Len(t)
      /\ \A i \in 1 .. Len(s) - n : Ahead(l)[i] = s[n + i]
      /\ \A i \in 1 .. Len(t) : Ahead(l)[Len(s) - n + i] = t[i]
  BY <1>1, <1>2, <1>3, <1>4
<1> QED
  BY <1>5 DEF s, t, n

\* What is ahead of a loop is on its queue.
LEMMA AheadQueued ==
  ASSUME TypeOK, NEW l \in Loops, NEW p \in 1 .. Len(Ahead(l))
  PROVE  Ahead(l)[p] \in Queued(l)
<1>1. PICK s, t, n, a :
        s = functors[l] /\ t = pendingFunctors_[l] /\ n = done[l] /\ a = Ahead(l)
  OBVIOUS
<1>2. /\ s \in Seq(FunctorType) /\ t \in Seq(FunctorType)
      /\ n \in Nat /\ Len(s) \in Nat /\ Len(t) \in Nat /\ n <= Len(s)
      /\ Len(a) = Len(s) - n + Len(t)
      /\ \A i \in 1 .. Len(s) - n : a[i] = s[n + i]
      /\ \A i \in 1 .. Len(t) : a[Len(s) - n + i] = t[i]
  BY <1>1, AheadParts
<1>3. PICK r : r = Len(s) - n
  OBVIOUS
<1>4. r \in Nat /\ p \in Nat \ {0} /\ p <= r + Len(t)
  BY <1>1, <1>2, <1>3
<1>5. a[p] \in Range(s) \union Range(t)
  <2>1. CASE p <= r
    <3>1. p \in 1 .. r /\ n + p \in 1 .. Len(s)
      BY <1>2, <1>3, <1>4, <2>1
    <3>2. a[p] = s[n + p]
      BY <1>2, <1>3, <3>1
    <3> QED
      BY <1>2, <3>1, <3>2 DEF Range
  <2>2. CASE ~(p <= r)
    <3>1. PICK q \in 1 .. Len(t) : p = r + q
      <4>1. p - r \in 1 .. Len(t) /\ p = r + (p - r)
        BY <1>2, <1>3, <1>4, <2>2
      <4> QED
        BY <4>1
    <3>2. a[p] = t[q]
      BY <1>2, <1>3, <3>1
    <3> QED
      BY <1>2, <3>1, <3>2 DEF Range
  <2> QED
    BY <2>1, <2>2
<1> QED
  BY <1>1, <1>5 DEF Queued

\* A sequence drops none of itself.
LEMMA DropsNone ==
  ASSUME NEW a \in Seq(FunctorType)
  PROVE  Drops(a, a, 0)
<1>1. Len(a) \in Nat /\ Len(a) - 0 = Len(a) /\ \A i \in 1 .. Len(a) : a[i] = a[i + 0]
  OBVIOUS
<1> QED
  BY <1>1 DEF Drops

\* A step that leaves the queues alone.
LEMMA NoFlow ==
  ASSUME TypeOK, UNCHANGED <<pendingFunctors_, functors, done>>
  PROVE  Flow(NoLoop, 0, NoLoop, NoFunctor)
<1> SUFFICES ASSUME NEW k \in Loops
             PROVE  Drops(Ahead(k)', Ahead(k), 0)
  BY DEF Flow, NoLoop, Loops
<1>1. Ahead(k)' = Ahead(k)
  BY DEF Ahead
<1> QED
  BY <1>1, QueueTypes, DropsNone

\* queueInLoop on loop m.
LEMMA QueueFlow ==
  ASSUME TypeOK, NEW m \in Loops, NEW f \in FunctorType, Queue(m, f),
         UNCHANGED <<functors, done>>
  PROVE  Flow(NoLoop, 0, m, f)
<1>1. pendingFunctors_ \in [Loops -> Seq(FunctorType)]
  BY DEF TypeOK, FunctorType
<1>2. ASSUME NEW k \in Loops
      PROVE  IF k = m THEN DropsAdds(Ahead(k)', Ahead(k), 0, f)
                      ELSE Drops(Ahead(k)', Ahead(k), 0)
  <2> DEFINE a == Ahead(k)
  <2>1. a \in Seq(FunctorType) /\ Drops(a, a, 0)
    BY QueueTypes, DropsNone
  <2>2. CASE k = m
    <3>1. pendingFunctors_'[k] = Append(pendingFunctors_[k], f)
      BY <1>1, <2>2 DEF Queue
    <3>2. Ahead(k)' = Append(a, f)
      BY <3>1, QueueTypes, RestAppend DEF Ahead
    <3> QED
      BY <2>1, <2>2, <3>2, AppendAdds
  <2>3. CASE k # m
    <3>1. pendingFunctors_'[k] = pendingFunctors_[k]
      BY <1>1, <2>3 DEF Queue
    <3>2. Ahead(k)' = a
      BY <3>1 DEF Ahead
    <3> QED
      BY <2>1, <2>3, <3>2
  <2> QED
    BY <2>2, <2>3
<1>3. ~ \E k \in Loops : k = NoLoop
  BY DEF Loops, NoLoop
<1> QED
  BY <1>2, <1>3 DEF Flow

\* A functor of loop l runs, and may queue g on loop m.
LEMMA RunFlow ==
  ASSUME TypeOK, NEW l \in Loops, RunFunctor(l)
  PROVE  LET f == functors[l][done[l] + 1]
         IN  /\ f \in FunctorType /\ f = Ahead(l)[1] /\ 1 \in 1 .. Len(Ahead(l))
             /\ pendingFunctors_' = pendingFunctors_ => Flow(l, 1, NoLoop, NoFunctor)
             /\ \A m \in Loops, g \in FunctorType : Queue(m, g) => Flow(l, 1, m, g)
<1> DEFINE f == functors[l][done[l] + 1]
           pop(k) == IF k = l THEN 1 ELSE 0
<1>1. /\ phase[l] = "run" /\ done[l] < Len(functors[l])
      /\ done' = [done EXCEPT ![l] = @ + 1] /\ functors' = functors
  BY DEF RunFunctor
<1>2. /\ functors[l] \in Seq(FunctorType) /\ pendingFunctors_[l] \in Seq(FunctorType)
      /\ done[l] \in Nat /\ Ahead(l) \in Seq(FunctorType)
  BY QueueTypes
<1>3. f \in FunctorType
  BY <1>1, <1>2
<1>4. Drops(Rest(functors[l], pendingFunctors_[l], done[l] + 1), Ahead(l), 1) /\ f = Ahead(l)[1]
  BY <1>1, <1>2, RestPop DEF Ahead
<1>5. 1 \in 1 .. Len(Ahead(l))
  BY <1>2, <1>4 DEF Drops
<1>6. ASSUME NEW k \in Loops
      PROVE  /\ Drops(Rest(functors'[k], pendingFunctors_[k], done'[k]), Ahead(k), pop(k))
             /\ functors'[k] \in Seq(FunctorType) /\ done'[k] \in 0 .. Len(functors'[k])
             /\ pendingFunctors_[k] \in Seq(FunctorType)
  <2>1. done \in [Loops -> Nat]
    BY DEF TypeOK
  <2>2. CASE k = l
    <3>1. done'[k] = done[l] + 1 /\ done[l] + 1 \in 0 .. Len(functors[l])
      BY <1>1, <1>2, <2>1, <2>2
    <3> QED
      BY <1>1, <1>2, <1>4, <2>2, <3>1
  <2>3. CASE k # l
    <3>1. done'[k] = done[k]
      BY <1>1, <2>1, <2>3
    <3>2. Ahead(k) \in Seq(FunctorType)
      BY QueueTypes
    <3> QED
      BY <1>1, <2>3, <3>1, <3>2, QueueTypes, DropsNone DEF Ahead
  <2> QED
    BY <2>2, <2>3
<1>7. ASSUME pendingFunctors_' = pendingFunctors_
      PROVE  Flow(l, 1, NoLoop, NoFunctor)
  <2>1. ~ \E k \in Loops : k = NoLoop
    BY DEF Loops, NoLoop
  <2>2. \A k \in Loops : Ahead(k)' = Rest(functors'[k], pendingFunctors_[k], done'[k])
    BY <1>7 DEF Ahead
  <2> QED
    BY <1>6, <2>1, <2>2 DEF Flow
<1>8. ASSUME NEW m \in Loops, NEW g \in FunctorType, Queue(m, g)
      PROVE  Flow(l, 1, m, g)
  <2>1. pendingFunctors_ \in [Loops -> Seq(FunctorType)]
    BY DEF TypeOK, FunctorType
  <2>2. ASSUME NEW k \in Loops
        PROVE  IF k = m THEN DropsAdds(Ahead(k)', Ahead(k), pop(k), g)
                        ELSE Drops(Ahead(k)', Ahead(k), pop(k))
    <3> DEFINE s == functors'[k]
               t == pendingFunctors_[k]
               n == done'[k]
               a == Ahead(k)
    <3>1. /\ Drops(Rest(s, t, n), a, pop(k)) /\ a \in Seq(FunctorType)
          /\ s \in Seq(FunctorType) /\ n \in 0 .. Len(s) /\ t \in Seq(FunctorType)
      BY <1>6, QueueTypes
    <3>2. Ahead(k)' = Rest(s, pendingFunctors_'[k], n)
      BY DEF Ahead
    <3>3. CASE k = m
      <4>1. pendingFunctors_'[k] = Append(t, g)
        BY <1>8, <2>1, <3>3 DEF Queue
      <4>2. Ahead(k)' = Append(Rest(s, t, n), g)
        BY <3>1, <3>2, <4>1, RestAppend
      <4>3. DropsAdds(Ahead(k)', a, pop(k), g)
        BY <3>1, <4>2, AppendAdds
      <4> QED
        BY <3>3, <4>3
    <3>4. CASE k # m
      <4>1. pendingFunctors_'[k] = t
        BY <1>8, <2>1, <3>4 DEF Queue
      <4> QED
        BY <3>1, <3>2, <3>4, <4>1
    <3> QED
      BY <3>3, <3>4
  <2> QED
    BY <2>2 DEF Flow
<1> QED
  BY <1>3, <1>4, <1>5, <1>7, <1>8

\* Fetching the batch changes nothing of what is ahead.
LEMMA SwapFlow ==
  ASSUME TypeOK, NEW l \in Loops, Swap(l)
  PROVE  Flow(NoLoop, 0, NoLoop, NoFunctor)
<1>1. /\ phase[l] = "poll" /\ done' = done
      /\ functors' = [functors EXCEPT ![l] = pendingFunctors_[l]]
      /\ pendingFunctors_' = [pendingFunctors_ EXCEPT ![l] = <<>>]
  BY DEF Swap, Dispatching
<1>2. /\ functors \in [Loops -> Seq(FunctorType)]
      /\ pendingFunctors_ \in [Loops -> Seq(FunctorType)]
  BY DEF TypeOK, FunctorType
<1> SUFFICES ASSUME NEW k \in Loops
             PROVE  Drops(Ahead(k)', Ahead(k), 0)
  BY DEF Flow, NoLoop, Loops
<1>3. CASE k = l
  <2>1. functors[k] = <<>> /\ done[k] = 0
    BY <1>1, <1>3, QueueTypes
  <2>2. functors'[k] = pendingFunctors_[k] /\ pendingFunctors_'[k] = <<>> /\ done'[k] = 0
    BY <1>1, <1>2, <1>3, <2>1
  <2>3. Ahead(k)' = Ahead(k)
    BY <1>2, <2>1, <2>2, RestSimple DEF Ahead
  <2> QED
    BY <2>3, QueueTypes, DropsNone
<1>4. CASE k # l
  <2>1. functors'[k] = functors[k] /\ pendingFunctors_'[k] = pendingFunctors_[k]
    BY <1>1, <1>2, <1>4
  <2>2. Ahead(k)' = Ahead(k)
    BY <1>1, <2>1 DEF Ahead
  <2> QED
    BY <2>2, QueueTypes, DropsNone
<1> QED
  BY <1>3, <1>4

\* What a loop that has ended drops.
LEMMA DropsAll ==
  ASSUME NEW a \in Seq(FunctorType)
  PROVE  Drops(<<>>, a, Len(a))
<1> DEFINE none == <<>>
<1>1. none \in Seq(FunctorType) /\ Len(none) = 0 /\ Len(a) \in Nat
      /\ Len(a) - Len(a) = 0
  OBVIOUS
<1> HIDE DEF none
<1>2. Drops(none, a, Len(a))
  BY <1>1 DEF Drops
<1> QED
  BY <1>2 DEF none

\* A batch that is done leaves what is pending, and the last one of a pool's loop
\* nothing.
LEMMA EndTurnFlow ==
  ASSUME TypeOK, NEW l \in Loops, EndTurn(l)
  PROVE  /\ Ahead(l) = pendingFunctors_[l]
         /\ quit_[l] /\ l # BaseLoop => Flow(l, Len(Ahead(l)), NoLoop, NoFunctor)
         /\ ~(quit_[l] /\ l # BaseLoop) => Flow(NoLoop, 0, NoLoop, NoFunctor)
<1>1. /\ phase[l] = "run" /\ done[l] = Len(functors[l])
      /\ functors' = [functors EXCEPT ![l] = <<>>]
      /\ done' = [done EXCEPT ![l] = 0]
  BY DEF EndTurn
<1>2. /\ functors \in [Loops -> Seq(FunctorType)]
      /\ pendingFunctors_ \in [Loops -> Seq(FunctorType)]
      /\ done \in [Loops -> Nat]
  BY DEF TypeOK, FunctorType
<1>3. Ahead(l) = pendingFunctors_[l]
  BY <1>1, <1>2, RestSimple DEF Ahead
<1>4. functors'[l] = <<>> /\ done'[l] = 0
  BY <1>1, <1>2
<1>5. \A k \in Loops : k # NoLoop
  BY DEF Loops, NoLoop
<1>6. ASSUME NEW k \in Loops, k # l, pendingFunctors_'[k] = pendingFunctors_[k]
      PROVE  Drops(Ahead(k)', Ahead(k), 0)
  <2>1. functors'[k] = functors[k] /\ done'[k] = done[k]
    BY <1>1, <1>2, <1>6
  <2>2. Ahead(k)' = Ahead(k)
    BY <1>6, <2>1 DEF Ahead
  <2> QED
    BY <2>2, QueueTypes, DropsNone
<1>7. ASSUME quit_[l], l # BaseLoop
      PROVE  Flow(l, Len(Ahead(l)), NoLoop, NoFunctor)
  <2>1. pendingFunctors_' = [pendingFunctors_ EXCEPT ![l] = <<>>]
    BY <1>7 DEF EndTurn
  <2>2. \A k \in Loops : k # l => pendingFunctors_'[k] = pendingFunctors_[k]
    BY <1>2, <2>1
  <2>3. pendingFunctors_'[l] = <<>>
    BY <1>2, <2>1
  <2>4. <<>> \in Seq(FunctorType)
    OBVIOUS
  <2>5. Ahead(l)' = <<>>
    BY <1>4, <2>3, <2>4, RestSimple DEF Ahead
  <2>6. Drops(Ahead(l)', Ahead(l), Len(Ahead(l)))
    BY <2>5, QueueTypes, DropsAll
  <2> QED
    BY <1>5, <1>6, <2>2, <2>6 DEF Flow
<1>8. ASSUME ~(quit_[l] /\ l # BaseLoop)
      PROVE  Flow(NoLoop, 0, NoLoop, NoFunctor)
  <2>1. pendingFunctors_' = pendingFunctors_
    BY <1>8 DEF EndTurn
  <2>2. Ahead(l)' = Ahead(l)
    BY <1>2, <1>3, <1>4, <2>1, RestSimple DEF Ahead
  <2>3. Drops(Ahead(l)', Ahead(l), 0)
    BY <2>2, QueueTypes, DropsNone
  <2> QED
    BY <1>5, <1>6, <2>1, <2>3 DEF Flow
<1> QED
  BY <1>3, <1>7, <1>8

\* Nor does the base EventLoop run what it has not come to.
LEMMA EndBaseFlow ==
  ASSUME TypeOK, phase[BaseLoop] = "stopped", DestroyBaseLoop
  PROVE  /\ Ahead(BaseLoop) = pendingFunctors_[BaseLoop]
         /\ Flow(BaseLoop, Len(Ahead(BaseLoop)), NoLoop, NoFunctor)
<1>1. /\ pendingFunctors_' = [pendingFunctors_ EXCEPT ![BaseLoop] = <<>>]
      /\ functors' = functors /\ done' = done
  BY DEF DestroyBaseLoop
<1>2. pendingFunctors_ \in [Loops -> Seq(FunctorType)] /\ BaseLoop \in Loops
  <2>1. pendingFunctors_ \in [Loops -> Seq(FunctorType)]
    BY DEF TypeOK, FunctorType
  <2> QED
    BY <2>1, BaseIsLoop
<1>3. functors[BaseLoop] = <<>> /\ done[BaseLoop] = 0
  BY <1>2, QueueTypes
<1>4. /\ pendingFunctors_'[BaseLoop] = <<>>
      /\ \A k \in Loops : k # BaseLoop => pendingFunctors_'[k] = pendingFunctors_[k]
  BY <1>1, <1>2
<1>5. <<>> \in Seq(FunctorType)
  OBVIOUS
<1>6. Ahead(BaseLoop) = pendingFunctors_[BaseLoop] /\ Ahead(BaseLoop)' = <<>>
  <2>1. pendingFunctors_[BaseLoop] \in Seq(FunctorType)
    BY <1>2
  <2>2. Ahead(BaseLoop) = Rest(<<>>, pendingFunctors_[BaseLoop], 0)
    BY <1>3 DEF Ahead
  <2>3. Ahead(BaseLoop)' = Rest(<<>>, <<>>, 0)
    BY <1>1, <1>3, <1>4 DEF Ahead
  <2> QED
    BY <1>5, <2>1, <2>2, <2>3, RestSimple
<1>7. Drops(Ahead(BaseLoop)', Ahead(BaseLoop), Len(Ahead(BaseLoop)))
  BY <1>2, <1>6, QueueTypes, DropsAll
<1>8. ASSUME NEW k \in Loops, k # BaseLoop
      PROVE  Drops(Ahead(k)', Ahead(k), 0)
  <2>1. Ahead(k)' = Ahead(k)
    BY <1>1, <1>4, <1>8 DEF Ahead
  <2> QED
    BY <2>1, QueueTypes, DropsNone
<1>9. \A k \in Loops : k # NoLoop
  BY DEF Loops, NoLoop
<1> QED
  BY <1>6, <1>7, <1>8, <1>9 DEF Flow
------------------------------------------------------------------------------
(***************************************************************************)
(* The inductive invariant.                                                *)
(***************************************************************************)

\* How main, the loops and quit() go together: the base loop ends before the
\* destructor begins, a pool's loop only when it joins, and nothing is left in
\* one that has ended.
Lifecycle ==
  /\ main = "setup" => phase[BaseLoop] = "none"
  /\ main \notin {"setup", "looping"} =>
       phase[BaseLoop] = "stopped" /\ \A t \in Starters : starter[t] # "won"
  /\ \A l \in IoLoops :
       /\ quit_[l] = TRUE => main \notin {"setup", "looping", "destroying"}
       /\ phase[l] = "stopped" => quit_[l] = TRUE /\ pendingFunctors_[l] = <<>>
       /\ phase[l] # "none" => l \in Range(loops_)
       /\ main \in {"joined", "destroyed", "ended"} => phase[l] \in {"none", "stopped"}
  /\ \A l \in Loops : closing[l] # NoConn => phase[l] = "poll"

\* Before the pool has been started.
Blank ==
  /\ loops_ = <<>> /\ listening_ = FALSE /\ Created = {}
  /\ \A l \in Loops : pendingFunctors_[l] = <<>> /\ functors[l] = <<>>

\* One caller of start() wins at most, and until it has started the pool nothing
\* happens.
Starting ==
  /\ started_ = 0 \/ (\E t \in Starters : starter[t] = "won") => Blank
  /\ started_ = 0 => \A t \in Starters : starter[t] = "idle"
  /\ \A t, u \in Starters : starter[t] = "won" /\ starter[u] = "won" => t = u

\* If started_ began as 0 the pool is there once a call has been made and nobody
\* is about to start it.
Pooled ==
  garbage = 0 =>
    /\ (\A t \in Starters : starter[t] = "idle") => started_ = 0
    /\ started_ # 0 /\ (\A t \in Starters : starter[t] # "won") =>
         /\ Len(loops_) = numThreads_
         /\ \/ listening_ = TRUE
            \/ \E i \in 1 .. Len(Ahead(BaseLoop)) : Ahead(BaseLoop)[i] = NoFunctor
            \/ phase[BaseLoop] = "stopped"

\* Connections are numbered in the order of their creation, and there is room for
\* the clients that wait.
Numbered ==
  \E n \in 0 .. MaxConns : Created = 1 .. n /\ waiting + n <= MaxConns

\* A functor is ahead of the loop that its connection, or its work, belongs to; a
\* send() is of a connection that has come up.
PlacedAt(l, f) ==
  /\ f.op # "listen" => f.conn \in Created
  /\ f.op = "listen" => f = NoFunctor
  /\ f.op \in {"connectEstablished", "connectDestroyed", "sendInLoop"} => ioLoop[f.conn] = l
  /\ f.op \in {"listen", "removeConnectionInLoop"} => l = BaseLoop
  /\ f.op = "sendInLoop" => state_[f.conn] # "kConnecting"

Placed == \A l \in Loops : \A i \in 1 .. Len(Ahead(l)) : PlacedAt(l, Ahead(l)[i])

\* So is a connection that is going down.
ClosingPlaced ==
  \A l \in Loops :
    closing[l] # NoConn => closing[l] \in Created /\ ioLoop[closing[l]] = l

\* A call is made on a connection that has come up.
CallersPlaced ==
  \A p \in Callers :
    caller[p].what # "idle" =>
      caller[p].conn \in Created /\ state_[caller[p].conn] # "kConnecting"

ServerInv ==
  /\ TypeOK
  /\ Lifecycle
  /\ Starting
  /\ Pooled
  /\ Numbered
  /\ Placed
  /\ ClosingPlaced
  /\ CallersPlaced
------------------------------------------------------------------------------
(***************************************************************************)
(* The effects of the steps.                                               *)
(***************************************************************************)

\* The map without one of its names.
LEMMA WithoutFacts ==
  ASSUME NEW n
  PROVE  /\ DOMAIN Without(n) = DOMAIN connections_ \ {n}
         /\ \A m \in DOMAIN connections_ \ {n} : Without(n)[m] = connections_[m]
         /\ Range(Without(n)) \subseteq Range(connections_)
BY DEF Without, Range

\* The state of one connection that is there changes.
LEMMA SameCreated ==
  ASSUME TypeOK, NEW c \in Created, NEW s \in States \ {"none"},
         state_' = [state_ EXCEPT ![c] = s]
  PROVE  Created' = Created /\ state_' \in [Conns -> States]
<1>1. c \in Conns /\ state_ \in [Conns -> States] /\ \A d \in Created : d \in Conns
  BY DEF Created, TypeOK
<1>2. state_'[c] = s /\ \A d \in Conns : d # c => state_'[d] = state_[d]
  BY <1>1
<1>3. state_' \in [Conns -> States]
  BY <1>1
<1> QED
  BY <1>1, <1>2, <1>3 DEF Created, States

\* newConnection makes the next connection, on the loop whose turn it is.
LEMMA NewConnectionFacts ==
  ASSUME TypeOK, Numbered, NewConnection, waiting > 0
  PROVE  \E n \in 0 .. MaxConns - 1 :
           /\ Created = 1 .. n /\ Created' = 1 .. n + 1 /\ n + 1 \notin Created
           /\ Cardinality(Created) = n /\ n + 1 \in Conns /\ NextLoop \in Loops
           /\ waiting + n <= MaxConns
           /\ AdvanceNext
           /\ nextConnId_' = IF nextConnId_ = MaxId THEN 1 ELSE nextConnId_ + 1
           /\ connections_' = [i \in DOMAIN connections_ \union {nextConnId_} |->
                                 IF i = nextConnId_ THEN n + 1 ELSE connections_[i]]
           /\ ioLoop' = [ioLoop EXCEPT ![n + 1] = NextLoop]
           /\ name_' = [name_ EXCEPT ![n + 1] = nextConnId_]
           /\ Displace(nextConnId_, n + 1)
           /\ UNCHANGED <<downs, destroyed, revived, overwrote>>
           /\ \/ /\ NextLoop = BaseLoop
                 /\ state_' = [state_ EXCEPT ![n + 1] = "kConnected"]
                 /\ inPoller' = inPoller \union {n + 1}
                 /\ watched' = watched \union {n + 1}
                 /\ pendingFunctors_' = pendingFunctors_
              \/ /\ NextLoop # BaseLoop
                 /\ state_' = [state_ EXCEPT ![n + 1] = "kConnecting"]
                 /\ UNCHANGED <<inPoller, watched>>
                 /\ Queue(NextLoop, Functor("connectEstablished", n + 1))
<1>1. PICK n \in 0 .. MaxConns : Created = 1 .. n /\ waiting + n <= MaxConns
  BY DEF Numbered
<1>2. Cardinality(Created) = n
  <2>1. 1 \in Int /\ n \in Int /\ 1 <= n + 1
    OBVIOUS
  <2>2. Cardinality(1 .. n) = n - 1 + 1
    BY <2>1, FS_Interval
  <2> QED
    BY <1>1, <2>2
<1>3. waiting \in Nat /\ MaxConns \in Nat /\ n \in Nat
  BY ConstantsAssumption DEF TypeOK
<1>4. n \in 0 .. MaxConns - 1 /\ n + 1 \in Conns /\ n + 1 \notin Created
  BY <1>1, <1>3 DEF Conns
<1>5. NextLoop \in Loops
  <2>1. next_ \in Nat /\ (next_ = 0 \/ next_ < Len(loops_)) /\ loops_ \in Seq(IoLoops)
    BY DEF TypeOK
  <2>2. CASE loops_ = <<>>
    BY <2>2, BaseIsLoop DEF NextLoop
  <2>3. CASE loops_ # <<>>
    <3>1. next_ + 1 \in 1 .. Len(loops_)
      BY <2>1, <2>3
    <3>2. loops_[next_ + 1] \in IoLoops
      BY <2>1, <3>1
    <3> QED
      BY <2>3, <3>2, BaseIsLoop DEF NextLoop
  <2> QED
    BY <2>2, <2>3
<1>6. /\ AdvanceNext
      /\ nextConnId_' = IF nextConnId_ = MaxId THEN 1 ELSE nextConnId_ + 1
      /\ connections_' = [i \in DOMAIN connections_ \union {nextConnId_} |->
                            IF i = nextConnId_ THEN n + 1 ELSE connections_[i]]
      /\ ioLoop' = [ioLoop EXCEPT ![n + 1] = NextLoop]
      /\ name_' = [name_ EXCEPT ![n + 1] = nextConnId_]
      /\ Displace(nextConnId_, n + 1)
  BY <1>2 DEF NewConnection
<1>7. /\ UNCHANGED <<downs, destroyed, revived, overwrote>>
      /\ \/ /\ NextLoop = BaseLoop
            /\ state_' = [state_ EXCEPT ![n + 1] = "kConnected"]
            /\ inPoller' = inPoller \union {n + 1}
            /\ watched' = watched \union {n + 1}
            /\ pendingFunctors_' = pendingFunctors_
         \/ /\ NextLoop # BaseLoop
            /\ state_' = [state_ EXCEPT ![n + 1] = "kConnecting"]
            /\ UNCHANGED <<inPoller, watched>>
            /\ Queue(NextLoop, Functor("connectEstablished", n + 1))
  BY <1>2 DEF NewConnection, ConnectEstablished
<1>8. Created' = 1 .. n + 1
  <2>1. state_ \in [Conns -> States]
    BY DEF TypeOK
  <2>2. /\ state_'[n + 1] # "none"
        /\ \A d \in Conns : d # n + 1 => state_'[d] = state_[d]
    BY <1>4, <1>7, <2>1
  <2>3. Created' = Created \union {n + 1}
    BY <1>4, <2>2 DEF Created
  <2> QED
    BY <1>1, <1>3, <2>3
<1> QED
  BY <1>1, <1>2, <1>4, <1>5, <1>6, <1>7, <1>8

\* The functors are what they are by construction, given a connection.
LEMMA FunctorFacts ==
  ASSUME NEW c \in Created, NEW op \in Ops
  PROVE  /\ Functor(op, c) \in FunctorType
         /\ Functor(op, c).op = op /\ Functor(op, c).conn = c
BY DEF Functor, FunctorType, Created

\* The head of a loop's queue runs: it lets the Acceptor listen, establishes,
\* destroys or sends on a connection of that loop, or removes one from the map.
RunsListen(l, f) ==
  /\ f = NoFunctor /\ l = BaseLoop
  /\ listening_' = TRUE
  /\ Flow(l, 1, NoLoop, NoFunctor)
  /\ UNCHANGED <<connections_, dropped, pendingFunctors_, statusVars>>
RunsEstablished(l, f) ==
  /\ f = Functor("connectEstablished", f.conn)
  /\ f.conn \in Created /\ ioLoop[f.conn] = l
  /\ ConnectEstablished(f.conn)
  /\ Flow(l, 1, NoLoop, NoFunctor)
  /\ UNCHANGED <<connections_, dropped, pendingFunctors_, listening_>>
RunsRemove(l, f) ==
  /\ f = Functor("removeConnectionInLoop", f.conn)
  /\ f.conn \in Created /\ l = BaseLoop
  /\ connections_' = Without(name_[f.conn])
  /\ Displace(name_[f.conn], f.conn)
  /\ Queue(ioLoop[f.conn], Functor("connectDestroyed", f.conn))
  /\ Flow(l, 1, ioLoop[f.conn], Functor("connectDestroyed", f.conn))
  /\ UNCHANGED <<listening_, statusVars>>
RunsDestroyed(l, f) ==
  /\ f = Functor("connectDestroyed", f.conn)
  /\ f.conn \in Created /\ ioLoop[f.conn] = l
  /\ ConnectDestroyed(f.conn)
  /\ Flow(l, 1, NoLoop, NoFunctor)
  /\ UNCHANGED <<connections_, dropped, pendingFunctors_, listening_>>
RunsSend(l, f) ==
  /\ f = Functor("sendInLoop", f.conn)
  /\ f.conn \in Created /\ ioLoop[f.conn] = l
  /\ SendInLoop(f.conn)
  /\ Flow(l, 1, NoLoop, NoFunctor)
  /\ UNCHANGED <<connections_, dropped, pendingFunctors_, listening_>>

\* The functor that runs is the first of those ahead, and does its work.
LEMMA RunFacts ==
  ASSUME TypeOK, Placed, NEW l \in Loops, RunFunctor(l)
  PROVE  /\ phase[l] = "run" /\ functors' = functors
         /\ done' = [done EXCEPT ![l] = @ + 1] /\ done[l] < Len(functors[l])
         /\ UNCHANGED <<main, startVars, poolVars, waiting, nextConnId_, phase, quit_,
                        closing, callVars, ioLoop, name_, lost>>
         /\ \E f \in FunctorType :
              /\ f = Ahead(l)[1] /\ 1 \in 1 .. Len(Ahead(l))
              /\ f = functors[l][done[l] + 1]
              /\ \/ RunsListen(l, f) \/ RunsEstablished(l, f)
                 \/ RunsRemove(l, f) \/ RunsDestroyed(l, f) \/ RunsSend(l, f)
<1> DEFINE f == functors[l][done[l] + 1]
<1>1. /\ f \in FunctorType /\ f = Ahead(l)[1] /\ 1 \in 1 .. Len(Ahead(l))
      /\ pendingFunctors_' = pendingFunctors_ => Flow(l, 1, NoLoop, NoFunctor)
      /\ \A m \in Loops, g \in FunctorType : Queue(m, g) => Flow(l, 1, m, g)
  BY RunFlow
<1>2. PlacedAt(l, f)
  BY <1>1 DEF Placed
<1>3. /\ phase[l] = "run" /\ functors' = functors
      /\ done' = [done EXCEPT ![l] = @ + 1] /\ done[l] < Len(functors[l])
      /\ UNCHANGED <<main, startVars, poolVars, waiting, nextConnId_, phase, quit_,
                     closing, callVars, ioLoop, name_, lost>>
  BY DEF RunFunctor
<1>4. \/ /\ f.op = "listen"
         /\ Listen
         /\ UNCHANGED <<connections_, dropped, pendingFunctors_, statusVars>>
      \/ /\ f.op = "connectEstablished"
         /\ ConnectEstablished(f.conn)
         /\ UNCHANGED <<connections_, dropped, pendingFunctors_, listening_>>
      \/ /\ f.op = "removeConnectionInLoop"
         /\ RemoveConnectionInLoop(f.conn)
         /\ UNCHANGED <<listening_, statusVars>>
      \/ /\ f.op = "connectDestroyed"
         /\ ConnectDestroyed(f.conn)
         /\ UNCHANGED <<connections_, dropped, pendingFunctors_, listening_>>
      \/ /\ f.op = "sendInLoop"
         /\ SendInLoop(f.conn)
         /\ UNCHANGED <<connections_, dropped, pendingFunctors_, listening_>>
  BY DEF RunFunctor
<1>5. f = Functor(f.op, f.conn)
  BY <1>1 DEF FunctorType, Functor
<1> HIDE DEF f
<1>6. ASSUME /\ f.op = "listen"
             /\ Listen
             /\ UNCHANGED <<connections_, dropped, pendingFunctors_, statusVars>>
      PROVE  RunsListen(l, f)
  BY <1>1, <1>2, <1>6 DEF RunsListen, PlacedAt, Listen
<1>7. ASSUME /\ f.op = "connectEstablished"
             /\ ConnectEstablished(f.conn)
             /\ UNCHANGED <<connections_, dropped, pendingFunctors_, listening_>>
      PROVE  RunsEstablished(l, f)
  BY <1>1, <1>2, <1>5, <1>7 DEF RunsEstablished, PlacedAt
<1>8. ASSUME /\ f.op = "removeConnectionInLoop"
             /\ RemoveConnectionInLoop(f.conn)
             /\ UNCHANGED <<listening_, statusVars>>
      PROVE  RunsRemove(l, f)
  <2>1. f.conn \in Created /\ l = BaseLoop
    BY <1>2, <1>8 DEF PlacedAt
  <2>2. ioLoop[f.conn] \in Loops
    BY <2>1 DEF TypeOK, Created
  <2>3. Functor("connectDestroyed", f.conn) \in FunctorType
    BY <2>1, FunctorFacts DEF Ops
  <2> QED
    BY <1>1, <1>5, <1>8, <2>1, <2>2, <2>3 DEF RunsRemove, RemoveConnectionInLoop
<1>9. ASSUME /\ f.op = "connectDestroyed"
             /\ ConnectDestroyed(f.conn)
             /\ UNCHANGED <<connections_, dropped, pendingFunctors_, listening_>>
      PROVE  RunsDestroyed(l, f)
  BY <1>1, <1>2, <1>5, <1>9 DEF RunsDestroyed, PlacedAt
<1>10. ASSUME /\ f.op = "sendInLoop"
              /\ SendInLoop(f.conn)
              /\ UNCHANGED <<connections_, dropped, pendingFunctors_, listening_>>
       PROVE  RunsSend(l, f)
  BY <1>1, <1>2, <1>5, <1>10 DEF RunsSend, PlacedAt
<1>11. \/ RunsListen(l, f) \/ RunsEstablished(l, f)
       \/ RunsRemove(l, f) \/ RunsDestroyed(l, f) \/ RunsSend(l, f)
  BY <1>4, <1>6, <1>7, <1>8, <1>9, <1>10
<1> QED
  BY <1>1, <1>3, <1>11 DEF f

\* closeCallback_ removes a connection of the base loop at once, and has the base
\* loop remove another.
LEMMA CloseCallbackFacts ==
  ASSUME TypeOK, ClosingPlaced, NEW l \in Loops, CloseCallback(l)
  PROVE  /\ closing[l] # NoConn /\ closing[l] \in Created /\ ioLoop[closing[l]] = l
         /\ closing' = [closing EXCEPT ![l] = NoConn]
         /\ UNCHANGED <<main, startVars, poolVars, listening_, waiting, nextConnId_, phase,
                        quit_, functors, done, callVars, connVars, lost>>
         /\ \/ /\ l = BaseLoop
               /\ connections_' = Without(name_[closing[l]])
               /\ Displace(name_[closing[l]], closing[l])
               /\ Queue(l, Functor("connectDestroyed", closing[l]))
               /\ Flow(NoLoop, 0, l, Functor("connectDestroyed", closing[l]))
            \/ /\ l # BaseLoop
               /\ connections_' = connections_ /\ dropped' = dropped
               /\ Queue(BaseLoop, Functor("removeConnectionInLoop", closing[l]))
               /\ Flow(NoLoop, 0, BaseLoop, Functor("removeConnectionInLoop", closing[l]))
<1>1. /\ closing[l] # NoConn /\ closing' = [closing EXCEPT ![l] = NoConn]
      /\ UNCHANGED <<main, startVars, poolVars, listening_, waiting, nextConnId_, phase,
                     quit_, functors, done, callVars, connVars, lost>>
  BY DEF CloseCallback
<1>2. closing[l] \in Created /\ ioLoop[closing[l]] = l
  BY <1>1 DEF ClosingPlaced
<1>3. /\ Functor("connectDestroyed", closing[l]) \in FunctorType
      /\ Functor("removeConnectionInLoop", closing[l]) \in FunctorType
  BY <1>2, FunctorFacts DEF Ops
<1>4. CASE l = BaseLoop
  <2>1. /\ connections_' = Without(name_[closing[l]])
        /\ Displace(name_[closing[l]], closing[l])
        /\ Queue(l, Functor("connectDestroyed", closing[l]))
    BY <1>2, <1>4 DEF CloseCallback, RemoveConnectionInLoop
  <2> QED
    BY <1>1, <1>2, <1>3, <1>4, <2>1, QueueFlow
<1>5. CASE l # BaseLoop
  <2>1. /\ connections_' = connections_ /\ dropped' = dropped
        /\ Queue(BaseLoop, Functor("removeConnectionInLoop", closing[l]))
    BY <1>5 DEF CloseCallback
  <2> QED
    BY <1>1, <1>2, <1>3, <1>5, <2>1, BaseIsLoop, QueueFlow
<1> QED
  BY <1>4, <1>5

\* ~TcpServer destroys a connection of the base loop at once, and queues the rest.
LEMMA DestroyFacts ==
  ASSUME TypeOK, NEW n, DestroyConnection(n)
  PROVE  /\ main = "destroying" /\ n \in DOMAIN connections_
         /\ connections_[n] \in Created /\ ioLoop[connections_[n]] \in Loops
         /\ connections_' = Without(n)
         /\ UNCHANGED <<main, startVars, poolVars, listening_, waiting, nextConnId_, phase,
                        quit_, functors, done, closing, callVars, ioLoop, name_, endVars>>
         /\ \/ /\ ioLoop[connections_[n]] = BaseLoop
               /\ ConnectDestroyed(connections_[n])
               /\ pendingFunctors_' = pendingFunctors_
            \/ /\ ioLoop[connections_[n]] # BaseLoop
               /\ Queue(ioLoop[connections_[n]],
                        Functor("connectDestroyed", connections_[n]))
               /\ Flow(NoLoop, 0, ioLoop[connections_[n]],
                       Functor("connectDestroyed", connections_[n]))
               /\ UNCHANGED statusVars
<1> DEFINE c == connections_[n]
<1>1. /\ main = "destroying" /\ n \in DOMAIN connections_
      /\ connections_' = Without(n)
      /\ UNCHANGED <<main, startVars, poolVars, listening_, waiting, nextConnId_, phase,
                     quit_, functors, done, closing, callVars, ioLoop, name_, endVars>>
      /\ \/ /\ ioLoop[c] = BaseLoop
            /\ ConnectDestroyed(c)
            /\ pendingFunctors_' = pendingFunctors_
         \/ /\ ioLoop[c] # BaseLoop
            /\ Queue(ioLoop[c], Functor("connectDestroyed", c))
            /\ UNCHANGED statusVars
  BY DEF DestroyConnection
<1>2. c \in Created
  BY <1>1 DEF TypeOK, Range
<1>3. ioLoop[c] \in Loops
  BY <1>2 DEF TypeOK, Created
<1>4. Functor("connectDestroyed", c) \in FunctorType
  BY <1>2, FunctorFacts DEF Ops
<1> HIDE DEF c
<1>5. ASSUME Queue(ioLoop[c], Functor("connectDestroyed", c))
      PROVE  Flow(NoLoop, 0, ioLoop[c], Functor("connectDestroyed", c))
  BY <1>1, <1>3, <1>4, <1>5, QueueFlow
<1> QED
  BY <1>1, <1>2, <1>3, <1>5 DEF c

\* connectDestroyed of a connection that is there.
LEMMA ConnectDestroyedFacts ==
  ASSUME TypeOK, NEW c \in Created, ConnectDestroyed(c)
  PROVE  /\ Created' = Created /\ state_' \in [Conns -> States]
         /\ downs' \in [Conns -> Nat]
         /\ inPoller' = inPoller \ {c} /\ watched' = watched \ {c}
         /\ destroyed' = destroyed \union {c} /\ revived' = revived /\ overwrote' = overwrote
         /\ \A d \in Conns : d # c => state_'[d] = state_[d] /\ downs'[d] = downs[d]
         /\ \/ /\ state_[c] = "kConnected" /\ state_'[c] = "kDisconnected"
               /\ downs'[c] = downs[c] + 1
            \/ /\ state_[c] # "kConnected" /\ state_'[c] = state_[c]
               /\ downs'[c] = downs[c]
<1>1. /\ c \in Conns /\ state_ \in [Conns -> States] /\ downs \in [Conns -> Nat]
  BY DEF Created, TypeOK
<1>2. /\ inPoller' = inPoller \ {c} /\ watched' = watched \ {c}
      /\ destroyed' = destroyed \union {c} /\ revived' = revived /\ overwrote' = overwrote
  BY DEF ConnectDestroyed
<1>3. CASE state_[c] = "kConnected"
  <2>1. /\ state_' = [state_ EXCEPT ![c] = "kDisconnected"]
        /\ downs' = [downs EXCEPT ![c] = @ + 1]
    BY <1>3 DEF ConnectDestroyed
  <2>2. Created' = Created /\ state_' \in [Conns -> States]
    BY <2>1, SameCreated DEF States
  <2> QED
    BY <1>1, <1>2, <1>3, <2>1, <2>2
<1>4. CASE state_[c] # "kConnected"
  <2>1. state_' = state_ /\ downs' = downs
    BY <1>4 DEF ConnectDestroyed
  <2> QED
    BY <1>1, <1>2, <1>4, <2>1 DEF Created
<1> QED
  BY <1>3, <1>4
------------------------------------------------------------------------------
(***************************************************************************)
(* The steps, one invariant at a time.                                     *)
(***************************************************************************)

\* The steps of the handlers of a connection, and shutdown()'s, wherever it is called.
Handling ==
  \/ \E c \in Conns : Shutdown(c) \/ HandleClose(c) \/ HandleWrite(c)
  \/ \E p \in Callers : SetDisconnecting(p)

\* They touch one connection, and no queue.
LEMMA HandlingFacts ==
  ASSUME TypeOK, CallersPlaced, Handling
  PROVE  /\ UNCHANGED <<main, startVars, poolVars, listening_, waiting, mapVars, queueVars,
                        sends, ioLoop, name_, inPoller, destroyed, revived, endVars>>
         /\ caller' = caller \/ \E p \in Callers : caller' = [caller EXCEPT ![p] = Idle]
         /\ \E c \in Created :
              /\ \/ state_' = state_
                 \/ \E s \in States \ {"none", "kConnecting"} : state_' = [state_ EXCEPT ![c] = s]
              /\ downs' = downs \/ downs' = [downs EXCEPT ![c] = @ + 1]
              /\ watched' \subseteq watched
              /\ overwrote' = overwrote \/ overwrote' = overwrote \union {c}
              /\ \/ closing' = closing
                 \/ closing' = [closing EXCEPT ![ioLoop[c]] = c] /\ phase[ioLoop[c]] = "poll"
<1>1. CASE \E c \in Conns : Shutdown(c) \/ HandleClose(c) \/ HandleWrite(c)
  <2>1. PICK c \in Conns : Shutdown(c) \/ HandleClose(c) \/ HandleWrite(c)
    BY <1>1
  <2>2. c \in Created
    BY <2>1 DEF Shutdown, HandleClose, HandleWrite, Reported, Alive
  <2>3. CASE Shutdown(c)
    BY <2>2, <2>3 DEF Shutdown, States, callVars
  <2>4. CASE HandleClose(c)
    BY <2>2, <2>4 DEF HandleClose, Reported, Dispatching, States, callVars
  <2>5. CASE HandleWrite(c)
    BY <2>2, <2>5 DEF HandleWrite, callVars
  <2> QED
    BY <2>1, <2>3, <2>4, <2>5
<1>2. CASE \E p \in Callers : SetDisconnecting(p)
  <2>1. PICK p \in Callers : SetDisconnecting(p)
    BY <1>2
  <2>2. caller[p].conn \in Created
    BY <2>1 DEF CallersPlaced, SetDisconnecting
  <2> QED
    BY <2>1, <2>2 DEF SetDisconnecting, States
<1> QED
  BY <1>1, <1>2 DEF Handling

\* A send() queues its functor, unless the loop is gone.
LEMMA QueueSendFacts ==
  ASSUME TypeOK, CallersPlaced, NEW p \in Callers, QueueSend(p)
  PROVE  /\ UNCHANGED <<main, startVars, poolVars, listening_, waiting, mapVars, phase, quit_,
                        functors, done, closing, sends, connVars, endVars>>
         /\ caller' = [caller EXCEPT ![p] = Idle]
         /\ \E c \in Created :
              /\ c = caller[p].conn /\ ioLoop[c] \in Loops /\ state_[c] # "kConnecting"
              /\ Functor("sendInLoop", c) \in FunctorType
              /\ \/ pendingFunctors_' = pendingFunctors_ /\ Flow(NoLoop, 0, NoLoop, NoFunctor)
                 \/ /\ ~Gone(ioLoop[c])
                    /\ Queue(ioLoop[c], Functor("sendInLoop", c))
                    /\ Flow(NoLoop, 0, ioLoop[c], Functor("sendInLoop", c))
<1>1. PICK c \in Created : c = caller[p].conn /\ state_[c] # "kConnecting"
  BY DEF CallersPlaced, QueueSend
<1>2. ioLoop[c] \in Loops /\ Functor("sendInLoop", c) \in FunctorType
  BY FunctorFacts DEF Ops, TypeOK, Created
<1>3. /\ UNCHANGED <<main, startVars, poolVars, listening_, waiting, mapVars, phase, quit_,
                     functors, done, closing, sends, connVars, endVars>>
      /\ caller' = [caller EXCEPT ![p] = Idle]
      /\ \/ pendingFunctors_' = pendingFunctors_
         \/ ~Gone(ioLoop[c]) /\ Queue(ioLoop[c], Functor("sendInLoop", c))
  BY <1>1 DEF QueueSend
<1>4. pendingFunctors_' = pendingFunctors_ => Flow(NoLoop, 0, NoLoop, NoFunctor)
  BY <1>3, NoFlow
<1>5. Queue(ioLoop[c], Functor("sendInLoop", c)) =>
        Flow(NoLoop, 0, ioLoop[c], Functor("sendInLoop", c))
  BY <1>2, <1>3, QueueFlow
<1> QED
  BY <1>1, <1>2, <1>3, <1>4, <1>5

\* The steps that touch neither queues nor connections.
Aside ==
  \/ \E n \in 0 .. MaxThreads : SetThreadNum(n)
  \/ \E t \in Starters : TestStarted(t)
  \/ EnterLoop \/ QuitBaseLoop
  \/ ClientArrives \/ AcceptFails
  \/ BeginDestroy \/ BeginJoin \/ EndJoin \/ DestroyAcceptor
  \/ \E i \in 1 .. MaxThreads : QuitThread(i)
  \/ \E p \in Callers, c \in Conns : BeginShutdown(p, c) \/ BeginSend(p, c)
  \/ UNCHANGED vars

\* They leave most things as they are.
LEMMA AsideFacts ==
  ASSUME Aside
  PROVE  UNCHANGED <<loops_, next_, mapVars, pendingFunctors_, functors, done, closing,
                     connVars, endVars>>
BY DEF Aside, SetThreadNum, TestStarted, EnterLoop, QuitBaseLoop, ClientArrives, AcceptFails,
       BeginDestroy, BeginJoin, EndJoin, DestroyAcceptor, QuitThread, BeginShutdown, BeginSend,
       vars, startVars, poolVars, mapVars, queueVars, connVars

\* The steps there are.
LEMMA NextCases ==
  ASSUME [Next]_vars
  PROVE  \/ Aside
         \/ \E t \in Starters : StartPool(t)
         \/ AcceptConnection
         \/ Handling
         \/ \E p \in Callers : QueueSend(p)
         \/ \E l \in Loops : Swap(l) \/ RunFunctor(l) \/ EndTurn(l) \/ CloseCallback(l)
         \/ \E n \in Names : DestroyConnection(n)
         \/ DestroyBaseLoop
BY DEF Next, MainStep, LoopStep, CallerStep, Aside, Handling

\* start() begins with the pool empty; a caller on another thread queues listen().
LEMMA StartPoolFacts ==
  ASSUME TypeOK, NEW t \in Starters, StartPool(t)
  PROVE  /\ UNCHANGED <<done, functors, closing, callVars, connVars, mapVars, next_, endVars>>
         /\ \/ pendingFunctors_' = pendingFunctors_ /\ listening_' = TRUE
            \/ /\ Queue(BaseLoop, NoFunctor) /\ listening_' = listening_
               /\ Flow(NoLoop, 0, BaseLoop, NoFunctor)
<1>1. UNCHANGED <<done, functors, closing, callVars, connVars, mapVars, next_, endVars>>
  BY DEF StartPool
<1>2. \/ pendingFunctors_' = pendingFunctors_ /\ listening_' = TRUE
      \/ Queue(BaseLoop, NoFunctor) /\ listening_' = listening_
  BY DEF StartPool, NoFunctor, Listen
<1>3. NoFunctor \in FunctorType
  BY DEF NoFunctor, Functor, FunctorType, Ops
<1> QED
  BY <1>1, <1>2, <1>3, BaseIsLoop, QueueFlow

\* Connections stay, on their loops and with their names, and do not go back to
\* kConnecting; only newConnection makes one.
LEMMA OldStay ==
  ASSUME TypeOK, Numbered, Placed, CallersPlaced, [Next]_vars
  PROVE  /\ Created \subseteq Created'
         /\ \A c \in Created :
              /\ ioLoop'[c] = ioLoop[c] /\ name_'[c] = name_[c]
              /\ state_'[c] = "kConnecting" => state_[c] = "kConnecting"
         /\ AcceptConnection \/ (Created' = Created /\ ioLoop' = ioLoop /\ name_' = name_)
<1>1. CASE Aside
  BY <1>1, AsideFacts DEF Created, connVars, statusVars
<1>2. CASE \E t \in Starters : StartPool(t)
  BY <1>2 DEF StartPool, Created, connVars, statusVars
<1>3. CASE AcceptConnection
  <2>1. NewConnection /\ waiting > 0
    BY <1>3 DEF AcceptConnection, AcceptorReady
  <2>2. PICK n \in 0 .. MaxConns - 1 :
          /\ Created = 1 .. n /\ Created' = 1 .. n + 1 /\ n + 1 \notin Created
          /\ ioLoop' = [ioLoop EXCEPT ![n + 1] = NextLoop]
          /\ name_' = [name_ EXCEPT ![n + 1] = nextConnId_]
          /\ \E s : state_' = [state_ EXCEPT ![n + 1] = s]
    BY <2>1, NewConnectionFacts
  <2>3. ASSUME NEW c \in Created
        PROVE  /\ c \in Created' /\ ioLoop'[c] = ioLoop[c] /\ name_'[c] = name_[c]
               /\ state_'[c] = state_[c]
    <3>1. c \in Conns /\ c # n + 1
      BY <2>2 DEF Created
    <3>2. c \in Created'
      BY <2>2, ConstantsAssumption
    <3> QED
      BY <2>2, <3>1, <3>2 DEF TypeOK
  <2> QED
    BY <1>3, <2>3
<1>4. CASE Handling
  <2>1. PICK c \in Created :
          \/ state_' = state_
          \/ \E s \in States \ {"none", "kConnecting"} : state_' = [state_ EXCEPT ![c] = s]
    BY <1>4, HandlingFacts
  <2>2. Created' = Created
    BY <2>1, SameCreated DEF Created
  <2>3. \A d \in Created : state_'[d] = "kConnecting" => state_[d] = "kConnecting"
    BY <2>1 DEF TypeOK, Created
  <2> QED
    BY <1>4, <2>2, <2>3, HandlingFacts
<1>5. CASE \/ \E l \in Loops : Swap(l) \/ EndTurn(l) \/ CloseCallback(l)
           \/ \E p \in Callers : QueueSend(p)
  BY <1>5 DEF Swap, EndTurn, CloseCallback, QueueSend, connVars, statusVars, Created
<1>6. CASE \E l \in Loops : RunFunctor(l)
  <2>1. PICK l \in Loops : RunFunctor(l)
    BY <1>6
  <2>2. PICK f \in FunctorType : \/ RunsListen(l, f) \/ RunsEstablished(l, f)
                                 \/ RunsRemove(l, f) \/ RunsDestroyed(l, f) \/ RunsSend(l, f)
    BY <2>1, RunFacts
  <2>3. ioLoop' = ioLoop /\ name_' = name_
    BY <2>1, RunFacts
  <2>4. CASE RunsListen(l, f) \/ RunsRemove(l, f) \/ RunsSend(l, f)
    BY <2>3, <2>4 DEF RunsListen, RunsRemove, RunsSend, SendInLoop, statusVars, Created
  <2>5. CASE RunsEstablished(l, f)
    BY <2>3, <2>5, SameCreated DEF RunsEstablished, ConnectEstablished, States, TypeOK, Created
  <2>6. CASE RunsDestroyed(l, f)
    BY <2>3, <2>6, ConnectDestroyedFacts DEF RunsDestroyed, Created
  <2> QED
    BY <2>2, <2>4, <2>5, <2>6
<1>7. CASE \E n \in Names : DestroyConnection(n)
  <2>1. PICK n \in Names : DestroyConnection(n)
    BY <1>7
  <2>2. /\ ioLoop' = ioLoop /\ name_' = name_ /\ connections_[n] \in Created
        /\ ConnectDestroyed(connections_[n]) \/ state_' = state_
    BY <2>1, DestroyFacts DEF statusVars
  <2>3. Created' = Created
        /\ \A c \in Created : state_'[c] = "kConnecting" => state_[c] = "kConnecting"
    BY <2>2, ConnectDestroyedFacts DEF Created
  <2> QED
    BY <2>2, <2>3
<1>8. CASE DestroyBaseLoop
  BY <1>8 DEF DestroyBaseLoop, connVars, statusVars, Created
<1> QED
  BY <1>1, <1>2, <1>3, <1>4, <1>5, <1>6, <1>7, <1>8, NextCases

\* What is ahead stays in its place, and so does what is put behind it.
LEMMA FlowPlaced ==
  ASSUME TypeOK, Placed, NEW l, NEW d, NEW m, NEW f, Flow(l, d, m, f),
         \A c \in Created :
           /\ c \in Created' /\ ioLoop'[c] = ioLoop[c]
           /\ state_'[c] = "kConnecting" => state_[c] = "kConnecting",
         m \in Loops =>
           /\ f.op # "listen" => f.conn \in Created'
           /\ f.op = "listen" => f = NoFunctor
           /\ f.op \in {"connectEstablished", "connectDestroyed", "sendInLoop"} =>
                ioLoop'[f.conn] = m
           /\ f.op \in {"listen", "removeConnectionInLoop"} => m = BaseLoop
           /\ f.op = "sendInLoop" => state_'[f.conn] # "kConnecting"
  PROVE  Placed'
<1> SUFFICES ASSUME NEW k \in Loops, NEW b, b = Ahead(k)', NEW i \in 1 .. Len(b)
             PROVE  /\ b[i].op # "listen" => b[i].conn \in Created'
                    /\ b[i].op = "listen" => b[i] = NoFunctor
                    /\ b[i].op \in {"connectEstablished", "connectDestroyed", "sendInLoop"} =>
                         ioLoop'[b[i].conn] = k
                    /\ b[i].op \in {"listen", "removeConnectionInLoop"} => k = BaseLoop
                    /\ b[i].op = "sendInLoop" => state_'[b[i].conn] # "kConnecting"
  BY DEF Placed, PlacedAt
<1> DEFINE a == Ahead(k)
           n == IF k = l THEN d ELSE 0
<1>1. a \in Seq(FunctorType) /\ Len(a) \in Nat
  BY QueueTypes
<1>2. IF k = m THEN DropsAdds(b, a, n, f) ELSE Drops(b, a, n)
  BY DEF Flow
<1>3. \A j \in 1 .. Len(a) : PlacedAt(k, a[j])
  BY DEF Placed
<1> HIDE DEF a, n
<1>4. CASE k = m /\ i = Len(a) - n + 1
  <2>1. b[i] = f
    BY <1>2, <1>4 DEF DropsAdds
  <2> QED
    BY <1>4, <2>1
<1>5. CASE ~(k = m /\ i = Len(a) - n + 1)
  <2>1. n \in 0 .. Len(a) /\ i \in 1 .. Len(a) - n /\ b[i] = a[i + n]
    BY <1>1, <1>2, <1>5 DEF Drops, DropsAdds
  <2>2. i + n \in 1 .. Len(a)
    BY <1>1, <2>1
  <2> QED
    BY <1>3, <2>1, <2>2 DEF PlacedAt
<1> QED
  BY <1>4, <1>5

\* Every functor is put where it belongs.
LEMMA PlacedStep ==
  ASSUME ServerInv, [Next]_vars
  PROVE  Placed'
<1>1. TypeOK /\ Numbered /\ Placed /\ ClosingPlaced /\ CallersPlaced
  BY DEF ServerInv
<1>2. \A c \in Created : /\ c \in Created' /\ ioLoop'[c] = ioLoop[c]
                         /\ state_'[c] = "kConnecting" => state_[c] = "kConnecting"
  BY <1>1, OldStay
<1>3. \A c \in Created, op \in Ops :
        /\ Functor(op, c).op = op /\ Functor(op, c).conn = c
  BY FunctorFacts
<1>4. NoLoop \notin Loops
  BY DEF NoLoop, Loops
<1>5. ASSUME \E l, d : Flow(l, d, NoLoop, NoFunctor)
      PROVE  Placed'
  BY <1>1, <1>2, <1>4, <1>5, FlowPlaced
<1>6. ASSUME NEW c \in Created, NEW l, NEW d, NEW op \in {"connectDestroyed", "sendInLoop"},
             Flow(l, d, ioLoop[c], Functor(op, c)),
             op = "sendInLoop" => state_[c] # "kConnecting"
      PROVE  Placed'
  <2> DEFINE f == Functor(op, c)
  <2>1. f.op = op /\ f.conn = c
    BY <1>3 DEF Ops
  <2> HIDE DEF f
  <2>2. Flow(l, d, ioLoop[c], f)
    BY <1>6 DEF f
  <2> QED
    BY <1>1, <1>2, <1>6, <2>1, <2>2, FlowPlaced
<1>7. CASE Aside
  BY <1>1, <1>5, <1>7, AsideFacts, NoFlow
<1>8. CASE \E t \in Starters : StartPool(t)
  <2>1. CASE pendingFunctors_' = pendingFunctors_
    BY <1>1, <1>5, <1>8, <2>1, StartPoolFacts, NoFlow
  <2>2. CASE Flow(NoLoop, 0, BaseLoop, NoFunctor)
    <3>1. NoFunctor.op = "listen"
      BY DEF NoFunctor, Functor
    <3> QED
      BY <1>1, <1>2, <2>2, <3>1, FlowPlaced
  <2> QED
    BY <1>1, <1>8, <2>1, <2>2, StartPoolFacts
<1>9. CASE AcceptConnection
  <2>1. NewConnection /\ waiting > 0 /\ functors' = functors /\ done' = done
    BY <1>9 DEF AcceptConnection, AcceptorReady
  <2>2. PICK n \in 0 .. MaxConns - 1 :
          /\ Created' = 1 .. n + 1 /\ n + 1 \in Conns /\ NextLoop \in Loops
          /\ ioLoop' = [ioLoop EXCEPT ![n + 1] = NextLoop]
          /\ \/ pendingFunctors_' = pendingFunctors_
             \/ Queue(NextLoop, Functor("connectEstablished", n + 1))
    BY <1>1, <2>1, NewConnectionFacts
  <2> DEFINE f == Functor("connectEstablished", n + 1)
  <2>3. /\ f \in FunctorType /\ f.op = "connectEstablished" /\ f.conn = n + 1
    BY <2>2 DEF Functor, FunctorType, Ops
  <2>4. n + 1 \in Created' /\ ioLoop'[n + 1] = NextLoop
    BY <1>1, <2>2, ConstantsAssumption DEF TypeOK
  <2> HIDE DEF f
  <2>5. CASE pendingFunctors_' = pendingFunctors_
    BY <1>1, <1>5, <2>1, <2>5, NoFlow
  <2>6. CASE Queue(NextLoop, f)
    <3>1. Flow(NoLoop, 0, NextLoop, f)
      BY <1>1, <2>1, <2>2, <2>3, <2>6, QueueFlow
    <3> QED
      BY <1>1, <1>2, <2>3, <2>4, <3>1, FlowPlaced
  <2> QED
    BY <2>2, <2>5, <2>6 DEF f
<1>10. CASE Handling \/ \E p \in Callers : QueueSend(p)
  <2>1. CASE Handling
    <3>1. UNCHANGED <<pendingFunctors_, functors, done>>
      BY <1>1, <2>1, HandlingFacts DEF queueVars
    <3> QED
      BY <1>1, <1>5, <3>1, NoFlow
  <2>2. CASE \E p \in Callers : QueueSend(p)
    <3>1. PICK c \in Created : \/ Flow(NoLoop, 0, NoLoop, NoFunctor)
                              \/ /\ Flow(NoLoop, 0, ioLoop[c], Functor("sendInLoop", c))
                                 /\ state_[c] # "kConnecting"
      BY <1>1, <2>2, QueueSendFacts
    <3> QED
      BY <1>5, <1>6, <3>1
  <2> QED
    BY <1>10, <2>1, <2>2
<1>11. CASE \E l \in Loops : Swap(l) \/ EndTurn(l)
  BY <1>1, <1>5, <1>11, SwapFlow, EndTurnFlow
<1>12. CASE \E l \in Loops : RunFunctor(l)
  <2>1. PICK l \in Loops : RunFunctor(l)
    BY <1>12
  <2>2. PICK f \in FunctorType : \/ RunsListen(l, f) \/ RunsEstablished(l, f)
                                 \/ RunsRemove(l, f) \/ RunsDestroyed(l, f) \/ RunsSend(l, f)
    BY <1>1, <2>1, RunFacts
  <2>3. CASE \/ RunsListen(l, f) \/ RunsEstablished(l, f) \/ RunsDestroyed(l, f)
             \/ RunsSend(l, f)
    BY <1>5, <2>3 DEF RunsListen, RunsEstablished, RunsDestroyed, RunsSend
  <2>4. CASE RunsRemove(l, f)
    BY <1>6, <2>4 DEF RunsRemove
  <2> QED
    BY <2>2, <2>3, <2>4
<1>13. CASE \E l \in Loops : CloseCallback(l)
  <2>1. PICK l \in Loops : CloseCallback(l)
    BY <1>13
  <2>2. closing[l] \in Created /\ ioLoop[closing[l]] = l
    BY <1>1, <2>1, CloseCallbackFacts
  <2>3. PICK c \in Created : c = closing[l]
    BY <2>2
  <2>4. CASE Flow(NoLoop, 0, l, Functor("connectDestroyed", c))
    BY <1>6, <2>2, <2>3, <2>4
  <2>5. CASE Flow(NoLoop, 0, BaseLoop, Functor("removeConnectionInLoop", c))
    <3> DEFINE f == Functor("removeConnectionInLoop", c)
    <3>1. f.op = "removeConnectionInLoop" /\ f.conn = c
      BY <1>3 DEF Ops
    <3> HIDE DEF f
    <3>2. Flow(NoLoop, 0, BaseLoop, f)
      BY <2>5 DEF f
    <3> QED
      BY <1>1, <1>2, <3>1, <3>2, FlowPlaced
  <2> QED
    BY <1>1, <2>1, <2>3, <2>4, <2>5, CloseCallbackFacts
<1>14. CASE \E n \in Names : DestroyConnection(n)
  <2>1. PICK n \in Names : DestroyConnection(n)
    BY <1>14
  <2>2. PICK c \in Created : c = connections_[n]
    BY <1>1, <2>1, DestroyFacts
  <2>3. CASE pendingFunctors_' = pendingFunctors_
    <3>1. UNCHANGED <<functors, done>>
      BY <1>1, <2>1, DestroyFacts
    <3> QED
      BY <1>1, <1>5, <2>3, <3>1, NoFlow
  <2>4. CASE Flow(NoLoop, 0, ioLoop[c], Functor("connectDestroyed", c))
    BY <1>6, <2>4
  <2> QED
    BY <1>1, <2>1, <2>2, <2>3, <2>4, DestroyFacts
<1>15. CASE DestroyBaseLoop
  <2>1. phase[BaseLoop] = "stopped"
    BY <1>15 DEF ServerInv, Lifecycle, DestroyBaseLoop
  <2> QED
    BY <1>1, <1>5, <1>15, <2>1, EndBaseFlow
<1> QED
  BY <1>7, <1>8, <1>9, <1>10, <1>11, <1>12, <1>13, <1>14, <1>15, NextCases

\* A connection that is going down is on the loop whose handler it is in.
LEMMA ClosingPlacedStep ==
  ASSUME ServerInv, [Next]_vars
  PROVE  ClosingPlaced'
<1>1. TypeOK /\ Numbered /\ Placed /\ ClosingPlaced /\ CallersPlaced
  BY DEF ServerInv
<1>2. \A c \in Created : c \in Created' /\ ioLoop'[c] = ioLoop[c]
  BY <1>1, OldStay
<1>3. closing \in [Loops -> Conns \union {NoConn}]
  BY <1>1 DEF TypeOK
<1>4. ASSUME closing' = closing
      PROVE  ClosingPlaced'
  BY <1>1, <1>2, <1>4 DEF ClosingPlaced
<1>5. CASE Handling
  <2>1. PICK c \in Created : closing' = closing \/ closing' = [closing EXCEPT ![ioLoop[c]] = c]
    BY <1>1, <1>5, HandlingFacts
  <2> QED
    BY <1>1, <1>2, <1>3, <1>4, <2>1 DEF ClosingPlaced
<1>6. CASE \E l \in Loops : CloseCallback(l)
  <2>1. PICK l \in Loops : closing' = [closing EXCEPT ![l] = NoConn]
    BY <1>1, <1>6, CloseCallbackFacts
  <2> QED
    BY <1>1, <1>2, <1>3, <2>1 DEF ClosingPlaced
<1>7. CASE Aside
  BY <1>4, <1>7, AsideFacts
<1>8. CASE \/ \E t \in Starters : StartPool(t)
           \/ AcceptConnection
           \/ \E p \in Callers : QueueSend(p)
           \/ \E l \in Loops : Swap(l) \/ RunFunctor(l) \/ EndTurn(l)
           \/ \E n \in Names : DestroyConnection(n)
           \/ DestroyBaseLoop
  <2>1. closing' = closing
    BY <1>8 DEF StartPool, AcceptConnection, QueueSend, Swap, RunFunctor, EndTurn,
                DestroyConnection, DestroyBaseLoop
  <2> QED
    BY <1>4, <2>1
<1> QED
  BY <1>5, <1>6, <1>7, <1>8, NextCases

\* A call is made on a connection that has come up.
LEMMA CallersPlacedStep ==
  ASSUME ServerInv, [Next]_vars
  PROVE  CallersPlaced'
<1>1. TypeOK /\ Numbered /\ Placed /\ ClosingPlaced /\ CallersPlaced
  BY DEF ServerInv
<1>2. \A c \in Created : /\ c \in Created'
                         /\ state_'[c] = "kConnecting" => state_[c] = "kConnecting"
  BY <1>1, OldStay
<1>3. ASSUME \A p \in Callers :
               \/ caller'[p] = caller[p] \/ caller'[p] = Idle
               \/ caller'[p].conn \in Created /\ state_[caller'[p].conn] # "kConnecting"
      PROVE  CallersPlaced'
  BY <1>1, <1>2, <1>3 DEF CallersPlaced, Idle, Call
<1>4. caller' = caller \/ \E p \in Callers : \/ caller' = [caller EXCEPT ![p] = Idle]
                                             \/ \E what \in {"send", "shutdown"}, c \in Created :
                                                  /\ caller' = [caller EXCEPT ![p] = Call(what, c)]
                                                  /\ state_[c] # "kConnecting"
  <2>1. CASE Handling
    BY <1>1, <2>1, HandlingFacts
  <2>2. CASE \E p \in Callers : QueueSend(p)
    BY <1>1, <2>2, QueueSendFacts
  <2>3. CASE \E p \in Callers, c \in Conns : BeginShutdown(p, c) \/ BeginSend(p, c)
    BY <2>3 DEF BeginShutdown, BeginSend, Alive
  <2>4. CASE Aside /\ ~ \E p \in Callers, c \in Conns : BeginShutdown(p, c) \/ BeginSend(p, c)
    BY <2>4 DEF Aside, SetThreadNum, TestStarted, EnterLoop, QuitBaseLoop, ClientArrives,
                AcceptFails, BeginDestroy, BeginJoin, EndJoin, DestroyAcceptor, QuitThread,
                callVars, vars
  <2>5. CASE \/ \E t \in Starters : StartPool(t)
             \/ AcceptConnection
             \/ \E l \in Loops : Swap(l) \/ RunFunctor(l) \/ EndTurn(l) \/ CloseCallback(l)
             \/ \E n \in Names : DestroyConnection(n)
             \/ DestroyBaseLoop
    BY <2>5 DEF StartPool, AcceptConnection, Swap, RunFunctor, EndTurn, CloseCallback,
                DestroyConnection, DestroyBaseLoop, callVars
  <2> QED
    BY <2>1, <2>2, <2>3, <2>4, <2>5, NextCases
<1>5. DOMAIN caller = Callers
  BY <1>1 DEF TypeOK
<1> QED
  BY <1>3, <1>4, <1>5 DEF Call

\* Connections are made in order, and only of clients that there is room for.
LEMMA NumberedStep ==
  ASSUME ServerInv, [Next]_vars
  PROVE  Numbered'
<1>1. TypeOK /\ Numbered /\ Placed /\ CallersPlaced
  BY DEF ServerInv
<1>2. PICK n \in 0 .. MaxConns : Created = 1 .. n /\ waiting + n <= MaxConns
  BY <1>1 DEF Numbered
<1>3. waiting \in Nat /\ MaxConns \in Nat
  BY <1>1, ConstantsAssumption DEF TypeOK
<1>4. CASE AcceptConnection
  <2>1. NewConnection /\ waiting > 0 /\ waiting' = waiting - 1
    BY <1>4 DEF AcceptConnection, AcceptorReady
  <2>2. PICK k \in 0 .. MaxConns - 1 : Created' = 1 .. k + 1 /\ waiting + k <= MaxConns
    BY <1>1, <2>1, NewConnectionFacts
  <2> QED
    BY <1>3, <2>1, <2>2 DEF Numbered
<1>5. CASE ~AcceptConnection /\ ClientArrives
  <2>1. Created' = Created /\ waiting' = waiting + 1
        /\ waiting + Cardinality(Created) < MaxConns
    BY <1>1, <1>5, OldStay DEF ClientArrives
  <2>2. Cardinality(Created) = n
    <3>1. 1 \in Int /\ n \in Int /\ 1 <= n + 1
      OBVIOUS
    <3>2. Cardinality(1 .. n) = n - 1 + 1
      BY <3>1, FS_Interval
    <3> QED
      BY <1>2, <3>2
  <2> QED
    BY <1>2, <1>3, <2>1, <2>2 DEF Numbered
<1>6. CASE ~AcceptConnection /\ ~ClientArrives
  <2>1. Created' = Created
    BY <1>1, <1>6, OldStay
  <2>2. waiting' = waiting
    BY <1>6 DEF Next, LoopStep, MainStep, CallerStep, SetThreadNum, TestStarted, StartPool,
       EnterLoop, QuitBaseLoop, AcceptFails, Shutdown, HandleClose, HandleWrite, BeginShutdown,
       SetDisconnecting, BeginSend, QueueSend, Swap, RunFunctor, EndTurn,
       CloseCallback, BeginDestroy, DestroyConnection, BeginJoin, QuitThread, EndJoin,
       DestroyAcceptor, DestroyBaseLoop, vars
  <2> QED
    BY <1>2, <2>1, <2>2 DEF Numbered
<1> QED
  BY <1>4, <1>5, <1>6

\* The life of main and of the loops.
LEMMA LifecycleStep ==
  ASSUME ServerInv, [Next]_vars
  PROVE  Lifecycle'
<1>1. TypeOK /\ Lifecycle /\ Starting /\ Numbered /\ Placed /\ ClosingPlaced /\ CallersPlaced
  BY DEF ServerInv
<1>2. /\ phase \in [Loops -> Phases] /\ quit_ \in [Loops -> BOOLEAN]
      /\ pendingFunctors_ \in [Loops -> Seq(FunctorType)]
      /\ closing \in [Loops -> Conns \union {NoConn}]
      /\ starter \in [Starters -> {"idle", "won", "done"}]
  BY <1>1 DEF TypeOK, FunctorType
<1>3. BaseLoop \in Loops /\ \A l \in IoLoops : l \in Loops /\ l # BaseLoop
  BY BaseIsLoop
<1>4. \A l \in IoLoops : main \in {"setup", "looping", "destroying"} => phase[l] # "stopped"
  BY <1>1 DEF Lifecycle
<1>5. main = "looping" \/ phase[BaseLoop] \in {"none", "stopped"}
  BY <1>1 DEF Lifecycle, TypeOK, MainPoints
<1>6. ASSUME UNCHANGED <<main, starter, phase, loops_, quit_>>,
             \A l \in Loops : closing'[l] # NoConn => closing[l] # NoConn \/ phase[l] = "poll",
             \A l \in IoLoops : pendingFunctors_'[l] # pendingFunctors_[l] => phase[l] # "stopped"
      PROVE  Lifecycle'
  BY <1>1, <1>2, <1>3, <1>6 DEF Lifecycle
<1>7. ASSUME NEW m \in Loops, NEW f, Queue(m, f)
      PROVE  \A l \in IoLoops : l # m => pendingFunctors_'[l] = pendingFunctors_[l]
  BY <1>2, <1>3, <1>7 DEF Queue
<1>8. CASE Aside
  <2>1. closing' = closing /\ pendingFunctors_' = pendingFunctors_ /\ loops_' = loops_
    BY <1>8, AsideFacts
  <2>2. CASE \/ \E n \in 0 .. MaxThreads : SetThreadNum(n)
             \/ ClientArrives \/ AcceptFails \/ UNCHANGED vars
             \/ \E p \in Callers, c \in Conns : BeginShutdown(p, c) \/ BeginSend(p, c)
    <3>1. UNCHANGED <<main, starter, phase, quit_>>
      BY <2>2 DEF SetThreadNum, ClientArrives, AcceptFails, BeginShutdown, BeginSend, vars, startVars, queueVars
    <3> QED
      BY <1>6, <2>1, <3>1
  <2>3. CASE \E t \in Starters : TestStarted(t)
    <3>1. UNCHANGED <<main, phase, quit_>> /\ main \in {"setup", "looping"}
      BY <2>3 DEF TestStarted, queueVars
    <3> QED
      BY <1>1, <2>1, <3>1 DEF Lifecycle
  <2>4. CASE EnterLoop
    <3>1. /\ main = "setup" /\ main' = "looping" /\ starter' = starter /\ quit_' = quit_
          /\ phase' = [phase EXCEPT ![BaseLoop] = "poll"]
      BY <2>4 DEF EnterLoop, startVars
    <3> QED
      BY <1>1, <1>2, <1>3, <2>1, <3>1 DEF Lifecycle
  <2>5. CASE QuitBaseLoop
    <3>1. /\ UNCHANGED <<main, phase, starter>>
          /\ quit_' = [quit_ EXCEPT ![BaseLoop] = TRUE]
      BY <2>5 DEF QuitBaseLoop, startVars
    <3> QED
      BY <1>1, <1>2, <1>3, <2>1, <3>1 DEF Lifecycle
  <2>6. CASE BeginDestroy
    <3>1. /\ UNCHANGED <<phase, starter, quit_>> /\ main = "looping" /\ main' = "destroying"
          /\ phase[BaseLoop] = "stopped" /\ \A t \in Starters : starter[t] # "won"
      BY <2>6 DEF BeginDestroy, startVars, queueVars
    <3> QED
      BY <1>1, <2>1, <3>1 DEF Lifecycle
  <2>7. CASE BeginJoin
    <3>1. /\ UNCHANGED <<phase, starter, quit_>> /\ main = "destroying" /\ main' = "joining"
      BY <2>7 DEF BeginJoin, startVars, queueVars
    <3> QED
      BY <1>1, <2>1, <3>1 DEF Lifecycle
  <2>8. CASE EndJoin
    <3>1. /\ UNCHANGED <<phase, starter, quit_>> /\ main = "joining" /\ main' = "joined"
          /\ \A l \in Range(loops_) : phase[l] = "stopped"
      BY <2>8 DEF EndJoin, startVars, queueVars
    <3>2. \A l \in IoLoops : phase[l] \in {"none", "stopped"}
      BY <1>1, <3>1 DEF Lifecycle
    <3> QED
      BY <1>1, <2>1, <3>1, <3>2 DEF Lifecycle
  <2>9. CASE DestroyAcceptor
    <3>1. /\ UNCHANGED <<phase, starter, quit_>> /\ main = "joined" /\ main' = "destroyed"
      BY <2>9 DEF DestroyAcceptor, startVars, queueVars
    <3> QED
      BY <1>1, <2>1, <3>1 DEF Lifecycle
  <2>10. CASE \E i \in 1 .. MaxThreads : QuitThread(i)
    <3>1. PICK i \in DOMAIN loops_ :
            /\ UNCHANGED <<main, phase, starter>> /\ main = "joining"
            /\ quit_' = [quit_ EXCEPT ![loops_[i]] = TRUE]
      BY <2>10 DEF QuitThread, startVars
    <3> QED
      BY <1>1, <1>2, <1>3, <2>1, <3>1 DEF Lifecycle
  <2> QED
    BY <1>8, <2>2, <2>3, <2>4, <2>5, <2>6, <2>7, <2>8, <2>9, <2>10 DEF Aside
<1>9. CASE \E t \in Starters : StartPool(t)
  <2>1. PICK t \in Starters : StartPool(t)
    BY <1>9
  <2>2. /\ starter[t] = "won" /\ starter' = [starter EXCEPT ![t] = "done"]
        /\ UNCHANGED <<main, quit_, closing>>
        /\ loops_' = loops_ \o [i \in 1 .. numThreads_ |-> i]
        /\ phase' = [l \in Loops |-> IF l \in 1 .. numThreads_ THEN "poll" ELSE phase[l]]
    BY <2>1 DEF StartPool
  <2>3. loops_ = <<>> /\ \A l \in Loops : pendingFunctors_[l] = <<>>
    BY <1>1, <2>2 DEF Starting, Blank
  <2>4. numThreads_ \in 0 .. MaxThreads /\ MaxThreads \in Nat
    BY <1>1, ConstantsAssumption DEF TypeOK
  <2>5. loops_' = [i \in 1 .. numThreads_ |-> i]
    BY <2>2, <2>3, <2>4
  <2>6. main \in {"setup", "looping"}
    BY <1>1, <2>2 DEF Lifecycle
  <2>7. \A l \in IoLoops : phase[l] = "none"
    BY <1>1, <2>3 DEF Lifecycle, Range
  <2>8. \A l \in IoLoops : phase'[l] # "stopped" /\ (phase'[l] # "none" => l \in Range(loops_'))
    BY <1>3, <2>2, <2>5, <2>7 DEF Range
  <2>9. phase'[BaseLoop] = phase[BaseLoop]
    BY <1>3, <2>2, <2>4 DEF BaseLoop
  <2>10. \A l \in Loops : phase[l] = "poll" => phase'[l] = "poll"
    BY <2>2
  <2>11. \A l \in IoLoops : quit_'[l] = TRUE => main' \notin {"setup", "looping", "destroying"}
    BY <1>1, <2>2 DEF Lifecycle
  <2> QED
    BY <1>1, <2>2, <2>6, <2>8, <2>9, <2>10, <2>11 DEF Lifecycle
<1>10. CASE AcceptConnection
  <2>1. /\ UNCHANGED <<main, starter, phase, loops_, quit_, closing>>
        /\ NewConnection /\ waiting > 0 /\ phase[BaseLoop] = "poll"
    BY <1>10 DEF AcceptConnection, AcceptorReady, Dispatching, startVars
  <2> QED
    BY <1>4, <1>5, <1>6, <2>1
<1>11. CASE Handling \/ \E p \in Callers : QueueSend(p)
  <2>1. CASE Handling
    <3>1. /\ UNCHANGED <<main, starter, phase, loops_, quit_, pendingFunctors_>>
          /\ \/ closing' = closing
             \/ \E c \in Created : /\ closing' = [closing EXCEPT ![ioLoop[c]] = c]
                                   /\ phase[ioLoop[c]] = "poll"
      BY <1>1, <2>1, HandlingFacts DEF startVars, poolVars, queueVars
    <3> QED
      BY <1>2, <1>6, <3>1
  <2>2. CASE \E p \in Callers : QueueSend(p)
    <3>1. UNCHANGED <<main, starter, phase, loops_, quit_, closing>>
      BY <1>1, <2>2, QueueSendFacts DEF startVars, poolVars
    <3>2. \/ pendingFunctors_' = pendingFunctors_
          \/ \E k \in Loops : \E f : ~Gone(k) /\ Queue(k, f)
      BY <1>1, <2>2, QueueSendFacts
    <3>3. \A k \in IoLoops : pendingFunctors_'[k] # pendingFunctors_[k] => phase[k] # "stopped"
      BY <1>3, <1>7, <3>2 DEF Gone
    <3> QED
      BY <1>2, <1>6, <3>1, <3>3
  <2> QED
    BY <1>11, <2>1, <2>2
<1>12. CASE \E l \in Loops : Swap(l)
  <2>1. PICK l \in Loops :
          /\ phase[l] = "poll" /\ closing[l] = NoConn
          /\ phase' = [phase EXCEPT ![l] = "run"]
          /\ pendingFunctors_' = [pendingFunctors_ EXCEPT ![l] = <<>>]
          /\ UNCHANGED <<main, starter, loops_, quit_, closing>>
    BY <1>12 DEF Swap, Dispatching, startVars, poolVars
  <2> QED
    BY <1>1, <1>2, <1>3, <2>1 DEF Lifecycle
<1>13. CASE \E l \in Loops : RunFunctor(l)
  <2>1. PICK l \in Loops : RunFunctor(l)
    BY <1>13
  <2>2. PICK f \in FunctorType : \/ RunsListen(l, f) \/ RunsEstablished(l, f)
                                 \/ RunsRemove(l, f) \/ RunsDestroyed(l, f) \/ RunsSend(l, f)
    BY <1>1, <2>1, RunFacts
  <2>3. UNCHANGED <<main, starter, phase, loops_, quit_, closing>> /\ phase[l] = "run"
    BY <1>1, <2>1, RunFacts DEF startVars, poolVars
  <2>4. pendingFunctors_' = pendingFunctors_ \/ l = BaseLoop
    BY <2>2 DEF RunsListen, RunsEstablished, RunsRemove, RunsDestroyed, RunsSend
  <2> QED
    BY <1>4, <1>5, <1>6, <2>3, <2>4
<1>14. CASE \E l \in Loops : EndTurn(l)
  <2>1. PICK l \in Loops : EndTurn(l)
    BY <1>14
  <2>2. /\ phase[l] = "run" /\ UNCHANGED <<main, starter, loops_, quit_, closing>>
        /\ phase' = [phase EXCEPT ![l] = IF quit_[l] THEN "stopped" ELSE "poll"]
        /\ IF quit_[l] /\ l # BaseLoop
             THEN pendingFunctors_' = [pendingFunctors_ EXCEPT ![l] = <<>>]
             ELSE pendingFunctors_' = pendingFunctors_
    BY <2>1 DEF EndTurn, startVars, poolVars
  <2>3. closing[l] = NoConn
    BY <1>1, <2>2 DEF Lifecycle
  <2>4. /\ phase'[l] \in {"stopped", "poll"} /\ (phase'[l] = "stopped" <=> quit_[l] = TRUE)
        /\ \A k \in Loops : k # l => phase'[k] = phase[k]
    BY <1>2, <2>2
  <2>5. /\ quit_[l] = TRUE /\ l # BaseLoop => pendingFunctors_'[l] = <<>>
        /\ \A k \in Loops : k # l => pendingFunctors_'[k] = pendingFunctors_[k]
    BY <1>2, <2>2
  <2> QED
    BY <1>1, <1>3, <1>5, <2>2, <2>3, <2>4, <2>5 DEF Lifecycle
<1>15. CASE \E l \in Loops : CloseCallback(l)
  <2>1. PICK l \in Loops : CloseCallback(l)
    BY <1>15
  <2>2. /\ UNCHANGED <<main, starter, phase, loops_, quit_>>
        /\ closing' = [closing EXCEPT ![l] = NoConn] /\ closing[l] # NoConn
        /\ \E f : Queue(l, f) \/ Queue(BaseLoop, f)
    BY <1>1, <2>1, CloseCallbackFacts DEF startVars, poolVars
  <2>3. phase[l] = "poll"
    BY <1>1, <2>2 DEF Lifecycle
  <2>4. \A k \in IoLoops : pendingFunctors_'[k] # pendingFunctors_[k] => k = l
    BY <1>3, <1>7, <2>2
  <2> QED
    BY <1>2, <1>6, <2>2, <2>3, <2>4
<1>16. CASE \E n \in Names : DestroyConnection(n)
  <2>1. UNCHANGED <<main, starter, phase, loops_, quit_, closing>> /\ main = "destroying"
    BY <1>16 DEF DestroyConnection, startVars, poolVars
  <2> QED
    BY <1>4, <1>6, <2>1
<1>17. CASE DestroyBaseLoop
  <2>1. /\ UNCHANGED <<starter, phase, loops_, quit_, closing>>
        /\ main = "destroyed" /\ main' = "ended"
        /\ pendingFunctors_' = [pendingFunctors_ EXCEPT ![BaseLoop] = <<>>]
    BY <1>17 DEF DestroyBaseLoop, startVars, poolVars
  <2> QED
    BY <1>1, <1>2, <1>3, <2>1 DEF Lifecycle
<1> QED
  BY <1>8, <1>9, <1>10, <1>11, <1>12, <1>13, <1>14, <1>15, <1>16, <1>17, NextCases

\* One caller starts the pool, and nothing happens before.
LEMMA StartingStep ==
  ASSUME ServerInv, [Next]_vars
  PROVE  Starting'
<1>1. TypeOK /\ Lifecycle /\ Starting /\ Numbered /\ Placed /\ ClosingPlaced /\ CallersPlaced
  BY DEF ServerInv
<1>2. /\ starter \in [Starters -> {"idle", "won", "done"}] /\ started_ \in Nat
      /\ functors \in [Loops -> Seq(FunctorType)]
      /\ pendingFunctors_ \in [Loops -> Seq(FunctorType)]
  BY <1>1 DEF TypeOK, FunctorType
<1>3. ASSUME starter' = starter, started_' = started_, Blank => Blank'
      PROVE  Starting'
  BY <1>1, <1>3 DEF Starting
<1>4. ASSUME UNCHANGED <<loops_, listening_, pendingFunctors_, functors, state_>>
      PROVE  Blank => Blank'
  BY <1>4 DEF Blank, Created
<1>5. CASE \E t \in Starters : TestStarted(t)
  <2>1. PICK t \in Starters :
          /\ starter[t] = "idle" /\ started_' = started_ + 1
          /\ starter' = [starter EXCEPT ![t] = IF started_ = 0 THEN "won" ELSE "done"]
    BY <1>5 DEF TestStarted
  <2>2. UNCHANGED <<loops_, listening_, pendingFunctors_, functors, state_>>
    BY <1>5 DEF TestStarted, poolVars, queueVars, connVars, statusVars
  <2>3. started_' # 0
    BY <1>2, <2>1
  <2>4. (\E u \in Starters : starter'[u] = "won") =>
          started_ = 0 \/ \E u \in Starters : starter[u] = "won"
    BY <1>2, <2>1
  <2>5. \A u, v \in Starters : starter'[u] = "won" /\ starter'[v] = "won" => u = v
    <3>1. CASE started_ = 0
      <4>1. \A u \in Starters : starter[u] = "idle"
        BY <1>1, <3>1 DEF Starting
      <4>2. \A u \in Starters : u # t => starter'[u] = "idle"
        BY <1>2, <2>1, <4>1
      <4> QED
        BY <4>2
    <3>2. CASE started_ # 0
      <4>1. \A u \in Starters : starter'[u] = "won" => starter[u] = "won"
        BY <1>2, <2>1, <3>2
      <4> QED
        BY <1>1, <4>1 DEF Starting
    <3> QED
      BY <3>1, <3>2
  <2> QED
    BY <1>1, <1>4, <2>2, <2>3, <2>4, <2>5 DEF Starting
<1>6. CASE \E t \in Starters : StartPool(t)
  <2>1. PICK t \in Starters :
          /\ starter[t] = "won" /\ starter' = [starter EXCEPT ![t] = "done"]
          /\ started_' = started_
    BY <1>6 DEF StartPool
  <2>2. started_ # 0 /\ \A u \in Starters : u # t => starter[u] # "won"
    BY <1>1, <2>1 DEF Starting
  <2>3. \A u \in Starters : starter'[u] # "won"
    BY <1>2, <2>1, <2>2
  <2> QED
    BY <2>1, <2>2, <2>3 DEF Starting
<1>7. CASE Aside /\ ~ \E t \in Starters : TestStarted(t)
  <2>1. UNCHANGED <<loops_, pendingFunctors_, functors, state_>>
    BY <1>7, AsideFacts DEF connVars, statusVars
  <2>2. UNCHANGED <<starter, started_>> /\ (listening_' = listening_ \/ listening_' = FALSE)
    BY <1>7 DEF Aside, SetThreadNum, EnterLoop, QuitBaseLoop, ClientArrives, AcceptFails,
                BeginDestroy, BeginJoin, EndJoin, DestroyAcceptor, QuitThread, BeginShutdown,
                BeginSend, vars, startVars
  <2>3. Blank => Blank'
    BY <2>1, <2>2 DEF Blank, Created
  <2> QED
    BY <1>3, <2>2, <2>3
<1>8. CASE \/ AcceptConnection
           \/ Handling
           \/ \E p \in Callers : QueueSend(p)
           \/ \E l \in Loops : RunFunctor(l) \/ CloseCallback(l)
           \/ \E n \in Names : DestroyConnection(n)
  <2>1. UNCHANGED <<starter, started_>>
    BY <1>1, <1>8, HandlingFacts DEF AcceptConnection, QueueSend, RunFunctor, CloseCallback,
                DestroyConnection, startVars
  <2>2. ~Blank
    <3>1. CASE AcceptConnection
      BY <3>1 DEF AcceptConnection, AcceptorReady, Blank
    <3>2. CASE Handling \/ \E p \in Callers : QueueSend(p)
      <4>1. Created # {}
        BY <1>1, <3>2, HandlingFacts, QueueSendFacts
      <4> QED
        BY <4>1 DEF Blank
    <3>3. CASE \E l \in Loops : RunFunctor(l)
      <4>1. PICK l \in Loops : done[l] < Len(functors[l])
        BY <3>3 DEF RunFunctor
      <4>2. done[l] \in Nat
        BY <1>1, QueueTypes
      <4> QED
        BY <4>1, <4>2 DEF Blank
    <3>4. CASE \E l \in Loops : CloseCallback(l)
      BY <1>1, <3>4, CloseCallbackFacts DEF Blank
    <3>5. CASE \E n \in Names : DestroyConnection(n)
      BY <1>1, <3>5, DestroyFacts DEF Blank
    <3> QED
      BY <1>8, <3>1, <3>2, <3>3, <3>4, <3>5
  <2> QED
    BY <1>3, <2>1, <2>2
<1>9. CASE \/ \E l \in Loops : Swap(l) \/ EndTurn(l)
           \/ DestroyBaseLoop
  <2>1. UNCHANGED <<starter, started_, loops_, listening_, state_>>
    BY <1>9 DEF Swap, EndTurn, DestroyBaseLoop, startVars, poolVars, connVars, statusVars
  <2>2. ASSUME Blank, NEW k \in Loops
        PROVE  pendingFunctors_'[k] = <<>> /\ functors'[k] = <<>>
    <3>1. pendingFunctors_[k] = <<>> /\ functors[k] = <<>>
      BY <2>2 DEF Blank
    <3>2. CASE \E l \in Loops : Swap(l)
      BY <1>2, <2>2, <3>1, <3>2 DEF Swap, Blank
    <3>3. CASE \E l \in Loops : EndTurn(l)
      BY <1>2, <2>2, <3>1, <3>3 DEF EndTurn, Blank
    <3>4. CASE DestroyBaseLoop
      BY <1>2, <3>1, <3>4 DEF DestroyBaseLoop
    <3> QED
      BY <1>9, <3>2, <3>3, <3>4
  <2> QED
    BY <1>3, <2>1, <2>2 DEF Blank, Created
<1> QED
  BY <1>5, <1>6, <1>7, <1>8, <1>9, NextCases

\* A functor that is not dropped stays ahead, d places nearer.
LEMMA FlowKeeps ==
  ASSUME TypeOK, NEW l, NEW d, NEW m, NEW f, Flow(l, d, m, f),
         NEW k \in Loops, NEW i \in 1 .. Len(Ahead(k)), k = l => i > d
  PROVE  LET n == IF k = l THEN d ELSE 0
         IN  /\ n \in 0 .. Len(Ahead(k)) /\ i - n \in 1 .. Len(Ahead(k)')
             /\ Ahead(k)'[i - n] = Ahead(k)[i]
<1> DEFINE a == Ahead(k)
           n == IF k = l THEN d ELSE 0
<1>1. PICK b : b = Ahead(k)'
  OBVIOUS
<1>2. IF k = m THEN DropsAdds(b, a, n, f) ELSE Drops(b, a, n)
  BY <1>1 DEF Flow
<1>3. Len(a) \in Nat /\ i > n /\ i \in 1 .. Len(a)
  BY QueueTypes
<1> HIDE DEF a, n
<1>4. n \in 0 .. Len(a) /\ (Len(b) = Len(a) - n \/ Len(b) = Len(a) - n + 1)
      /\ \A j \in 1 .. Len(a) - n : b[j] = a[j + n]
  BY <1>2 DEF Drops, DropsAdds
<1>5. i - n \in 1 .. Len(a) - n /\ (i - n) + n = i
  BY <1>3, <1>4
<1>6. i - n \in 1 .. Len(b) /\ b[i - n] = a[i]
  BY <1>3, <1>4, <1>5
<1> QED
  BY <1>1, <1>4, <1>6 DEF a, n

\* What is ahead has been before, d places further, or is what was queued.
LEMMA FlowFrom ==
  ASSUME TypeOK, NEW l, NEW d, NEW m, NEW f, Flow(l, d, m, f),
         NEW k \in Loops, NEW i \in 1 .. Len(Ahead(k)')
  PROVE  LET n == IF k = l THEN d ELSE 0
         IN  /\ n \in 0 .. Len(Ahead(k))
             /\ \/ i + n \in 1 .. Len(Ahead(k)) /\ Ahead(k)'[i] = Ahead(k)[i + n]
                \/ k = m /\ i = Len(Ahead(k)) - n + 1 /\ Ahead(k)'[i] = f
<1> DEFINE a == Ahead(k)
           n == IF k = l THEN d ELSE 0
<1>1. PICK b : b = Ahead(k)'
  OBVIOUS
<1>2. IF k = m THEN DropsAdds(b, a, n, f) ELSE Drops(b, a, n)
  BY <1>1 DEF Flow
<1>3. Len(a) \in Nat /\ i \in 1 .. Len(b)
  BY <1>1, QueueTypes
<1> HIDE DEF a, n
<1>4. /\ n \in 0 .. Len(a) /\ \A j \in 1 .. Len(a) - n : b[j] = a[j + n]
      /\ \/ Len(b) = Len(a) - n
         \/ Len(b) = Len(a) - n + 1 /\ k = m /\ b[Len(a) - n + 1] = f
  BY <1>2 DEF Drops, DropsAdds
<1>5. CASE i \in 1 .. Len(a) - n
  <2>1. i + n \in 1 .. Len(a)
    BY <1>3, <1>4, <1>5
  <2> QED
    BY <1>1, <1>4, <1>5, <2>1 DEF a, n
<1>6. CASE i \notin 1 .. Len(a) - n
  <2>1. k = m /\ i = Len(a) - n + 1 /\ b[i] = f
    BY <1>3, <1>4, <1>6
  <2> QED
    BY <1>1, <1>4, <2>1 DEF a, n
<1> QED
  BY <1>5, <1>6

\* The base loop has listen() ahead of it, and only comes nearer to it.
ListenAhead == \E i \in 1 .. Len(Ahead(BaseLoop)) : Ahead(BaseLoop)[i] = NoFunctor

\* It stays ahead as long as the base loop drops nothing.
LEMMA ListenStays ==
  ASSUME TypeOK, NEW l, NEW d, NEW m, NEW f, Flow(l, d, m, f),
         l # BaseLoop \/ d = 0, ListenAhead
  PROVE  ListenAhead'
<1>1. PICK i \in 1 .. Len(Ahead(BaseLoop)) : Ahead(BaseLoop)[i] = NoFunctor
  BY DEF ListenAhead
<1>2. BaseLoop = l => i > d
  OBVIOUS
<1>3. PICK j : j \in 1 .. Len(Ahead(BaseLoop)') /\ Ahead(BaseLoop)'[j] = NoFunctor
  BY <1>1, <1>2, BaseIsLoop, FlowKeeps
<1>4. NoFunctor' = NoFunctor
  BY DEF NoFunctor, Functor, NoConn
<1> QED
  BY <1>3, <1>4 DEF ListenAhead

\* Once started the pool is as it was asked for, and the Acceptor listens or will.
LEMMA PooledStep ==
  ASSUME ServerInv, [Next]_vars
  PROVE  Pooled'
<1>1. /\ TypeOK /\ Lifecycle /\ Starting /\ Pooled /\ Numbered /\ Placed /\ ClosingPlaced
      /\ CallersPlaced
  BY DEF ServerInv
<1>2. /\ starter \in [Starters -> {"idle", "won", "done"}] /\ started_ \in Nat
      /\ phase \in [Loops -> Phases] /\ listening_ \in BOOLEAN
  BY <1>1 DEF TypeOK
<1>3. BaseLoop \in Loops
  BY BaseIsLoop
<1>4. ASSUME UNCHANGED <<garbage, starter, started_, loops_, numThreads_>>,
             listening_ = TRUE => listening_' = TRUE \/ phase'[BaseLoop] = "stopped",
             ListenAhead => ListenAhead' \/ listening_' = TRUE \/ phase'[BaseLoop] = "stopped",
             phase[BaseLoop] = "stopped" => phase'[BaseLoop] = "stopped"
      PROVE  Pooled'
  <2>1. garbage = 0 /\ (\A t \in Starters : starter'[t] = "idle") => started_' = 0
    BY <1>1, <1>4 DEF Pooled
  <2>2. garbage = 0 /\ started_' # 0 /\ (\A t \in Starters : starter'[t] # "won") =>
          /\ Len(loops_') = numThreads_'
          /\ listening_' = TRUE \/ ListenAhead' \/ phase'[BaseLoop] = "stopped"
    BY <1>1, <1>4 DEF Pooled, ListenAhead
  <2> QED
    BY <1>4, <2>1, <2>2 DEF Pooled, ListenAhead
<1>5. CASE Aside
  <2>1. UNCHANGED <<loops_, pendingFunctors_, functors, done>>
    BY <1>5, AsideFacts
  <2>2. ListenAhead => ListenAhead'
    BY <1>1, <2>1, NoFlow, ListenStays
  <2>3. CASE \E n \in 0 .. MaxThreads : SetThreadNum(n)
    <3>1. \A t \in Starters : starter[t] = "idle"
      BY <2>3 DEF SetThreadNum
    <3>2. UNCHANGED <<garbage, starter, started_>>
      BY <2>3 DEF SetThreadNum, startVars
    <3> QED
      BY <1>1, <3>1, <3>2 DEF Pooled
  <2>4. CASE \E t \in Starters : TestStarted(t)
    <3>1. PICK t \in Starters :
            /\ starter[t] = "idle" /\ started_' = started_ + 1
            /\ starter' = [starter EXCEPT ![t] = IF started_ = 0 THEN "won" ELSE "done"]
            /\ UNCHANGED <<garbage, numThreads_, listening_, phase>>
      BY <2>4 DEF TestStarted, poolVars, queueVars
    <3>2. starter'[t] # "idle"
      BY <1>2, <3>1
    <3>3. (\A u \in Starters : starter'[u] # "won") =>
            started_ # 0 /\ \A u \in Starters : starter[u] # "won"
      BY <1>2, <3>1
    <3> QED
      BY <1>1, <2>1, <2>2, <3>1, <3>2, <3>3 DEF Pooled, ListenAhead
  <2>5. CASE EnterLoop
    <3>1. /\ UNCHANGED <<garbage, starter, started_, numThreads_, listening_>>
          /\ main = "setup"
      BY <2>5 DEF EnterLoop, startVars, poolVars
    <3>2. phase[BaseLoop] # "stopped"
      BY <1>1, <3>1 DEF Lifecycle
    <3> QED
      BY <1>4, <2>1, <2>2, <3>1, <3>2
  <2>6. CASE DestroyAcceptor
    <3>1. /\ UNCHANGED <<garbage, starter, started_, numThreads_, phase>>
          /\ main = "joined"
      BY <2>6 DEF DestroyAcceptor, startVars, poolVars, queueVars
    <3>2. phase[BaseLoop] = "stopped"
      BY <1>1, <3>1 DEF Lifecycle
    <3> QED
      BY <1>4, <2>1, <2>2, <3>1, <3>2
  <2>7. CASE \/ QuitBaseLoop \/ ClientArrives \/ AcceptFails \/ BeginDestroy \/ BeginJoin
             \/ EndJoin \/ UNCHANGED vars \/ \E i \in 1 .. MaxThreads : QuitThread(i)
             \/ \E p \in Callers, c \in Conns : BeginShutdown(p, c) \/ BeginSend(p, c)
    <3>1. UNCHANGED <<garbage, starter, started_, numThreads_, phase, listening_>>
      BY <2>7 DEF QuitBaseLoop, ClientArrives, AcceptFails, BeginDestroy, BeginJoin, EndJoin,
                  QuitThread, BeginShutdown, BeginSend, startVars, poolVars, queueVars, vars
    <3> QED
      BY <1>4, <2>1, <2>2, <3>1
  <2> QED
    BY <1>5, <2>3, <2>4, <2>5, <2>6, <2>7 DEF Aside
<1>6. CASE \E t \in Starters : StartPool(t)
  <2>1. PICK t \in Starters : StartPool(t)
    BY <1>6
  <2>2. /\ starter[t] = "won" /\ starter' = [starter EXCEPT ![t] = "done"]
        /\ garbage' = garbage /\ numThreads_' = numThreads_
        /\ loops_' = loops_ \o [i \in 1 .. numThreads_ |-> i]
    BY <2>1 DEF StartPool
  <2>3. loops_ = <<>> /\ numThreads_ \in Nat
    BY <1>1, <2>2 DEF Starting, Blank, TypeOK
  <2>4. Len(loops_') = numThreads_'
    BY <2>2, <2>3
  <2>5. starter'[t] = "done"
    BY <1>2, <2>2
  <2>6. listening_' = TRUE \/ ListenAhead'
    <3>1. CASE listening_' = TRUE
      BY <3>1
    <3>2. CASE Flow(NoLoop, 0, BaseLoop, NoFunctor)
      <4>1. BaseLoop # NoLoop
        BY DEF BaseLoop, NoLoop
      <4>2. PICK b : b = Ahead(BaseLoop)'
        OBVIOUS
      <4>3. DropsAdds(b, Ahead(BaseLoop), 0, NoFunctor)
        BY <1>3, <3>2, <4>1, <4>2 DEF Flow
      <4>4. Len(Ahead(BaseLoop)) \in Nat
        BY <1>1, <1>3, QueueTypes
      <4>5. Len(b) \in 1 .. Len(b) /\ b[Len(b)] = NoFunctor
        BY <4>3, <4>4 DEF DropsAdds
      <4>6. NoFunctor' = NoFunctor
        BY DEF NoFunctor, Functor, NoConn
      <4> QED
        BY <4>2, <4>5, <4>6 DEF ListenAhead
    <3> QED
      BY <1>1, <2>1, <3>1, <3>2, StartPoolFacts
  <2> QED
    BY <2>4, <2>5, <2>6 DEF Pooled, ListenAhead
<1>7. CASE AcceptConnection
  <2>1. /\ NewConnection /\ waiting > 0
        /\ UNCHANGED <<garbage, starter, started_, loops_, numThreads_, listening_, phase>>
        /\ listening_ = TRUE
    BY <1>2, <1>7 DEF AcceptConnection, AcceptorReady, startVars
  <2> QED
    BY <1>4, <2>1
<1>8. CASE Handling \/ \E p \in Callers : QueueSend(p)
  <2>1. UNCHANGED <<garbage, starter, started_, loops_, numThreads_, listening_, phase>>
    BY <1>1, <1>8, HandlingFacts, QueueSendFacts DEF startVars, poolVars, queueVars
  <2>2. \E m, g : Flow(NoLoop, 0, m, g)
    <3>1. CASE Handling
      BY <1>1, <3>1, HandlingFacts, NoFlow DEF queueVars
    <3>2. CASE \E p \in Callers : QueueSend(p)
      BY <1>1, <3>2, QueueSendFacts
    <3> QED
      BY <1>8, <3>1, <3>2
  <2>3. ListenAhead => ListenAhead'
    BY <1>1, <2>2, ListenStays
  <2> QED
    BY <1>4, <2>1, <2>3
<1>9. CASE \E l \in Loops : Swap(l)
  <2>1. PICK l \in Loops : Swap(l)
    BY <1>9
  <2>2. /\ UNCHANGED <<garbage, starter, started_, loops_, numThreads_, listening_>>
        /\ phase[l] = "poll" /\ phase' = [phase EXCEPT ![l] = "run"]
    BY <2>1 DEF Swap, Dispatching, startVars, poolVars
  <2>3. phase[BaseLoop] = "stopped" => phase'[BaseLoop] = "stopped"
    BY <1>2, <1>3, <2>2
  <2>4. ListenAhead => ListenAhead'
    BY <1>1, <2>1, SwapFlow, ListenStays
  <2> QED
    BY <1>4, <2>2, <2>3, <2>4
<1>10. CASE \E l \in Loops : RunFunctor(l)
  <2>1. PICK l \in Loops : RunFunctor(l)
    BY <1>10
  <2>2. PICK f \in FunctorType : /\ f = Ahead(l)[1]
                                 /\ \/ RunsListen(l, f) \/ RunsEstablished(l, f)
                                    \/ RunsRemove(l, f) \/ RunsDestroyed(l, f) \/ RunsSend(l, f)
    BY <1>1, <2>1, RunFacts
  <2>3. UNCHANGED <<garbage, starter, started_, loops_, numThreads_, phase>>
    BY <1>1, <2>1, RunFacts DEF startVars, poolVars
  <2>4. CASE RunsListen(l, f)
    BY <1>4, <2>3, <2>4 DEF RunsListen
  <2>5. CASE \/ RunsEstablished(l, f) \/ RunsRemove(l, f) \/ RunsDestroyed(l, f)
             \/ RunsSend(l, f)
    <3>1. listening_' = listening_ /\ f # NoFunctor /\ \E m, g : Flow(l, 1, m, g)
      BY <2>5 DEF RunsEstablished, RunsRemove, RunsDestroyed, RunsSend, NoFunctor, Functor
    <3>2. PICK m, g : Flow(l, 1, m, g)
      BY <3>1
    <3>3. ASSUME ListenAhead
          PROVE  ListenAhead'
      <4>1. PICK i \in 1 .. Len(Ahead(BaseLoop)) : Ahead(BaseLoop)[i] = NoFunctor
        BY <3>3 DEF ListenAhead
      <4>2. BaseLoop = l => i > 1
        BY <2>2, <3>1, <4>1
      <4>3. PICK j : j \in 1 .. Len(Ahead(BaseLoop)') /\ Ahead(BaseLoop)'[j] = NoFunctor
        BY <1>1, <1>3, <3>2, <4>1, <4>2, FlowKeeps
      <4>4. NoFunctor' = NoFunctor
        BY DEF NoFunctor, Functor, NoConn
      <4> QED
        BY <4>3, <4>4 DEF ListenAhead
    <3> QED
      BY <1>4, <2>3, <3>1, <3>3
  <2> QED
    BY <2>2, <2>4, <2>5
<1>11. CASE \E l \in Loops : EndTurn(l)
  <2>1. PICK l \in Loops : EndTurn(l)
    BY <1>11
  <2>2. /\ UNCHANGED <<garbage, starter, started_, loops_, numThreads_, listening_>>
        /\ phase[l] = "run"
        /\ phase' = [phase EXCEPT ![l] = IF quit_[l] THEN "stopped" ELSE "poll"]
    BY <2>1 DEF EndTurn, startVars, poolVars
  <2>3. phase[BaseLoop] = "stopped" => phase'[BaseLoop] = "stopped"
    BY <1>2, <1>3, <2>2
  <2>4. ListenAhead => ListenAhead'
    BY <1>1, <2>1, EndTurnFlow, ListenStays
  <2> QED
    BY <1>4, <2>2, <2>3, <2>4
<1>12. CASE \E l \in Loops : CloseCallback(l)
  <2>1. PICK l \in Loops : CloseCallback(l)
    BY <1>12
  <2>2. UNCHANGED <<garbage, starter, started_, loops_, numThreads_, listening_, phase>>
    BY <1>1, <2>1, CloseCallbackFacts DEF startVars, poolVars
  <2>3. \E m, g : Flow(NoLoop, 0, m, g)
    BY <1>1, <2>1, CloseCallbackFacts
  <2>4. ListenAhead => ListenAhead'
    BY <1>1, <2>3, ListenStays
  <2> QED
    BY <1>4, <2>2, <2>4
<1>13. CASE \E n \in Names : DestroyConnection(n)
  <2>1. PICK n \in Names : DestroyConnection(n)
    BY <1>13
  <2>2. /\ UNCHANGED <<garbage, starter, started_, loops_, numThreads_, listening_, phase>>
        /\ main = "destroying"
    BY <2>1 DEF DestroyConnection, startVars, poolVars
  <2>3. phase[BaseLoop] = "stopped"
    BY <1>1, <2>2 DEF Lifecycle
  <2> QED
    BY <1>4, <2>2, <2>3
<1>14. CASE DestroyBaseLoop
  <2>1. /\ UNCHANGED <<garbage, starter, started_, loops_, numThreads_, listening_, phase>>
        /\ main = "destroyed"
    BY <1>14 DEF DestroyBaseLoop, startVars, poolVars
  <2>2. phase[BaseLoop] = "stopped"
    BY <1>1, <2>1 DEF Lifecycle
  <2> QED
    BY <1>4, <2>1, <2>2
<1> QED
  BY <1>5, <1>6, <1>7, <1>8, <1>9, <1>10, <1>11, <1>12, <1>13, <1>14, NextCases

\* The types of main, of the start and of the pool; of the loops and their queues;
\* and of the connections.
PoolTypes ==
  /\ main \in MainPoints
  /\ starter \in [Starters -> {"idle", "won", "done"}]
  /\ started_ \in Nat /\ garbage \in {0, 1}
  /\ numThreads_ \in 0 .. MaxThreads
  /\ loops_ \in Seq(IoLoops)
  /\ next_ \in Nat /\ (next_ = 0 \/ next_ < Len(loops_))
  /\ listening_ \in BOOLEAN
  /\ waiting \in 0 .. MaxConns
  /\ nextConnId_ \in Names
LoopTypes ==
  /\ phase \in [Loops -> Phases]
  /\ quit_ \in [Loops -> BOOLEAN]
  /\ pendingFunctors_ \in [Loops -> Seq(FunctorType)]
  /\ functors \in [Loops -> Seq(FunctorType)]
  /\ done \in [Loops -> Nat]
  /\ \A l \in Loops :
       /\ done[l] <= Len(functors[l])
       /\ functors[l] # <<>> => phase[l] = "run"
  /\ closing \in [Loops -> Conns \union {NoConn}]
ConnTypes ==
  /\ DOMAIN connections_ \subseteq Names /\ Range(connections_) \subseteq Created
  /\ ioLoop \in [Conns -> Loops]
  /\ name_ \in [Conns -> Names \union {0}]
  /\ state_ \in [Conns -> States]
  /\ downs \in [Conns -> Nat]
  /\ inPoller \subseteq Created /\ watched \subseteq inPoller
  /\ destroyed \subseteq Created /\ revived \subseteq destroyed /\ overwrote \subseteq Created
  /\ lost \subseteq Created /\ dropped \subseteq Created
CallTypes ==
  /\ caller \in [Callers -> [what : {"idle", "send", "shutdown"}, conn : Conns \union {NoConn}]]
  /\ sends \in 0 .. MaxSends

\* These are all.
LEMMA TypeParts == TypeOK <=> PoolTypes /\ LoopTypes /\ ConnTypes /\ CallTypes
BY DEF TypeOK, PoolTypes, LoopTypes, ConnTypes, CallTypes, FunctorType

\* A call has its type.
LEMMA CallTypesStep ==
  ASSUME ServerInv, [Next]_vars
  PROVE  CallTypes'
<1>1. TypeOK /\ CallersPlaced /\ CallTypes
  BY TypeParts DEF ServerInv
<1>2. CASE \E p \in Callers, c \in Conns : BeginShutdown(p, c) \/ BeginSend(p, c)
  <2>1. PICK p \in Callers, c \in Conns : BeginShutdown(p, c) \/ BeginSend(p, c)
    BY <1>2
  <2>2. /\ \E what \in {"send", "shutdown"} : caller' = [caller EXCEPT ![p] = Call(what, c)]
        /\ sends' = sends \/ (sends' = sends + 1 /\ sends < MaxSends)
    BY <2>1 DEF BeginShutdown, BeginSend
  <2>3. sends' \in 0 .. MaxSends
    BY <1>1, <2>2, ConstantsAssumption DEF CallTypes
  <2> QED
    BY <1>1, <2>2, <2>3 DEF CallTypes, Call
<1>3. CASE Handling \/ \E p \in Callers : QueueSend(p)
  <2>1. /\ sends' = sends
        /\ caller' = caller \/ \E p \in Callers : caller' = [caller EXCEPT ![p] = Idle]
    BY <1>1, <1>3, HandlingFacts, QueueSendFacts
  <2> QED
    BY <1>1, <2>1 DEF CallTypes, Idle, Call
<1>4. CASE \/ /\ Aside
              /\ ~ \E p \in Callers, c \in Conns : BeginShutdown(p, c) \/ BeginSend(p, c)
           \/ \E t \in Starters : StartPool(t)
           \/ AcceptConnection
           \/ \E l \in Loops : Swap(l) \/ RunFunctor(l) \/ EndTurn(l) \/ CloseCallback(l)
           \/ \E n \in Names : DestroyConnection(n)
           \/ DestroyBaseLoop
  <2>1. UNCHANGED <<caller, sends>>
    BY <1>4 DEF Aside, SetThreadNum, TestStarted, EnterLoop, QuitBaseLoop, ClientArrives,
                AcceptFails, BeginDestroy, BeginJoin, EndJoin, DestroyAcceptor, QuitThread,
                StartPool, AcceptConnection, Swap, RunFunctor, EndTurn, CloseCallback,
                DestroyConnection, DestroyBaseLoop, callVars, vars
  <2> QED
    BY <1>1, <2>1 DEF CallTypes
<1> QED
  BY <1>2, <1>3, <1>4, NextCases

\* The pool is indexed within its bounds, and nobody waits who is not counted.
LEMMA PoolTypesStep ==
  ASSUME ServerInv, [Next]_vars
  PROVE  PoolTypes'
<1>1. /\ TypeOK /\ Lifecycle /\ Starting /\ Pooled /\ Numbered /\ Placed /\ ClosingPlaced
      /\ CallersPlaced
      /\ PoolTypes
  BY TypeParts DEF ServerInv
<1>2. CASE Aside
  <2>1. UNCHANGED <<loops_, next_, nextConnId_>>
    BY <1>2, AsideFacts DEF mapVars
  <2>2. CASE \E n \in 0 .. MaxThreads : SetThreadNum(n)
    BY <1>1, <2>1, <2>2 DEF SetThreadNum, startVars, PoolTypes
  <2>3. CASE \E t \in Starters : TestStarted(t)
    <3>1. PICK t \in Starters :
            /\ started_' = started_ + 1
            /\ starter' = [starter EXCEPT ![t] = IF started_ = 0 THEN "won" ELSE "done"]
            /\ UNCHANGED <<main, garbage, numThreads_, listening_, waiting>>
      BY <2>3 DEF TestStarted, poolVars
    <3>2. starter' \in [Starters -> {"idle", "won", "done"}]
      BY <1>1, <3>1 DEF PoolTypes
    <3> QED
      BY <1>1, <2>1, <3>1, <3>2 DEF PoolTypes
  <2>4. CASE EnterLoop \/ BeginDestroy \/ BeginJoin \/ EndJoin \/ DestroyAcceptor
    <3>1. /\ main' \in MainPoints /\ (listening_' = listening_ \/ listening_' = FALSE)
          /\ UNCHANGED <<starter, started_, garbage, numThreads_, waiting>>
      BY <2>4 DEF EnterLoop, BeginDestroy, BeginJoin, EndJoin, DestroyAcceptor, startVars,
                  poolVars, MainPoints
    <3> QED
      BY <1>1, <2>1, <3>1 DEF PoolTypes
  <2>5. CASE ClientArrives
    <3>1. /\ waiting' = waiting + 1 /\ waiting + Cardinality(Created) < MaxConns
          /\ UNCHANGED <<main, starter, started_, garbage, numThreads_, listening_>>
      BY <2>5 DEF ClientArrives, startVars, poolVars
    <3>2. Cardinality(Created) \in Nat
      <4>1. PICK n \in 0 .. MaxConns : Created = 1 .. n
        BY <1>1 DEF Numbered
      <4>2. 1 \in Int /\ n \in Int
        OBVIOUS
      <4>3. IsFiniteSet(1 .. n)
        BY <4>2, FS_Interval
      <4> QED
        BY <4>1, <4>3, FS_CardinalityType
    <3> QED
      BY <1>1, <2>1, <3>1, <3>2, ConstantsAssumption DEF PoolTypes
  <2>6. CASE \/ QuitBaseLoop \/ AcceptFails \/ UNCHANGED vars
             \/ \E i \in 1 .. MaxThreads : QuitThread(i)
             \/ \E p \in Callers, c \in Conns : BeginShutdown(p, c) \/ BeginSend(p, c)
    <3>1. UNCHANGED <<main, starter, started_, garbage, numThreads_, listening_, waiting>>
      BY <2>6 DEF QuitBaseLoop, AcceptFails, QuitThread, BeginShutdown, BeginSend, vars, startVars, poolVars
    <3> QED
      BY <1>1, <2>1, <3>1 DEF PoolTypes
  <2> QED
    BY <1>2, <2>2, <2>3, <2>4, <2>5, <2>6 DEF Aside
<1>3. CASE \E t \in Starters : StartPool(t)
  <2>1. PICK t \in Starters : StartPool(t)
    BY <1>3
  <2>2. /\ starter[t] = "won" /\ starter' = [starter EXCEPT ![t] = "done"]
        /\ UNCHANGED <<main, started_, garbage, numThreads_, next_, waiting, nextConnId_>>
        /\ loops_' = loops_ \o [i \in 1 .. numThreads_ |-> i]
        /\ listening_' = TRUE \/ listening_' = listening_
    BY <2>1 DEF StartPool, Listen, mapVars
  <2>3. loops_ = <<>> /\ numThreads_ \in 0 .. MaxThreads /\ MaxThreads \in Nat
    BY <1>1, <2>2, ConstantsAssumption DEF Starting, Blank, PoolTypes
  <2>4. [i \in 1 .. numThreads_ |-> i] \in Seq(IoLoops)
    BY <2>3 DEF IoLoops
  <2>5. loops_' \in Seq(IoLoops) /\ next_' = 0
    <3>1. Len(loops_) = 0 /\ next_ = 0
      BY <1>1, <2>3 DEF PoolTypes
    <3> QED
      BY <2>2, <2>3, <2>4, <3>1
  <2>6. starter' \in [Starters -> {"idle", "won", "done"}]
    BY <1>1, <2>2 DEF PoolTypes
  <2> QED
    BY <1>1, <2>2, <2>5, <2>6 DEF PoolTypes
<1>4. CASE AcceptConnection
  <2>1. /\ NewConnection /\ waiting > 0 /\ waiting' = waiting - 1
        /\ UNCHANGED <<main, starter, started_, garbage, numThreads_, loops_, listening_>>
    BY <1>4 DEF AcceptConnection, AcceptorReady, startVars
  <2>2. /\ AdvanceNext
        /\ nextConnId_' = IF nextConnId_ = MaxId THEN 1 ELSE nextConnId_ + 1
    BY <2>1 DEF NewConnection
  <2>3. nextConnId_' \in Names
    BY <1>1, <2>2, ConstantsAssumption DEF PoolTypes, Names
  <2>4. next_' \in Nat /\ (next_' = 0 \/ next_' < Len(loops_'))
    <3>1. Len(loops_) \in Nat /\ next_ \in Nat /\ loops_' = loops_
      BY <1>1, <2>1 DEF PoolTypes
    <3>2. next_' = next_ \/ next_' = 0 \/ (next_' = next_ + 1 /\ ~(next_ + 1 >= Len(loops_)))
      BY <2>2 DEF AdvanceNext
    <3> QED
      BY <1>1, <3>1, <3>2 DEF PoolTypes
  <2>5. waiting' \in 0 .. MaxConns
    BY <1>1, <2>1, ConstantsAssumption DEF PoolTypes
  <2> QED
    BY <1>1, <2>1, <2>3, <2>4, <2>5 DEF PoolTypes
<1>5. CASE \/ Handling
           \/ \E p \in Callers : QueueSend(p)
           \/ \E l \in Loops : Swap(l) \/ EndTurn(l) \/ CloseCallback(l)
           \/ \E n \in Names : DestroyConnection(n)
           \/ DestroyBaseLoop
  <2>1. /\ UNCHANGED <<starter, started_, garbage, numThreads_, listening_, waiting, loops_,
                       next_, nextConnId_>>
        /\ main' = main \/ main' = "ended"
    BY <1>1, <1>5, HandlingFacts DEF QueueSend, Swap, EndTurn, CloseCallback,
                DestroyConnection, DestroyBaseLoop, startVars, poolVars, mapVars
  <2> QED
    BY <1>1, <2>1 DEF PoolTypes, MainPoints
<1>6. CASE \E l \in Loops : RunFunctor(l)
  <2>1. /\ UNCHANGED <<main, starter, started_, garbage, numThreads_, waiting, loops_,
                       next_, nextConnId_>>
        /\ listening_' = listening_ \/ listening_' = TRUE
    BY <1>6 DEF RunFunctor, Listen, startVars, poolVars
  <2> QED
    BY <1>1, <2>1 DEF PoolTypes
<1> QED
  BY <1>2, <1>3, <1>4, <1>5, <1>6, NextCases

\* What is queued is a functor, and only a loop that runs its batch has one.
LEMMA LoopTypesStep ==
  ASSUME ServerInv, [Next]_vars
  PROVE  LoopTypes'
<1>1. /\ TypeOK /\ Lifecycle /\ Starting /\ Pooled /\ Numbered /\ Placed /\ ClosingPlaced
      /\ CallersPlaced
      /\ LoopTypes
  BY TypeParts DEF ServerInv
<1>2. BaseLoop \in Loops /\ \A l \in IoLoops : l \in Loops
  BY BaseIsLoop
<1>3. ASSUME NEW m \in Loops, NEW f \in FunctorType, Queue(m, f)
      PROVE  pendingFunctors_' \in [Loops -> Seq(FunctorType)]
  <2>1. pendingFunctors_ \in [Loops -> Seq(FunctorType)]
    BY <1>1 DEF LoopTypes
  <2>2. Append(pendingFunctors_[m], f) \in Seq(FunctorType)
    BY <2>1
  <2> QED
    BY <1>3, <2>1, <2>2 DEF Queue
<1>4. ASSUME UNCHANGED <<phase, quit_, functors, done, closing>>,
             pendingFunctors_' \in [Loops -> Seq(FunctorType)]
      PROVE  LoopTypes'
  BY <1>1, <1>4 DEF LoopTypes
<1>5. CASE Aside
  <2>1. UNCHANGED <<pendingFunctors_, functors, done, closing>>
    BY <1>5, AsideFacts
  <2>2. CASE EnterLoop
    <3>1. phase' = [phase EXCEPT ![BaseLoop] = "poll"] /\ quit_' = quit_ /\ main = "setup"
      BY <2>2 DEF EnterLoop
    <3>2. phase[BaseLoop] = "none"
      BY <1>1, <3>1 DEF Lifecycle
    <3> QED
      BY <1>1, <1>2, <2>1, <3>1, <3>2 DEF LoopTypes, Phases
  <2>3. CASE QuitBaseLoop
    <3>1. quit_' = [quit_ EXCEPT ![BaseLoop] = TRUE] /\ phase' = phase
      BY <2>3 DEF QuitBaseLoop
    <3> QED
      BY <1>1, <2>1, <3>1 DEF LoopTypes
  <2>4. CASE \E i \in 1 .. MaxThreads : QuitThread(i)
    <3>1. PICK i : quit_' = [quit_ EXCEPT ![loops_[i]] = TRUE] /\ phase' = phase
      BY <2>4 DEF QuitThread
    <3> QED
      BY <1>1, <2>1, <3>1 DEF LoopTypes
  <2>5. CASE ~EnterLoop /\ ~QuitBaseLoop /\ ~ \E i \in 1 .. MaxThreads : QuitThread(i)
    <3>1. UNCHANGED <<phase, quit_>>
      BY <1>5, <2>5 DEF Aside, SetThreadNum, TestStarted, ClientArrives, AcceptFails,
            BeginDestroy, BeginJoin, EndJoin, DestroyAcceptor, BeginShutdown, BeginSend, vars,
            queueVars
    <3> QED
      BY <1>1, <2>1, <3>1 DEF LoopTypes
  <2> QED
    BY <2>2, <2>3, <2>4, <2>5
<1>6. CASE \E t \in Starters : StartPool(t)
  <2>1. PICK t \in Starters : StartPool(t)
    BY <1>6
  <2>2. /\ starter[t] = "won" /\ UNCHANGED <<quit_, functors, done, closing>>
        /\ phase' = [l \in Loops |-> IF l \in 1 .. numThreads_ THEN "poll" ELSE phase[l]]
    BY <2>1 DEF StartPool
  <2>3. \A l \in Loops : functors[l] = <<>>
    BY <1>1, <2>2 DEF Starting, Blank
  <2>4. NoFunctor \in FunctorType
    BY DEF NoFunctor, Functor, FunctorType, Ops
  <2>5. pendingFunctors_' \in [Loops -> Seq(FunctorType)]
    <3>1. CASE pendingFunctors_' = pendingFunctors_
      BY <1>1, <3>1 DEF LoopTypes
    <3> QED
      BY <1>1, <1>2, <1>3, <2>1, <2>4, <3>1, StartPoolFacts
  <2>6. phase' \in [Loops -> Phases]
    BY <1>1, <2>2 DEF LoopTypes, Phases
  <2> QED
    BY <1>1, <2>2, <2>3, <2>5, <2>6 DEF LoopTypes
<1>7. CASE AcceptConnection
  <2>1. /\ NewConnection /\ waiting > 0
        /\ UNCHANGED <<phase, quit_, functors, done, closing>>
    BY <1>7 DEF AcceptConnection, AcceptorReady
  <2>2. PICK n \in 0 .. MaxConns - 1 :
          /\ n + 1 \in Conns /\ NextLoop \in Loops
          /\ \/ pendingFunctors_' = pendingFunctors_
             \/ Queue(NextLoop, Functor("connectEstablished", n + 1))
    BY <1>1, <2>1, NewConnectionFacts
  <2>3. Functor("connectEstablished", n + 1) \in FunctorType
    BY <2>2 DEF Functor, FunctorType, Ops
  <2>4. pendingFunctors_' \in [Loops -> Seq(FunctorType)]
    <3>1. CASE pendingFunctors_' = pendingFunctors_
      BY <1>1, <3>1 DEF LoopTypes
    <3> QED
      BY <1>3, <2>2, <2>3, <3>1
  <2> QED
    BY <1>4, <2>1, <2>4
<1>8. CASE Handling \/ \E p \in Callers : QueueSend(p)
  <2>1. CASE Handling
    <3>1. PICK c \in Created :
            /\ UNCHANGED <<phase, quit_, pendingFunctors_, functors, done>>
            /\ closing' = closing \/ closing' = [closing EXCEPT ![ioLoop[c]] = c]
      BY <1>1, <2>1, HandlingFacts DEF queueVars
    <3>2. closing' \in [Loops -> Conns \union {NoConn}]
      BY <1>1, <3>1 DEF LoopTypes, Created
    <3> QED
      BY <1>1, <3>1, <3>2 DEF LoopTypes
  <2>2. CASE \E p \in Callers : QueueSend(p)
    <3>1. PICK c \in Created :
            /\ UNCHANGED <<phase, quit_, functors, done, closing>>
            /\ ioLoop[c] \in Loops /\ Functor("sendInLoop", c) \in FunctorType
            /\ \/ pendingFunctors_' = pendingFunctors_
               \/ Queue(ioLoop[c], Functor("sendInLoop", c))
      BY <1>1, <2>2, QueueSendFacts
    <3>2. pendingFunctors_' \in [Loops -> Seq(FunctorType)]
      <4>1. CASE pendingFunctors_' = pendingFunctors_
        BY <1>1, <4>1 DEF LoopTypes
      <4> QED
        BY <1>3, <3>1, <4>1
    <3> QED
      BY <1>4, <3>1, <3>2
  <2> QED
    BY <1>8, <2>1, <2>2
<1>9. CASE \E l \in Loops : Swap(l)
  <2>1. PICK l \in Loops : Swap(l)
    BY <1>9
  <2>2. /\ phase[l] = "poll"
        /\ phase' = [phase EXCEPT ![l] = "run"]
        /\ functors' = [functors EXCEPT ![l] = pendingFunctors_[l]]
        /\ pendingFunctors_' = [pendingFunctors_ EXCEPT ![l] = <<>>]
        /\ UNCHANGED <<quit_, done, closing>>
    BY <2>1 DEF Swap, Dispatching
  <2>3. functors[l] = <<>> /\ done[l] = 0
    BY <1>1, <2>2, QueueTypes
  <2>4. pendingFunctors_[l] \in Seq(FunctorType) /\ <<>> \in Seq(FunctorType)
    BY <1>1 DEF LoopTypes
  <2>5. /\ functors' \in [Loops -> Seq(FunctorType)]
        /\ pendingFunctors_' \in [Loops -> Seq(FunctorType)]
        /\ phase' \in [Loops -> Phases]
    BY <1>1, <2>2, <2>4 DEF LoopTypes, Phases
  <2>6. ASSUME NEW k \in Loops
        PROVE  done'[k] <= Len(functors'[k]) /\ (functors'[k] # <<>> => phase'[k] = "run")
    <3>1. CASE k = l
      <4>1. functors'[k] = pendingFunctors_[l] /\ done'[k] = 0 /\ phase'[k] = "run"
        BY <1>1, <2>2, <2>3, <3>1 DEF LoopTypes
      <4>2. Len(pendingFunctors_[l]) \in Nat
        BY <2>4
      <4> QED
        BY <4>1, <4>2
    <3>2. CASE k # l
      <4>1. functors'[k] = functors[k] /\ done'[k] = done[k] /\ phase'[k] = phase[k]
        BY <1>1, <2>2, <3>2 DEF LoopTypes
      <4> QED
        BY <1>1, <4>1 DEF LoopTypes
    <3> QED
      BY <3>1, <3>2
  <2> QED
    BY <1>1, <2>2, <2>5, <2>6 DEF LoopTypes
<1>10. CASE \E l \in Loops : RunFunctor(l)
  <2>1. PICK l \in Loops : RunFunctor(l)
    BY <1>10
  <2>2. PICK f \in FunctorType : \/ RunsListen(l, f) \/ RunsEstablished(l, f)
                                 \/ RunsRemove(l, f) \/ RunsDestroyed(l, f) \/ RunsSend(l, f)
    BY <1>1, <2>1, RunFacts
  <2>3. /\ UNCHANGED <<phase, quit_, functors, closing>>
        /\ done' = [done EXCEPT ![l] = @ + 1] /\ done[l] < Len(functors[l])
    BY <1>1, <2>1, RunFacts
  <2>4. pendingFunctors_' \in [Loops -> Seq(FunctorType)]
    <3>1. CASE pendingFunctors_' = pendingFunctors_
      BY <1>1, <3>1 DEF LoopTypes
    <3>2. CASE RunsRemove(l, f)
      <4>1. f.conn \in Created /\ Queue(ioLoop[f.conn], Functor("connectDestroyed", f.conn))
        BY <3>2 DEF RunsRemove
      <4>2. ioLoop[f.conn] \in Loops /\ Functor("connectDestroyed", f.conn) \in FunctorType
        BY <1>1, <4>1, FunctorFacts DEF TypeOK, Created, Ops
      <4> QED
        BY <1>3, <4>1, <4>2
    <3> QED
      BY <2>2, <3>1, <3>2 DEF RunsListen, RunsEstablished, RunsDestroyed, RunsSend
  <2>5. ASSUME NEW k \in Loops
        PROVE  done'[k] \in Nat /\ done'[k] <= Len(functors[k])
    <3>1. done[k] \in Nat /\ done[k] <= Len(functors[k]) /\ Len(functors[k]) \in Nat
      BY <1>1 DEF LoopTypes
    <3>2. CASE k = l
      BY <1>1, <2>3, <3>1, <3>2 DEF LoopTypes
    <3>3. CASE k # l
      BY <1>1, <2>3, <3>1, <3>3 DEF LoopTypes
    <3> QED
      BY <3>2, <3>3
  <2>6. done' \in [Loops -> Nat]
    BY <1>1, <2>3, <2>5 DEF LoopTypes
  <2> QED
    BY <1>1, <2>3, <2>4, <2>5, <2>6 DEF LoopTypes
<1>11. CASE \E l \in Loops : EndTurn(l)
  <2>1. PICK l \in Loops : EndTurn(l)
    BY <1>11
  <2>2. /\ functors' = [functors EXCEPT ![l] = <<>>]
        /\ done' = [done EXCEPT ![l] = 0]
        /\ phase' = [phase EXCEPT ![l] = IF quit_[l] THEN "stopped" ELSE "poll"]
        /\ \/ pendingFunctors_' = [pendingFunctors_ EXCEPT ![l] = <<>>]
           \/ pendingFunctors_' = pendingFunctors_
        /\ UNCHANGED <<quit_, closing>>
    BY <2>1 DEF EndTurn
  <2>3. <<>> \in Seq(FunctorType) /\ Len(<<>>) = 0
    OBVIOUS
  <2>4. /\ functors' \in [Loops -> Seq(FunctorType)] /\ done' \in [Loops -> Nat]
        /\ pendingFunctors_' \in [Loops -> Seq(FunctorType)]
        /\ phase' \in [Loops -> Phases]
    BY <1>1, <2>2, <2>3 DEF LoopTypes, Phases
  <2>5. ASSUME NEW k \in Loops
        PROVE  done'[k] <= Len(functors'[k]) /\ (functors'[k] # <<>> => phase'[k] = "run")
    <3>1. CASE k = l
      <4>1. functors'[k] = <<>> /\ done'[k] = 0
        BY <1>1, <2>2, <3>1 DEF LoopTypes
      <4> QED
        BY <2>3, <4>1
    <3>2. CASE k # l
      <4>1. functors'[k] = functors[k] /\ done'[k] = done[k] /\ phase'[k] = phase[k]
        BY <1>1, <2>2, <3>2 DEF LoopTypes
      <4> QED
        BY <1>1, <4>1 DEF LoopTypes
    <3> QED
      BY <3>1, <3>2
  <2> QED
    BY <1>1, <2>2, <2>4, <2>5 DEF LoopTypes
<1>12. CASE \E l \in Loops : CloseCallback(l)
  <2>1. PICK l \in Loops : CloseCallback(l)
    BY <1>12
  <2>2. /\ closing[l] \in Created /\ closing' = [closing EXCEPT ![l] = NoConn]
        /\ UNCHANGED <<phase, quit_, functors, done>>
        /\ \/ Queue(l, Functor("connectDestroyed", closing[l]))
           \/ Queue(BaseLoop, Functor("removeConnectionInLoop", closing[l]))
    BY <1>1, <2>1, CloseCallbackFacts
  <2>3. /\ Functor("connectDestroyed", closing[l]) \in FunctorType
        /\ Functor("removeConnectionInLoop", closing[l]) \in FunctorType
    BY <2>2, FunctorFacts DEF Ops
  <2>4. pendingFunctors_' \in [Loops -> Seq(FunctorType)]
    BY <1>2, <1>3, <2>2, <2>3
  <2>5. closing' \in [Loops -> Conns \union {NoConn}]
    BY <1>1, <2>2 DEF LoopTypes
  <2> QED
    BY <1>1, <2>2, <2>4, <2>5 DEF LoopTypes
<1>13. CASE \E n \in Names : DestroyConnection(n)
  <2>1. PICK n \in Names : DestroyConnection(n)
    BY <1>13
  <2>2. /\ connections_[n] \in Created /\ ioLoop[connections_[n]] \in Loops
        /\ UNCHANGED <<phase, quit_, functors, done, closing>>
        /\ \/ pendingFunctors_' = pendingFunctors_
           \/ Queue(ioLoop[connections_[n]], Functor("connectDestroyed", connections_[n]))
    BY <1>1, <2>1, DestroyFacts
  <2>3. Functor("connectDestroyed", connections_[n]) \in FunctorType
    BY <2>2, FunctorFacts DEF Ops
  <2>4. pendingFunctors_' \in [Loops -> Seq(FunctorType)]
    <3>1. CASE pendingFunctors_' = pendingFunctors_
      BY <1>1, <3>1 DEF LoopTypes
    <3> QED
      BY <1>3, <2>2, <2>3, <3>1
  <2> QED
    BY <1>4, <2>2, <2>4
<1>14. CASE DestroyBaseLoop
  <2>1. /\ UNCHANGED <<phase, quit_, functors, done, closing>>
        /\ pendingFunctors_' = [pendingFunctors_ EXCEPT ![BaseLoop] = <<>>]
    BY <1>14 DEF DestroyBaseLoop
  <2>2. <<>> \in Seq(FunctorType)
    OBVIOUS
  <2>3. pendingFunctors_' \in [Loops -> Seq(FunctorType)]
    BY <1>1, <2>1, <2>2 DEF LoopTypes
  <2> QED
    BY <1>4, <2>1, <2>3
<1> QED
  BY <1>5, <1>6, <1>7, <1>8, <1>9, <1>10, <1>11, <1>12, <1>13, <1>14, NextCases

\* Connections and what refers to them.
LEMMA ConnTypesStep ==
  ASSUME ServerInv, [Next]_vars
  PROVE  ConnTypes'
<1>1. /\ TypeOK /\ Lifecycle /\ Starting /\ Pooled /\ Numbered /\ Placed /\ ClosingPlaced
      /\ CallersPlaced
      /\ ConnTypes
  BY TypeParts DEF ServerInv
<1>2. ASSUME Created' = Created, state_' \in [Conns -> States], downs' \in [Conns -> Nat],
             UNCHANGED <<ioLoop, name_>>,
             inPoller' \subseteq Created, watched' \subseteq inPoller',
             destroyed' \subseteq Created, revived' \subseteq destroyed',
             overwrote' \subseteq Created, lost' \subseteq Created, dropped' \subseteq Created,
             connections_' = connections_ \/ \E n : connections_' = Without(n)
      PROVE  ConnTypes'
  <2>1. DOMAIN connections_' \subseteq Names /\ Range(connections_') \subseteq Created
    BY <1>1, <1>2, WithoutFacts DEF ConnTypes
  <2>2. Range(connections_)' = Range(connections_')
    BY DEF Range
  <2> QED
    BY <1>1, <1>2, <2>1, <2>2 DEF ConnTypes
<1>3. /\ state_ \in [Conns -> States] /\ downs \in [Conns -> Nat]
      /\ inPoller \subseteq Created /\ watched \subseteq inPoller
      /\ destroyed \subseteq Created /\ revived \subseteq destroyed
      /\ overwrote \subseteq Created /\ lost \subseteq Created /\ dropped \subseteq Created
      /\ \A m \in DOMAIN connections_ : connections_[m] \in Created
  BY <1>1 DEF ConnTypes, Range
<1>4. \A l \in Loops : Ahead(l) = pendingFunctors_[l] => Unreached(l) \subseteq Created
  <2> SUFFICES ASSUME NEW l \in Loops, Ahead(l) = pendingFunctors_[l],
                      NEW g \in Range(pendingFunctors_[l]), g.op = "connectDestroyed"
               PROVE  g.conn \in Created
    BY DEF Unreached
  <2>1. pendingFunctors_[l] \in Seq(FunctorType)
    BY <1>1, QueueTypes
  <2>2. PICK i \in 1 .. Len(pendingFunctors_[l]) : g = pendingFunctors_[l][i]
    BY <2>1 DEF Range
  <2> QED
    BY <1>1, <2>2 DEF Placed, PlacedAt
<1>5. CASE UNCHANGED <<connections_, connVars, endVars>>
  BY <1>2, <1>3, <1>5 DEF connVars, statusVars, endVars, Created
<1>6. CASE AcceptConnection
  <2>1. NewConnection /\ waiting > 0 /\ lost' = lost
    BY <1>6 DEF AcceptConnection, AcceptorReady
  <2>2. PICK n \in 0 .. MaxConns - 1 :
          /\ Created = 1 .. n /\ Created' = 1 .. n + 1
          /\ n + 1 \in Conns /\ NextLoop \in Loops
          /\ connections_' = [i \in DOMAIN connections_ \union {nextConnId_} |->
                                IF i = nextConnId_ THEN n + 1 ELSE connections_[i]]
          /\ ioLoop' = [ioLoop EXCEPT ![n + 1] = NextLoop]
          /\ name_' = [name_ EXCEPT ![n + 1] = nextConnId_]
          /\ Displace(nextConnId_, n + 1)
          /\ UNCHANGED <<downs, destroyed, revived, overwrote>>
          /\ \/ UNCHANGED <<inPoller, watched>>
             \/ /\ inPoller' = inPoller \union {n + 1}
                /\ watched' = watched \union {n + 1}
          /\ \/ state_' = [state_ EXCEPT ![n + 1] = "kConnected"]
             \/ state_' = [state_ EXCEPT ![n + 1] = "kConnecting"]
    BY <1>1, <2>1, NewConnectionFacts
  <2>3. nextConnId_ \in Names
    BY <1>1 DEF TypeOK
  <2>4. Created \subseteq Created' /\ n + 1 \in Created'
    BY <2>2
  <2>5. state_' \in [Conns -> States] /\ ioLoop' \in [Conns -> Loops]
        /\ name_' \in [Conns -> Names \union {0}]
    BY <1>1, <2>2, <2>3 DEF ConnTypes, States
  <2>6. DOMAIN connections_' = DOMAIN connections_ \union {nextConnId_}
        /\ \A i \in DOMAIN connections_' :
             connections_'[i] = IF i = nextConnId_ THEN n + 1 ELSE connections_[i]
    BY <2>2
  <2>7. DOMAIN connections_' \subseteq Names
    BY <1>1, <2>3, <2>6 DEF ConnTypes
  <2>8. Range(connections_)' \subseteq Created'
    BY <1>1, <2>4, <2>6 DEF ConnTypes, Range
  <2>9. dropped' \subseteq Created'
    <3>1. \A d \in dropped' : d \in dropped \/ \E m \in DOMAIN connections_ : d = connections_[m]
      BY <2>2 DEF Displace
    <3>2. \A d \in dropped' : d \in Created
      BY <1>3, <3>1
    <3> QED
      BY <2>4, <3>2
  <2>10. /\ inPoller' \subseteq Created' /\ watched' \subseteq inPoller'
         /\ destroyed' \subseteq Created' /\ revived' \subseteq destroyed'
         /\ overwrote' \subseteq Created' /\ lost' \subseteq Created'
    BY <1>3, <2>1, <2>2, <2>4
  <2>11. downs' \in [Conns -> Nat]
    BY <1>3, <2>2
  <2> QED
    BY <2>5, <2>7, <2>8, <2>9, <2>10, <2>11 DEF ConnTypes
<1>7. CASE Handling
  <2>1. UNCHANGED <<connections_, ioLoop, name_, inPoller, destroyed, revived, lost, dropped>>
    BY <1>1, <1>7, HandlingFacts DEF mapVars, endVars
  <2>2. PICK c \in Created :
          /\ state_' = state_ \/ \E s \in States \ {"none"} : state_' = [state_ EXCEPT ![c] = s]
          /\ downs' = downs \/ downs' = [downs EXCEPT ![c] = @ + 1]
          /\ watched' \subseteq watched
          /\ overwrote' = overwrote \/ overwrote' = overwrote \union {c}
    BY <1>1, <1>7, HandlingFacts
  <2>3. Created' = Created /\ state_' \in [Conns -> States]
    BY <1>1, <1>3, <2>2, SameCreated DEF Created
  <2>4. downs' \in [Conns -> Nat]
    BY <1>3, <2>2
  <2> QED
    BY <1>2, <1>3, <2>1, <2>2, <2>3, <2>4
<1>8. CASE \E l \in Loops : RunFunctor(l)
  <2>1. PICK l \in Loops : RunFunctor(l)
    BY <1>8
  <2>2. PICK f \in FunctorType : \/ RunsListen(l, f) \/ RunsEstablished(l, f)
                                 \/ RunsRemove(l, f) \/ RunsDestroyed(l, f) \/ RunsSend(l, f)
    BY <1>1, <2>1, RunFacts
  <2>3. UNCHANGED <<ioLoop, name_, lost>>
    BY <1>1, <2>1, RunFacts
  <2>4. CASE RunsListen(l, f) \/ RunsRemove(l, f)
    <3>1. /\ UNCHANGED statusVars
          /\ connections_' = connections_ \/ \E n : connections_' = Without(n)
          /\ dropped' = dropped \/ \E n, c : Displace(n, c)
      BY <2>4 DEF RunsListen, RunsRemove
    <3>2. dropped' \subseteq Created
      BY <1>3, <3>1 DEF Displace
    <3> QED
      BY <1>2, <1>3, <2>3, <3>1, <3>2 DEF statusVars, Created
  <2>5. CASE RunsEstablished(l, f)
    <3>1. /\ f.conn \in Created /\ state_' = [state_ EXCEPT ![f.conn] = "kConnected"]
          /\ inPoller' = inPoller \union {f.conn} /\ watched' = watched \union {f.conn}
          /\ UNCHANGED <<downs, destroyed, revived, overwrote, connections_, dropped>>
      BY <2>5 DEF RunsEstablished, ConnectEstablished
    <3>2. Created' = Created /\ state_' \in [Conns -> States]
      BY <1>1, <3>1, SameCreated DEF States
    <3> QED
      BY <1>2, <1>3, <2>3, <3>1, <3>2
  <2>6. CASE RunsDestroyed(l, f)
    <3>1. /\ f.conn \in Created /\ ConnectDestroyed(f.conn)
          /\ connections_' = connections_ /\ dropped' = dropped
      BY <2>6 DEF RunsDestroyed
    <3>2. /\ Created' = Created /\ state_' \in [Conns -> States] /\ downs' \in [Conns -> Nat]
          /\ inPoller' = inPoller \ {f.conn} /\ watched' = watched \ {f.conn}
          /\ destroyed' = destroyed \union {f.conn} /\ revived' = revived
          /\ overwrote' = overwrote
      BY <1>1, <3>1, ConnectDestroyedFacts
    <3> QED
      BY <1>2, <1>3, <2>3, <3>1, <3>2
  <2>7. CASE RunsSend(l, f)
    <3>1. /\ f.conn \in Created /\ SendInLoop(f.conn)
          /\ connections_' = connections_ /\ dropped' = dropped
      BY <2>7 DEF RunsSend
    <3>2. /\ UNCHANGED <<state_, downs, destroyed, overwrote>>
          /\ \/ UNCHANGED <<inPoller, watched, revived>>
             \/ /\ inPoller' = inPoller \union {f.conn} /\ watched' = watched \union {f.conn}
                /\ revived' = revived \union ({f.conn} \intersect destroyed)
      BY <3>1 DEF SendInLoop
    <3> QED
      BY <1>2, <1>3, <2>3, <3>1, <3>2 DEF Created
  <2> QED
    BY <2>2, <2>4, <2>5, <2>6, <2>7
<1>9. CASE \E l \in Loops : CloseCallback(l)
  <2>1. /\ UNCHANGED <<connVars, lost>>
        /\ connections_' = connections_ \/ \E n : connections_' = Without(n)
        /\ dropped' = dropped \/ \E n, c : Displace(n, c)
    BY <1>1, <1>9, CloseCallbackFacts
  <2>2. dropped' \subseteq Created
    BY <1>3, <2>1 DEF Displace
  <2> QED
    BY <1>2, <1>3, <2>1, <2>2 DEF connVars, statusVars, Created
<1>10. CASE \E n \in Names : DestroyConnection(n)
  <2>1. PICK n \in Names : DestroyConnection(n)
    BY <1>10
  <2>2. PICK c \in Created : c = connections_[n]
    BY <1>1, <2>1, DestroyFacts
  <2>3. /\ UNCHANGED <<ioLoop, name_, lost, dropped>> /\ connections_' = Without(n)
        /\ ConnectDestroyed(c) \/ UNCHANGED statusVars
    BY <1>1, <2>1, <2>2, DestroyFacts DEF endVars
  <2>4. CASE ConnectDestroyed(c)
    <3>1. /\ Created' = Created /\ state_' \in [Conns -> States] /\ downs' \in [Conns -> Nat]
          /\ inPoller' = inPoller \ {c} /\ watched' = watched \ {c}
          /\ destroyed' = destroyed \union {c} /\ revived' = revived
          /\ overwrote' = overwrote
      BY <1>1, <2>4, ConnectDestroyedFacts
    <3> QED
      BY <1>2, <1>3, <2>3, <3>1
  <2>5. CASE UNCHANGED statusVars
    BY <1>2, <1>3, <2>3, <2>5 DEF statusVars, Created
  <2> QED
    BY <2>3, <2>4, <2>5
<1>11. CASE (\E l \in Loops : EndTurn(l)) \/ DestroyBaseLoop
  <2>1. PICK l \in Loops : /\ Ahead(l) = pendingFunctors_[l]
                           /\ lost' = lost \/ lost' = lost \union Unreached(l)
    <3>1. CASE \E l \in Loops : EndTurn(l)
      BY <1>1, <3>1, EndTurnFlow DEF EndTurn
    <3>2. CASE DestroyBaseLoop
      <4>1. phase[BaseLoop] = "stopped"
        BY <1>1, <3>2 DEF Lifecycle, DestroyBaseLoop
      <4> QED
        BY <1>1, <3>2, <4>1, EndBaseFlow, BaseIsLoop DEF DestroyBaseLoop
    <3> QED
      BY <1>11, <3>1, <3>2
  <2>2. lost' \subseteq Created
    BY <1>3, <1>4, <2>1
  <2>3. UNCHANGED <<connections_, connVars, dropped>>
    BY <1>11 DEF EndTurn, DestroyBaseLoop, mapVars
  <2> QED
    BY <1>2, <1>3, <2>2, <2>3 DEF connVars, statusVars, Created
<1>12. CASE (\E l \in Loops : Swap(l)) \/ \E p \in Callers : QueueSend(p)
  BY <1>5, <1>12 DEF Swap, QueueSend, mapVars
<1>13. CASE \E t \in Starters : StartPool(t)
  BY <1>5, <1>13 DEF StartPool, mapVars
<1>14. CASE Aside
  BY <1>5, <1>14, AsideFacts DEF mapVars
<1> QED
  BY <1>6, <1>7, <1>8, <1>9, <1>10, <1>11, <1>12, <1>13, <1>14, NextCases
------------------------------------------------------------------------------
\* A server that has just been constructed.
LEMMA InitInv ==
  ASSUME Init
  PROVE  ServerInv
<1>1. BaseLoop \in Loops
  BY BaseIsLoop
<1>2. Created = {}
  BY DEF Init, Created
<1>3. PoolTypes
  <2>1. loops_ \in Seq(IoLoops) /\ next_ \in Nat /\ next_ = 0
    BY DEF Init
  <2>2. starter \in [Starters -> {"idle", "won", "done"}] /\ main \in MainPoints
    BY DEF Init, MainPoints
  <2>3. /\ started_ \in Nat /\ garbage \in {0, 1} /\ numThreads_ \in 0 .. MaxThreads
        /\ waiting \in 0 .. MaxConns /\ nextConnId_ \in Names
    BY ConstantsAssumption DEF Init, Names
  <2>4. listening_ \in BOOLEAN
    BY DEF Init
  <2> QED
    BY <2>1, <2>2, <2>3, <2>4 DEF PoolTypes
<1>4. LoopTypes
  <2>1. <<>> \in Seq(FunctorType) /\ Len(<<>>) = 0
    OBVIOUS
  <2> QED
    BY <2>1 DEF Init, LoopTypes, Phases
<1>5. ConnTypes
  BY <1>1, <1>2 DEF Init, ConnTypes, Range, States
<1>6. TypeOK /\ CallersPlaced
  <2>1. CallTypes /\ CallersPlaced
    BY ConstantsAssumption DEF Init, CallTypes, CallersPlaced, Idle, Call
  <2> QED
    BY <1>3, <1>4, <1>5, <2>1, TypeParts
<1>7. Lifecycle
  BY <1>1, BaseIsLoop DEF Init, Lifecycle, NoConn
<1>8. Starting /\ Pooled
  BY <1>2 DEF Init, Starting, Blank, Pooled
<1>9. Numbered
  BY <1>2, ConstantsAssumption DEF Numbered, Init
<1>10. ClosingPlaced
  BY DEF Init, ClosingPlaced
<1>11. ASSUME NEW l \in Loops
       PROVE  Len(Ahead(l)) = 0
  <2>1. Ahead(l) = Rest(<<>>, <<>>, 0)
    BY DEF Init, Ahead
  <2>2. <<>> \in Seq(FunctorType) /\ Len(<<>>) = 0
    OBVIOUS
  <2>3. Ahead(l) = <<>>
    BY <2>1, <2>2, RestSimple
  <2> QED
    BY <2>2, <2>3
<1>12. Placed
  BY <1>11 DEF Placed
<1> QED
  BY <1>6, <1>7, <1>8, <1>9, <1>10, <1>12 DEF ServerInv

\* Every step keeps the invariant.
LEMMA NextInv ==
  ASSUME ServerInv, [Next]_vars
  PROVE  ServerInv'
<1>1. TypeOK'
  BY PoolTypesStep, LoopTypesStep, ConnTypesStep, CallTypesStep
     DEF TypeOK, PoolTypes, LoopTypes, ConnTypes, CallTypes, FunctorType
<1> QED
  BY <1>1, LifecycleStep, StartingStep, PooledStep, NumberedStep, PlacedStep,
     ClosingPlacedStep, CallersPlacedStep DEF ServerInv

\* The invariant holds.
THEOREM ServerInvHolds == SafetySpec => []ServerInv
BY InitInv, NextInv, PTL DEF SafetySpec

\* Every variable has its type, whatever the number of threads, connections,
\* descriptors and names.
THEOREM TypeCorrect == SafetySpec => []TypeOK
<1>1. ServerInv => TypeOK
  BY DEF ServerInv
<1> QED
  BY <1>1, ServerInvHolds, PTL

\* The threads of the pool are gone before the Acceptor, the server and the base
\* loop are, and nothing is queued on a loop that has ended.
THEOREM ServerOutlivesLoopsHolds == SafetySpec => []ServerOutlivesLoops
<1>1. ASSUME ServerInv
      PROVE  ServerOutlivesLoops
  <2>1. Lifecycle
    BY <1>1 DEF ServerInv
  <2> QED
    BY <2>1, BaseIsLoop DEF Lifecycle, ServerOutlivesLoops
<1> QED
  BY <1>1, ServerInvHolds, PTL

\* Of the calls of start() one starts the pool, if started_ began as 0.
THEOREM StartsOnceHolds == SafetySpec => []StartsOnce
<1>1. ASSUME ServerInv
      PROVE  StartsOnce
  <2>1. TypeOK /\ Starting /\ Pooled
    BY <1>1 DEF ServerInv
  <2>2. ListenAhead => Functor("listen", NoConn) \in Queued(BaseLoop)
    BY <2>1, BaseIsLoop, AheadQueued DEF ListenAhead, NoFunctor
  <2>3. ASSUME garbage = 0, \E t \in Starters : starter[t] = "done",
               \A t \in Starters : starter[t] # "won"
        PROVE  /\ Len(loops_) = numThreads_
               /\ listening_ = TRUE \/ ListenAhead \/ phase[BaseLoop] = "stopped"
    <3>1. started_ # 0
      BY <2>1, <2>3 DEF Starting
    <3> QED
      BY <2>1, <2>3, <3>1 DEF Pooled, ListenAhead
  <2> QED
    BY <2>2, <2>3 DEF StartsOnce
<1> QED
  BY <1>1, ServerInvHolds, PTL
------------------------------------------------------------------------------
(***************************************************************************)
(* Spreading the connections.                                              *)
(***************************************************************************)

\* The connections of a loop.
On(l) == {c \in Created : ioLoop[c] = l}

\* The loops before next_ have had their turn of this round, the others have not.
Balanced ==
  /\ \A i \in 1 .. Len(loops_) : loops_[i] = i
  /\ \E k \in Nat : \A i \in 1 .. Len(loops_) :
       Cardinality(On(i)) = IF i <= next_ THEN k + 1 ELSE k

\* Every connection goes to the loop whose turn it is.
LEMMA BalancedStep ==
  ASSUME ServerInv, Balanced, [Next]_vars
  PROVE  Balanced'
<1>1. /\ TypeOK /\ Lifecycle /\ Starting /\ Pooled /\ Numbered /\ Placed /\ ClosingPlaced
      /\ CallersPlaced
  BY DEF ServerInv
<1>2. loops_ \in Seq(IoLoops) /\ Len(loops_) \in Nat /\ next_ \in Nat
      /\ (next_ = 0 \/ next_ < Len(loops_))
  BY <1>1 DEF TypeOK
<1>3. ASSUME UNCHANGED <<loops_, next_>>, ~AcceptConnection
      PROVE  Balanced'
  <2>1. Created' = Created /\ ioLoop' = ioLoop
    BY <1>1, <1>3, OldStay
  <2>2. \A i : On(i)' = On(i)
    BY <2>1 DEF On
  <2>3. loops_' = loops_ /\ next_' = next_
    BY <1>3
  <2> QED
    BY <2>2, <2>3 DEF Balanced
<1>4. CASE AcceptConnection
  <2>1. NewConnection /\ AdvanceNext /\ waiting > 0 /\ loops_' = loops_
    BY <1>4 DEF AcceptConnection, AcceptorReady, NewConnection
  <2>2. PICK n \in 0 .. MaxConns - 1 :
          /\ Created = 1 .. n /\ Created' = 1 .. n + 1 /\ n + 1 \notin Created
          /\ n + 1 \in Conns
          /\ ioLoop' = [ioLoop EXCEPT ![n + 1] = NextLoop]
    BY <1>1, <2>1, NewConnectionFacts
  <2>3. CASE loops_ = <<>>
    BY <2>1, <2>3 DEF Balanced
  <2>4. CASE loops_ # <<>>
    <3> DEFINE j == next_ + 1
    <3>1. j \in 1 .. Len(loops_) /\ NextLoop = j
      BY <1>2, <2>4 DEF Balanced, NextLoop
    <3>2. next_' = IF j >= Len(loops_) THEN 0 ELSE j
      BY <2>1, <2>4 DEF AdvanceNext
    <3>3. \A i : IsFiniteSet(On(i)) /\ Cardinality(On(i)) \in Nat
      <4>1. 1 \in Int /\ n \in Int
        BY <2>2
      <4>2. IsFiniteSet(Created)
        BY <2>2, <4>1, FS_Interval
      <4>3. \A i : On(i) \subseteq Created
        BY DEF On
      <4> QED
        BY <4>2, <4>3, FS_Subset, FS_CardinalityType
    <3>4. ASSUME NEW i \in 1 .. Len(loops_)
          PROVE  Cardinality(On(i)') = IF i = j THEN Cardinality(On(i)) + 1
                                                ELSE Cardinality(On(i))
      <4>1. /\ ioLoop'[n + 1] = j
            /\ \A c \in Created : c \in Created' /\ ioLoop'[c] = ioLoop[c]
        <5>1. ioLoop \in [Conns -> Loops]
          BY <1>1 DEF TypeOK
        <5>2. \A c \in Created : c \in Conns /\ c # n + 1
          BY <2>2 DEF Created
        <5> QED
          BY <2>2, <3>1, <5>1, <5>2
      <4>2. \A c \in Created' : c \in Created \/ c = n + 1
        BY <2>2
      <4>3. n + 1 \in Created' /\ n + 1 \notin On(i)
        BY <2>2 DEF On
      <4>4. CASE i = j
        <5>1. On(i)' = On(i) \union {n + 1}
          BY <4>1, <4>2, <4>3, <4>4 DEF On
        <5> QED
          BY <3>3, <4>3, <4>4, <5>1, FS_AddElement
      <4>5. CASE i # j
        <5>1. On(i)' = On(i)
          BY <4>1, <4>2, <4>5 DEF On
        <5> QED
          BY <4>5, <5>1
      <4> QED
        BY <4>4, <4>5
    <3>5. PICK k \in Nat : \A i \in 1 .. Len(loops_) :
                             Cardinality(On(i)) = IF i <= next_ THEN k + 1 ELSE k
      BY DEF Balanced
    <3>6. ASSUME NEW i \in 1 .. Len(loops_)
          PROVE  Cardinality(On(i)') = IF i <= next_' THEN (IF next_' = 0 THEN k + 2 ELSE k + 1)
                                                      ELSE (IF next_' = 0 THEN k + 1 ELSE k)
      <4>1. Cardinality(On(i)') = IF i <= j THEN k + 1 ELSE k
        BY <1>2, <3>1, <3>4, <3>5
      <4> QED
        BY <1>2, <3>1, <3>2, <4>1
    <3>7. \E m \in Nat : \A i \in 1 .. Len(loops_) :
            Cardinality(On(i)') = IF i <= next_' THEN m + 1 ELSE m
      <4>1. CASE next_' = 0
        <5>1. k + 1 \in Nat /\ \A i \in 1 .. Len(loops_) : Cardinality(On(i)') = k + 1
          BY <3>6, <4>1
        <5>2. \A i \in 1 .. Len(loops_) : ~(i <= next_')
          BY <4>1
        <5> QED
          BY <5>1, <5>2
      <4>2. CASE next_' # 0
        BY <3>6, <4>2
      <4> QED
        BY <4>1, <4>2
    <3>8. \A i \in 1 .. Len(loops_) : loops_[i] = i
      BY DEF Balanced
    <3> QED
      BY <2>1, <3>7, <3>8 DEF Balanced, On
  <2> QED
    BY <2>3, <2>4
<1>5. CASE \E t \in Starters : StartPool(t)
  <2>1. PICK t \in Starters : StartPool(t)
    BY <1>5
  <2>2. /\ starter[t] = "won" /\ next_' = next_ /\ UNCHANGED connVars
        /\ loops_' = loops_ \o [i \in 1 .. numThreads_ |-> i]
    BY <2>1 DEF StartPool
  <2>3. loops_ = <<>> /\ Created = {} /\ numThreads_ \in Nat
    BY <1>1, <2>2 DEF Starting, Blank, TypeOK
  <2>4. next_' = 0
    <3>1. Len(loops_) = 0
      BY <2>3
    <3> QED
      BY <1>2, <2>2, <3>1
  <2>5. loops_' = [i \in 1 .. numThreads_ |-> i]
    BY <2>2, <2>3
  <2>6. Len(loops_') = numThreads_ /\ \A i \in 1 .. numThreads_ : loops_'[i] = i
    BY <2>3, <2>5
  <2>7. \A i : Cardinality(On(i)') = 0
    <3>1. \A i : On(i)' = {}
      BY <2>2, <2>3 DEF On, Created, connVars, statusVars
    <3> QED
      BY <3>1, FS_EmptySet
  <2> QED
    BY <2>3, <2>4, <2>6, <2>7 DEF Balanced
<1>6. CASE Aside /\ ~AcceptConnection
  BY <1>3, <1>6, AsideFacts
<1>7. CASE /\ ~AcceptConnection
           /\ \/ Handling
              \/ \E p \in Callers : QueueSend(p)
              \/ \E l \in Loops : Swap(l) \/ RunFunctor(l) \/ EndTurn(l) \/ CloseCallback(l)
              \/ \E n \in Names : DestroyConnection(n)
              \/ DestroyBaseLoop
  <2>1. UNCHANGED <<loops_, next_>>
    BY <1>1, <1>7, HandlingFacts DEF QueueSend, Swap, RunFunctor, EndTurn, CloseCallback,
                DestroyConnection, DestroyBaseLoop, poolVars
  <2> QED
    BY <1>3, <1>7, <2>1
<1> QED
  BY <1>4, <1>5, <1>6, <1>7, NextCases

\* No loop of the pool ever has two connections more than another, counting all
\* there have been.
THEOREM RoundRobinHolds == SafetySpec => []RoundRobin
<1>1. ASSUME Init
      PROVE  Balanced
  <2>1. loops_ = <<>>
    BY <1>1 DEF Init
  <2> QED
    BY <2>1 DEF Balanced
<1>2. ASSUME ServerInv, Balanced
      PROVE  RoundRobin
  <2>1. loops_ \in Seq(IoLoops)
    BY <1>2 DEF ServerInv, TypeOK
  <2>2. PICK k \in Nat : \A i \in 1 .. Len(loops_) :
          loops_[i] = i /\ Cardinality(On(i)) = IF i <= next_ THEN k + 1 ELSE k
    BY <1>2 DEF Balanced
  <2>3. \A l \in Range(loops_) : Cardinality(On(l)) \in {k, k + 1}
    BY <2>1, <2>2 DEF Range
  <2>4. \A l, m \in Range(loops_) : Cardinality(On(l)) <= Cardinality(On(m)) + 1
    BY <2>3
  <2> QED
    BY <2>4 DEF RoundRobin, On
<1> QED
  BY <1>1, <1>2, ServerInvHolds, BalancedStep, PTL DEF SafetySpec
=============================================================================
