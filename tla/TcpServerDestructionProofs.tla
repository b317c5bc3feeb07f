---------------------- MODULE TcpServerDestructionProofs ----------------------
(***************************************************************************)
(* Theorems about how the connections of a TcpServer end, for any number   *)
(* of threads, connections, descriptors and names, and with send() and     *)
(* shutdown() on any threads: a destruction is on its way for each, its    *)
(* user is told, and its Channel is out of the poller.                     *)
(***************************************************************************)
EXTENDS TcpServerProofs
------------------------------------------------------------------------------
(***************************************************************************)
(* Looking for a functor on a queue.                                       *)
(***************************************************************************)

\* Functor g is ahead of loop l; only once; before every h.
Has(l, g) == \E i \in 1 .. Len(Ahead(l)) : Ahead(l)[i] = g
Once(l, g) == \A i, j \in 1 .. Len(Ahead(l)) : Ahead(l)[i] = g /\ Ahead(l)[j] = g => i = j
Before(l, g, h) ==
  \A i, j \in 1 .. Len(Ahead(l)) : Ahead(l)[i] = g /\ Ahead(l)[j] = h => i < j

\* A functor that is ahead has been, or is what was queued.
LEMMA HasFrom ==
  ASSUME TypeOK, NEW l, NEW d, NEW m, NEW f, Flow(l, d, m, f), NEW k \in Loops, NEW g,
         Has(k, g)'
  PROVE  Has(k, g) \/ (k = m /\ g = f)
<1>1. PICK i : i \in 1 .. Len(Ahead(k)') /\ Ahead(k)'[i] = g
  BY DEF Has
<1>2. \/ \E j \in 1 .. Len(Ahead(k)) : Ahead(k)[j] = g
      \/ k = m /\ g = f
  BY <1>1, FlowFrom
<1> QED
  BY <1>2 DEF Has

\* One that is not dropped stays.
LEMMA HasStays ==
  ASSUME TypeOK, NEW l, NEW d, NEW m, NEW f, Flow(l, d, m, f), NEW k \in Loops, NEW g,
         Has(k, g), k = l => d = 0 \/ (d = 1 /\ g # Ahead(l)[1])
  PROVE  Has(k, g)'
<1>1. PICK i \in 1 .. Len(Ahead(k)) : Ahead(k)[i] = g
  BY DEF Has
<1>2. k = l => i > d
  BY <1>1
<1>3. \E j : j \in 1 .. Len(Ahead(k)') /\ Ahead(k)'[j] = g
  BY <1>1, <1>2, FlowKeeps
<1> QED
  BY <1>3 DEF Has

\* One that is queued is there.
LEMMA HasAdded ==
  ASSUME TypeOK, NEW l, NEW d, NEW m \in Loops, NEW f, Flow(l, d, m, f)
  PROVE  Has(m, f)'
<1> DEFINE n == IF m = l THEN d ELSE 0
<1>1. PICK b : b = Ahead(m)'
  OBVIOUS
<1>2. DropsAdds(b, Ahead(m), n, f)
  BY <1>1 DEF Flow
<1>3. Len(Ahead(m)) \in Nat
  BY QueueTypes
<1> HIDE DEF n
<1>4. n \in 0 .. Len(Ahead(m)) /\ Len(b) = Len(Ahead(m)) - n + 1
      /\ b[Len(Ahead(m)) - n + 1] = f
  BY <1>2 DEF DropsAdds
<1>5. Len(b) \in 1 .. Len(b) /\ b[Len(b)] = f
  BY <1>3, <1>4
<1> QED
  BY <1>1, <1>5 DEF Has

\* One that was there once at most is so still, if it was not queued again.
LEMMA OnceStays ==
  ASSUME TypeOK, NEW l, NEW d, NEW m, NEW f, Flow(l, d, m, f), NEW k \in Loops, NEW g,
         Once(k, g), k = m /\ g = f => ~Has(k, g)
  PROVE  Once(k, g)'
<1>1. PICK b : b = Ahead(k)'
  OBVIOUS
<1> DEFINE n == IF k = l THEN d ELSE 0
           a == Ahead(k)
<1>2. \A i \in 1 .. Len(b) :
        \/ i + n \in 1 .. Len(a) /\ b[i] = a[i + n]
        \/ k = m /\ i = Len(a) - n + 1 /\ b[i] = f
  BY <1>1, FlowFrom
<1>3. n \in Int
  BY FlowFrom DEF Flow, Drops, DropsAdds
<1> HIDE DEF n, a
<1> SUFFICES ASSUME NEW i \in 1 .. Len(b), NEW j \in 1 .. Len(b), b[i] = g, b[j] = g
             PROVE  i = j
  BY <1>1 DEF Once
<1>4. CASE k = m /\ g = f
  <2>1. \A p \in 1 .. Len(a) : a[p] # g
    BY <1>4 DEF Has, a
  <2> QED
    BY <1>2, <2>1
<1>5. CASE ~(k = m /\ g = f)
  <2>1. i + n \in 1 .. Len(a) /\ a[i + n] = g /\ j + n \in 1 .. Len(a) /\ a[j + n] = g
    BY <1>2, <1>5
  <2>2. i + n = j + n
    BY <2>1 DEF Once, a
  <2> QED
    BY <1>3, <2>2
<1> QED
  BY <1>4, <1>5

\* When it runs it is no longer ahead.
LEMMA HasRun ==
  ASSUME TypeOK, NEW l \in Loops, NEW m, NEW f, Flow(l, 1, m, f), NEW g,
         1 \in 1 .. Len(Ahead(l)), Ahead(l)[1] = g, Once(l, g), ~(l = m /\ g = f)
  PROVE  ~Has(l, g)'
<1> SUFFICES ASSUME NEW i, i \in 1 .. Len(Ahead(l)'), Ahead(l)'[i] = g
             PROVE  FALSE
  BY DEF Has
<1>1. i + 1 \in 1 .. Len(Ahead(l)) /\ Ahead(l)[i + 1] = g
  BY FlowFrom
<1>2. i + 1 = 1
  BY <1>1 DEF Once
<1>3. i \in Nat \ {0}
  BY FlowFrom
<1> QED
  BY <1>2, <1>3

\* Nothing is ahead of a loop that has ended.
LEMMA HasDropped ==
  ASSUME TypeOK, NEW l \in Loops, Flow(l, Len(Ahead(l)), NoLoop, NoFunctor), NEW g
  PROVE  ~Has(l, g)'
<1>1. PICK b : b = Ahead(l)'
  OBVIOUS
<1>2. Drops(b, Ahead(l), Len(Ahead(l)))
  BY <1>1 DEF Flow, NoLoop, Loops
<1>3. Len(b) = 0
  <2>1. Len(Ahead(l)) \in Nat
    BY QueueTypes
  <2> QED
    BY <1>2, <2>1 DEF Drops
<1> QED
  BY <1>1, <1>3 DEF Has

\* The order of two functors stays.
LEMMA BeforeStays ==
  ASSUME TypeOK, NEW l, NEW d, NEW m, NEW f, Flow(l, d, m, f), NEW k \in Loops,
         NEW g, NEW h, g # h, Before(k, g, h), k = m /\ g = f => ~Has(k, h)
  PROVE  Before(k, g, h)'
<1>1. PICK b : b = Ahead(k)'
  OBVIOUS
<1> DEFINE n == IF k = l THEN d ELSE 0
           a == Ahead(k)
<1>2. \A i \in 1 .. Len(b) :
        \/ i + n \in 1 .. Len(a) /\ b[i] = a[i + n]
        \/ k = m /\ i = Len(a) - n + 1 /\ b[i] = f
  BY <1>1, FlowFrom
<1>3. n \in Int /\ Len(a) \in Nat
  BY FlowFrom, QueueTypes DEF Flow, Drops, DropsAdds
<1>4. \A i, j \in 1 .. Len(a) : a[i] = g /\ a[j] = h => i < j
  BY DEF Before
<1>5. k = m /\ g = f => \A j \in 1 .. Len(a) : a[j] # h
  BY DEF Has
<1> HIDE DEF n, a
<1> SUFFICES ASSUME NEW i \in 1 .. Len(b), NEW j \in 1 .. Len(b), b[i] = g, b[j] = h
             PROVE  i < j
  BY <1>1 DEF Before
<1>6. CASE i + n \in 1 .. Len(a) /\ b[i] = a[i + n]
  <2>1. CASE j + n \in 1 .. Len(a) /\ b[j] = a[j + n]
    <3>1. i + n < j + n
      BY <1>4, <1>6, <2>1
    <3> QED
      BY <1>3, <3>1
  <2>2. CASE j = Len(a) - n + 1
    BY <1>3, <1>6, <2>2
  <2> QED
    BY <1>2, <2>1, <2>2
<1>7. CASE k = m /\ b[i] = f
  BY <1>2, <1>5, <1>7
<1> QED
  BY <1>2, <1>6, <1>7
------------------------------------------------------------------------------
(***************************************************************************)
(* What waits to be done with a connection.                                *)
(***************************************************************************)
Work == {"connectEstablished", "removeConnectionInLoop", "connectDestroyed"}

\* The loop that does it; whether it is ahead of that loop, and once at most.
Place(op, c) == IF op = "removeConnectionInLoop" THEN BaseLoop ELSE ioLoop[c]
Awaits(op, c) == Has(Place(op, c), Functor(op, c))
Single(op, c) == Once(Place(op, c), Functor(op, c))

\* The connection is established before it is destroyed.
Ordered(c) ==
  Before(ioLoop[c], Functor("connectEstablished", c), Functor("connectDestroyed", c))

\* A step leaves what waits alone, but for the work in S.
Kept(op, c) == (Awaits(op, c)' <=> Awaits(op, c)) /\ (Single(op, c) => Single(op, c)')
KeptBut(S) ==
  \A c \in Created :
    /\ Ordered(c) => Ordered(c)'
    /\ \A op \in Work : <<op, c>> \notin S => Kept(op, c)

\* A functor is its operation and its connection.
LEMMA FunctorsEqual ==
  ASSUME NEW a, NEW b, NEW c, NEW d
  PROVE  (Functor(a, c) = Functor(b, d)) <=> (a = b /\ c = d)
<1>1. Functor(a, c).op = a /\ Functor(a, c).conn = c
  BY DEF Functor
<1>2. Functor(b, d).op = b /\ Functor(b, d).conn = d
  BY DEF Functor
<1> QED
  BY <1>1, <1>2

\* A connection's work is done on a loop.
LEMMA PlaceIsLoop ==
  ASSUME TypeOK, NEW c \in Created, NEW op
  PROVE  Place(op, c) \in Loops
BY BaseIsLoop DEF Place, TypeOK, Created

\* What is neither dropped nor queued is kept.
LEMMA FlowKept ==
  ASSUME TypeOK, NEW l, NEW d, NEW m, NEW f, Flow(l, d, m, f), NEW S,
         \A c \in Created : /\ ioLoop'[c] = ioLoop[c]
                            /\ f # Functor("connectEstablished", c),
         \A op \in Work, c \in Created :
           <<op, c>> \notin S =>
             /\ Functor(op, c) # f
             /\ Place(op, c) = l => d = 0 \/ (d = 1 /\ Functor(op, c) # Ahead(l)[1])
  PROVE  KeptBut(S)
<1> SUFFICES ASSUME NEW c \in Created
             PROVE  /\ Ordered(c) => Ordered(c)'
                    /\ \A op \in Work : <<op, c>> \notin S => Kept(op, c)
  BY DEF KeptBut
<1>1. ASSUME Ordered(c)
      PROVE  Ordered(c)'
  <2> DEFINE g == Functor("connectEstablished", c)
             h == Functor("connectDestroyed", c)
  <2>1. PICK k \in Loops : k = ioLoop[c] /\ k = ioLoop'[c]
    BY DEF TypeOK, Created
  <2>2. g # h /\ g # f
    BY FunctorsEqual
  <2>3. Before(k, g, h)
    BY <1>1, <2>1 DEF Ordered
  <2> HIDE DEF g, h
  <2>4. Before(k, g, h)'
    BY <2>2, <2>3, BeforeStays
  <2> QED
    BY <2>1, <2>4 DEF Ordered, g, h, Before, Functor
<1>2. ASSUME NEW op \in Work, <<op, c>> \notin S
      PROVE  Kept(op, c)
  <2> DEFINE g == Functor(op, c)
  <2>1. PICK k \in Loops : k = Place(op, c)
    BY PlaceIsLoop
  <2>2. Place(op, c)' = k
    BY <2>1 DEF Place
  <2>3. g # f /\ (k = l => d = 0 \/ (d = 1 /\ g # Ahead(l)[1]))
    BY <1>2, <2>1
  <2> HIDE DEF g
  <2>4. Has(k, g)' <=> Has(k, g)
    BY <2>3, HasFrom, HasStays
  <2>5. Once(k, g) => Once(k, g)'
    BY <2>3, OnceStays
  <2>6. /\ Awaits(op, c) <=> Has(k, g)
        /\ Awaits(op, c)' <=> Has(k, g)'
        /\ Single(op, c) <=> Once(k, g)
        /\ Single(op, c)' <=> Once(k, g)'
    BY <2>1, <2>2 DEF Awaits, Single, g, Has, Once, Functor
  <2> QED
    BY <2>4, <2>5, <2>6 DEF Kept
<1> QED
  BY <1>1, <1>2

\* Work that is queued waits, and once if it did not.
LEMMA FlowAdds ==
  ASSUME TypeOK, NEW l, NEW d, NEW op \in Work, NEW c \in Created, ioLoop'[c] = ioLoop[c],
         Flow(l, d, Place(op, c), Functor(op, c))
  PROVE  Awaits(op, c)' /\ (~Awaits(op, c) => Single(op, c)')
<1> DEFINE g == Functor(op, c)
<1>1. PICK k \in Loops : k = Place(op, c)
  BY PlaceIsLoop
<1>2. Place(op, c)' = k
  BY <1>1 DEF Place
<1>3. Flow(l, d, k, g)
  BY <1>1
<1> HIDE DEF g
<1>4. Has(k, g)'
  BY <1>3, HasAdded
<1>5. ~Has(k, g) => Once(k, g)'
  BY <1>3, OnceStays DEF Has, Once
<1>6. /\ Awaits(op, c) <=> Has(k, g)
      /\ Awaits(op, c)' <=> Has(k, g)'
      /\ Single(op, c)' <=> Once(k, g)'
  BY <1>1, <1>2 DEF Awaits, Single, g, Has, Once, Functor
<1> QED
  BY <1>4, <1>5, <1>6

\* Work that is done waits no longer.
LEMMA FlowRuns ==
  ASSUME TypeOK, NEW op \in Work, NEW c \in Created, ioLoop'[c] = ioLoop[c],
         NEW m, NEW f, Flow(Place(op, c), 1, m, f), f # Functor(op, c),
         1 \in 1 .. Len(Ahead(Place(op, c))), Ahead(Place(op, c))[1] = Functor(op, c)
  PROVE  Awaits(op, c) /\ (Single(op, c) => ~Awaits(op, c)' /\ Single(op, c)')
<1> DEFINE g == Functor(op, c)
<1>1. PICK k \in Loops : k = Place(op, c)
  BY PlaceIsLoop
<1>2. Place(op, c)' = k
  BY <1>1 DEF Place
<1>3. Flow(k, 1, m, f) /\ 1 \in 1 .. Len(Ahead(k)) /\ Ahead(k)[1] = g /\ f # g
  BY <1>1
<1> HIDE DEF g
<1>4. Once(k, g) => ~Has(k, g)' /\ Once(k, g)'
  BY <1>3, HasRun, OnceStays
<1>5. Has(k, g)
  BY <1>3 DEF Has
<1>6. /\ Awaits(op, c) <=> Has(k, g)
      /\ Awaits(op, c)' <=> Has(k, g)'
      /\ Single(op, c) <=> Once(k, g)
      /\ Single(op, c)' <=> Once(k, g)'
  BY <1>1, <1>2 DEF Awaits, Single, g, Has, Once, Functor
<1> QED
  BY <1>4, <1>5, <1>6
------------------------------------------------------------------------------
(***************************************************************************)
(* The inductive invariant.                                                *)
(***************************************************************************)

\* connections_ has connection c under its name.
InMap(c) == name_[c] \in DOMAIN connections_ /\ connections_[name_[c]] = c
Named == \A n \in DOMAIN connections_ : name_[connections_[n]] = n

\* The base loop has not ended.
BaseRuns == phase[BaseLoop] # "stopped"

\* The connections that nothing extraordinary has happened to: no shutdown() has
\* undone kDisconnected, no other one has taken the place in connections_.
Sure == Created \ (overwrote \union dropped)

\* A connection of another loop comes up by the functor that is queued first.
ComesUp(c) ==
  /\ state_[c] = "kConnecting" =>
       /\ ioLoop[c] # BaseLoop
       /\ phase[ioLoop[c]] # "stopped" => Awaits("connectEstablished", c)
  /\ Awaits("connectEstablished", c) => state_[c] = "kConnecting"
  /\ Single("connectEstablished", c)
  /\ Ordered(c)
EstablishedFirst == \A c \in Created : ComesUp(c)

\* Its user is told when it goes down; once it is destroyed it is not up, and only a
\* send() puts its Channel back.
ToldOf(c) ==
  /\ c \in inPoller => state_[c] # "kConnecting"
  /\ c \in watched => state_[c] # "kDisconnected"
  /\ state_[c] = "kDisconnected" => downs[c] >= 1
  /\ c \notin overwrote => downs[c] = IF state_[c] = "kDisconnected" THEN 1 ELSE 0
  /\ c \in destroyed =>
       /\ state_[c] \in {"kDisconnecting", "kDisconnected"}
       /\ c \in inPoller => c \in revived
Told == (\A c \in Conns \ Created : downs[c] = 0) /\ \A c \in Created : ToldOf(c)

\* While the base loop runs the connections that are up are in connections_, and
\* those that are down until removeConnectionInLoop, which is asked for once.
AsksRemoval(l) ==
  closing[l] \in Sure =>
    /\ state_[closing[l]] = "kDisconnected"
    /\ ~Awaits("removeConnectionInLoop", closing[l])
    /\ BaseRuns => InMap(closing[l])
IsRemoved(c) ==
  /\ Awaits("removeConnectionInLoop", c) =>
       state_[c] = "kDisconnected" /\ (BaseRuns => InMap(c))
  /\ Single("removeConnectionInLoop", c)
  /\ BaseRuns /\ state_[c] # "kDisconnected" => InMap(c)
Removing == (\A l \in Loops : AsksRemoval(l)) /\ \A c \in Sure : IsRemoved(c)

\* The destruction of a connection is ahead or over; nothing is queued while it is
\* in connections_, and afterwards only once.
Ends(c) ==
  /\ c \in dropped \union destroyed \union lost \/ InMap(c) \/ Awaits("connectDestroyed", c)
  /\ InMap(c) => c \notin destroyed \union lost /\ ~Awaits("connectDestroyed", c)
  /\ c \in lost => phase[ioLoop[c]] = "stopped"
  /\ c \in Sure =>
       /\ Awaits("connectDestroyed", c) => c \notin destroyed \union lost
       /\ Single("connectDestroyed", c)
Destruction == \A c \in Created : Ends(c)

\* While the base loop runs a send() puts no Channel back.
Late == BaseRuns => Sure \intersect revived = {}

DestructionInv == Named /\ EstablishedFirst /\ Told /\ Removing /\ Destruction /\ Late
------------------------------------------------------------------------------
(***************************************************************************)
(* The steps, as the connections see them.                                 *)
(***************************************************************************)

\* Nothing happens to a connection.
Unmoved == UNCHANGED <<connections_, connVars, closing, endVars>> /\ KeptBut({})

\* newConnection makes x: on the base loop it comes up at once.  The connection that
\* had its name is dropped.
Accepted(x) ==
  /\ x \in Conns \ Created /\ Created' = Created \union {x}
  /\ \A c \in Created : state_'[c] = state_[c] /\ ioLoop'[c] = ioLoop[c]
  /\ \A c \in Created : InMap(c)' => InMap(c)
  /\ \A c \in Created : InMap(c) => InMap(c)' \/ c \in dropped'
  /\ InMap(x)' /\ Named'
  /\ UNCHANGED <<downs, destroyed, revived, overwrote, closing, lost, phase>>
  /\ dropped \subseteq dropped'
  /\ KeptBut({})
  /\ \A op \in Work : Single(op, x)'
  /\ ~Awaits("removeConnectionInLoop", x)' /\ ~Awaits("connectDestroyed", x)' /\ Ordered(x)'
  /\ \/ /\ ioLoop'[x] = BaseLoop /\ state_'[x] = "kConnected"
        /\ inPoller' = inPoller \union {x} /\ watched' = watched \union {x}
        /\ ~Awaits("connectEstablished", x)'
     \/ /\ ioLoop'[x] # BaseLoop /\ state_'[x] = "kConnecting"
        /\ inPoller' = inPoller /\ watched' = watched
        /\ Awaits("connectEstablished", x)'

\* x is shut down, whatever its state is by now, or goes down.
ShutDown(x) ==
  /\ x \in Created /\ state_[x] # "kConnecting"
  /\ state_' = [state_ EXCEPT ![x] = "kDisconnecting"]
  /\ overwrote' = IF state_[x] = "kDisconnected" THEN overwrote \union {x} ELSE overwrote
  /\ UNCHANGED <<connections_, ioLoop, name_, downs, inPoller, watched, destroyed, revived,
                 closing, endVars>>
  /\ KeptBut({})
WentDown(x) ==
  /\ x \in watched
  /\ state_' = [state_ EXCEPT ![x] = "kDisconnected"]
  /\ downs' = [downs EXCEPT ![x] = @ + 1]
  /\ watched' = watched \ {x}
  /\ closing' = [closing EXCEPT ![ioLoop[x]] = x]
  /\ UNCHANGED <<connections_, ioLoop, name_, inPoller, destroyed, revived, overwrote,
                 endVars>>
  /\ KeptBut({})

\* The Channel of x stops asking for events, or asks for them to send the rest.
Written(x) ==
  /\ x \in Created /\ state_[x] # "kConnecting"
  /\ \/ watched' \subseteq watched /\ UNCHANGED <<inPoller, revived>>
     \/ /\ state_[x] # "kDisconnected"
        /\ inPoller' = inPoller \union {x} /\ watched' = watched \union {x}
        /\ revived' = revived \union ({x} \intersect destroyed)
  /\ UNCHANGED <<connections_, ioLoop, name_, state_, downs, destroyed, overwrote, closing,
                 endVars>>
  /\ KeptBut({})

\* x comes up by the functor that was queued.
Established(x) ==
  /\ x \in Created /\ Awaits("connectEstablished", x)
  /\ Single("connectEstablished", x) =>
       ~Awaits("connectEstablished", x)' /\ Single("connectEstablished", x)'
  /\ ConnectEstablished(x)
  /\ UNCHANGED <<connections_, ioLoop, name_, closing, endVars>>
  /\ KeptBut({<<"connectEstablished", x>>})

\* closeCallback_ asks the base loop to remove x.
AskedRemoval(x) ==
  /\ x \in Created /\ ioLoop[x] # BaseLoop /\ closing[ioLoop[x]] = x
  /\ closing' = [closing EXCEPT ![ioLoop[x]] = NoConn]
  /\ UNCHANGED <<connections_, connVars, endVars>>
  /\ Awaits("removeConnectionInLoop", x)'
  /\ ~Awaits("removeConnectionInLoop", x) => Single("removeConnectionInLoop", x)'
  /\ KeptBut({<<"removeConnectionInLoop", x>>})

\* removeConnectionInLoop of x, queued by closeCallback_ or called by it.
Removed(x) ==
  /\ x \in Created /\ BaseRuns
  /\ connections_' = Without(name_[x]) /\ Displace(name_[x], x)
  /\ UNCHANGED <<connVars, lost>>
  /\ Awaits("connectDestroyed", x)'
  /\ ~Awaits("connectDestroyed", x) => Single("connectDestroyed", x)'
  /\ \/ /\ closing' = closing
        /\ Awaits("removeConnectionInLoop", x)
        /\ Single("removeConnectionInLoop", x) =>
             ~Awaits("removeConnectionInLoop", x)' /\ Single("removeConnectionInLoop", x)'
     \/ /\ ioLoop[x] = BaseLoop /\ closing[BaseLoop] = x
        /\ closing' = [closing EXCEPT ![BaseLoop] = NoConn]
        /\ Kept("removeConnectionInLoop", x)
  /\ KeptBut({<<"removeConnectionInLoop", x>>, <<"connectDestroyed", x>>})

\* connectDestroyed of x.
Destroyed(x) ==
  /\ x \in Created /\ ConnectDestroyed(x)
  /\ Awaits("connectDestroyed", x) /\ phase[ioLoop[x]] = "run"
  /\ Single("connectDestroyed", x) =>
       ~Awaits("connectDestroyed", x)' /\ Single("connectDestroyed", x)'
  /\ Ahead(ioLoop[x])[1] = Functor("connectDestroyed", x)
  /\ UNCHANGED <<connections_, ioLoop, name_, closing, endVars>>
  /\ KeptBut({<<"connectDestroyed", x>>})

\* ~TcpServer destroys x, or has its loop do it.
Unmapped(x) ==
  /\ x \in Created /\ InMap(x) /\ ~BaseRuns
  /\ connections_' = Without(name_[x])
  /\ UNCHANGED <<ioLoop, name_, closing, endVars>>
  /\ \/ ioLoop[x] = BaseLoop /\ ConnectDestroyed(x) /\ KeptBut({})
     \/ /\ UNCHANGED statusVars
        /\ Awaits("connectDestroyed", x)'
        /\ ~Awaits("connectDestroyed", x) => Single("connectDestroyed", x)'
        /\ KeptBut({<<"connectDestroyed", x>>})

\* Loop l discards what it has not come to.
Discarded(l) ==
  /\ l \in Loops /\ phase'[l] = "stopped"
  /\ lost' = lost \union {c \in Created : ioLoop[c] = l /\ Awaits("connectDestroyed", c)}
  /\ UNCHANGED <<connections_, connVars, closing, dropped>>
  /\ \A c \in Created :
       /\ Ordered(c) => Ordered(c)'
       /\ \A op \in Work : IF Place(op, c) = l THEN ~Awaits(op, c)' /\ Single(op, c)'
                                               ELSE Kept(op, c)

\* A loop that has ended has ended for good.
LEMMA StoppedStays ==
  ASSUME ServerInv, [Next]_vars, Created # {}, NEW l \in Loops, phase[l] = "stopped"
  PROVE  phase'[l] = "stopped"
<1>1. TypeOK /\ Lifecycle /\ Starting /\ CallersPlaced
  BY DEF ServerInv
<1>2. phase \in [Loops -> Phases] /\ BaseLoop \in Loops
  BY <1>1, BaseIsLoop DEF TypeOK
<1>3. CASE phase' = phase
  BY <1>3
<1>4. CASE EnterLoop
  <2>1. phase[BaseLoop] = "none" /\ phase' = [phase EXCEPT ![BaseLoop] = "poll"]
    BY <1>1, <1>4 DEF EnterLoop, Lifecycle
  <2> QED
    BY <1>2, <2>1
<1>5. CASE \E t \in Starters : StartPool(t)
  BY <1>1, <1>5 DEF StartPool, Starting, Blank
<1>6. CASE \E k \in Loops : Swap(k)
  BY <1>2, <1>6 DEF Swap, Dispatching
<1>7. CASE \E k \in Loops : EndTurn(k)
  BY <1>2, <1>7 DEF EndTurn
<1>8. CASE \/ Aside /\ ~EnterLoop
           \/ AcceptConnection
           \/ \E p \in Callers : QueueSend(p)
           \/ \E k \in Loops : RunFunctor(k) \/ CloseCallback(k)
           \/ \E n \in Names : DestroyConnection(n)
           \/ DestroyBaseLoop
  <2>1. phase' = phase
    BY <1>8 DEF Aside, SetThreadNum, TestStarted, QuitBaseLoop, ClientArrives, AcceptFails,
       BeginDestroy, BeginJoin, EndJoin, DestroyAcceptor, QuitThread, BeginShutdown,
       BeginSend, vars, queueVars, AcceptConnection, QueueSend, RunFunctor, CloseCallback,
       DestroyConnection, DestroyBaseLoop
  <2> QED
    BY <2>1
<1>9. CASE Handling
  <2>1. phase' = phase
    BY <1>1, <1>9, HandlingFacts DEF queueVars
  <2> QED
    BY <2>1
<1> QED
  BY <1>4, <1>5, <1>6, <1>7, <1>8, <1>9, NextCases

\* No work is done by NoFunctor.
LEMMA NotNoFunctor ==
  ASSUME NEW op \in Work, NEW c
  PROVE  Functor(op, c) # NoFunctor
BY FunctorsEqual DEF Work, NoFunctor

\* Erasing the entry of x from connections_ concerns no other connection.
LEMMA WithoutInMap ==
  ASSUME TypeOK, Named, NEW x \in Created, InMap(x), connections_' = Without(name_[x]),
         name_' = name_
  PROVE  Named' /\ \A c \in Created : InMap(c)' <=> InMap(c) /\ c # x
<1>1. DOMAIN connections_' = DOMAIN connections_ \ {name_[x]}
      /\ \A n \in DOMAIN connections_ \ {name_[x]} : connections_'[n] = connections_[n]
  BY WithoutFacts
<1> QED
  BY <1>1 DEF Named, InMap

\* Erasing its name concerns the connection that has it, which is then dropped.
LEMMA ErasedInMap ==
  ASSUME TypeOK, Named, NEW x \in Created, connections_' = Without(name_[x]),
         Displace(name_[x], x), name_' = name_
  PROVE  /\ Named' /\ ~InMap(x)'
         /\ \A c \in Created : InMap(c)' => InMap(c)
         /\ \A c \in Created : InMap(c) => InMap(c)' \/ c = x \/ c \in dropped'
<1>1. DOMAIN connections_' = DOMAIN connections_ \ {name_[x]}
      /\ \A n \in DOMAIN connections_ \ {name_[x]} : connections_'[n] = connections_[n]
  BY WithoutFacts
<1>2. name_[x] \in DOMAIN connections_ /\ connections_[name_[x]] # x =>
        connections_[name_[x]] \in dropped'
  BY DEF Displace
<1> QED
  BY <1>1, <1>2 DEF Named, InMap

\* Dropping nothing but listen() and queueing nothing but listen() concerns no
\* connection.
LEMMA QuietKept ==
  ASSUME TypeOK, \A c \in Created : ioLoop'[c] = ioLoop[c],
         NEW l, NEW d, NEW m, Flow(l, d, m, NoFunctor),
         d = 0 \/ (d = 1 /\ Ahead(l)[1] = NoFunctor)
  PROVE  KeptBut({})
<1>1. \A c \in Created : NoFunctor # Functor("connectEstablished", c)
  BY NotNoFunctor DEF Work
<1>2. \A op \in Work, c \in Created :
        /\ Functor(op, c) # NoFunctor
        /\ d = 0 \/ (d = 1 /\ Functor(op, c) # Ahead(l)[1])
  BY NotNoFunctor
<1> QED
  BY <1>1, <1>2, FlowKept

\* Neither does queueing a send(), or running one.
LEMMA SendKept ==
  ASSUME TypeOK, \A c \in Created : ioLoop'[c] = ioLoop[c], NEW x,
         NEW l, NEW d, NEW m, NEW f, Flow(l, d, m, f),
         \/ f = Functor("sendInLoop", x) /\ d = 0
         \/ f = NoFunctor /\ d = 1 /\ Ahead(l)[1] = Functor("sendInLoop", x)
  PROVE  KeptBut({})
<1>1. \A op \in Work : \A c :
        Functor(op, c) # NoFunctor /\ Functor(op, c) # Functor("sendInLoop", x)
  BY NotNoFunctor, FunctorsEqual DEF Work
<1>2. \A c \in Created : f # Functor("connectEstablished", c)
  BY <1>1 DEF Work
<1>3. \A op \in Work, c \in Created :
        /\ Functor(op, c) # f
        /\ d = 0 \/ (d = 1 /\ Functor(op, c) # Ahead(l)[1])
  BY <1>1
<1> QED
  BY <1>2, <1>3, FlowKept

\* Most steps.
LEMMA UnmovedBy ==
  ASSUME ServerInv, [Next]_vars,
         \/ Aside
         \/ \E t \in Starters : StartPool(t)
         \/ \E p \in Callers : QueueSend(p)
         \/ \E l \in Loops : Swap(l)
         \/ \E l \in Loops : EndTurn(l) /\ ~(quit_[l] /\ l # BaseLoop)
  PROVE  Unmoved
<1>1. TypeOK /\ Lifecycle /\ Numbered /\ Placed /\ CallersPlaced
  BY DEF ServerInv
<1>2. CASE Aside
  <2>1. /\ UNCHANGED <<connections_, connVars, closing, endVars>>
        /\ UNCHANGED <<pendingFunctors_, functors, done>>
    BY <1>2, AsideFacts DEF mapVars
  <2> QED
    BY <1>1, <2>1, NoFlow, QuietKept DEF Unmoved, connVars
<1>3. CASE \E t \in Starters : StartPool(t)
  <2>1. PICK t \in Starters : StartPool(t)
    BY <1>3
  <2>2. UNCHANGED <<connections_, connVars, closing, endVars, functors, done>>
    BY <1>1, <2>1, StartPoolFacts DEF mapVars
  <2>3. \E m : Flow(NoLoop, 0, m, NoFunctor)
    <3>1. CASE pendingFunctors_' = pendingFunctors_
      BY <1>1, <2>2, <3>1, NoFlow
    <3> QED
      BY <1>1, <2>1, <3>1, StartPoolFacts
  <2> QED
    BY <1>1, <2>2, <2>3, QuietKept DEF Unmoved, connVars
<1>4. CASE \E l \in Loops : Swap(l)
  <2>1. UNCHANGED <<connections_, connVars, closing, endVars>>
    BY <1>4 DEF Swap, mapVars
  <2> QED
    BY <1>1, <1>4, <2>1, SwapFlow, QuietKept DEF Unmoved, connVars
<1>5. CASE \E l \in Loops : EndTurn(l) /\ ~(quit_[l] /\ l # BaseLoop)
  <2>1. UNCHANGED <<connections_, connVars, closing, endVars>>
    BY <1>5 DEF EndTurn, mapVars, endVars
  <2> QED
    BY <1>1, <1>5, <2>1, EndTurnFlow, QuietKept DEF Unmoved, connVars
<1>6. CASE \E p \in Callers : QueueSend(p)
  <2>1. PICK p \in Callers : QueueSend(p)
    BY <1>6
  <2>2. UNCHANGED <<connections_, connVars, closing, endVars>>
    BY <1>1, <2>1, QueueSendFacts DEF mapVars
  <2>3. PICK c : \/ Flow(NoLoop, 0, NoLoop, NoFunctor)
                 \/ Flow(NoLoop, 0, ioLoop[c], Functor("sendInLoop", c))
    BY <1>1, <2>1, QueueSendFacts
  <2>4. KeptBut({})
    BY <1>1, <2>2, <2>3, QuietKept, SendKept DEF connVars
  <2> QED
    BY <2>2, <2>4 DEF Unmoved
<1> QED
  BY <1>2, <1>3, <1>4, <1>5, <1>6

\* newConnection.
LEMMA AcceptedBy ==
  ASSUME ServerInv, Named, AcceptConnection
  PROVE  \E x : Accepted(x)
<1>1. TypeOK /\ Lifecycle /\ Numbered /\ Placed
  BY DEF ServerInv
<1>2. /\ NewConnection /\ waiting > 0
      /\ UNCHANGED <<functors, done, closing, lost, phase>>
  BY DEF AcceptConnection, AcceptorReady
<1>3. PICK n \in 0 .. MaxConns - 1 :
        /\ Created = 1 .. n /\ Created' = 1 .. n + 1 /\ n + 1 \notin Created
        /\ n + 1 \in Conns /\ NextLoop \in Loops
        /\ connections_' = [i \in DOMAIN connections_ \union {nextConnId_} |->
                              IF i = nextConnId_ THEN n + 1 ELSE connections_[i]]
        /\ ioLoop' = [ioLoop EXCEPT ![n + 1] = NextLoop]
        /\ name_' = [name_ EXCEPT ![n + 1] = nextConnId_]
        /\ Displace(nextConnId_, n + 1)
        /\ UNCHANGED <<downs, destroyed, revived, overwrote>>
        /\ \/ /\ NextLoop = BaseLoop
              /\ state_' = [state_ EXCEPT ![n + 1] = "kConnected"]
              /\ inPoller' = inPoller \union {n + 1}
              /\ watched' = watched \union {n + 1}
              /\ pendingFunctors_' = pendingFunctors_
           \/ /\ NextLoop # BaseLoop
              /\ state_' = [state_ EXCEPT ![n + 1] = "kConnecting"]
              /\ UNCHANGED <<inPoller, watched>>
              /\ Queue(NextLoop, Functor("connectEstablished", n + 1))
  BY <1>1, <1>2, NewConnectionFacts
<1>4. PICK x : x = n + 1
  OBVIOUS
<1>5. x \in Conns \ Created /\ Created' = Created \union {x}
  <2>1. 1 .. n + 1 = (1 .. n) \union {n + 1}
    OBVIOUS
  <2> QED
    BY <1>3, <1>4, <2>1
<1>6. /\ state_ \in [Conns -> States] /\ ioLoop \in [Conns -> Loops]
      /\ name_ \in [Conns -> Names \union {0}] /\ Range(connections_) \subseteq Created
  BY <1>1 DEF TypeOK
<1>7. \A c \in Created : c \in Conns /\ c # x
  BY <1>5 DEF Created
<1>8. /\ ioLoop'[x] = NextLoop /\ name_'[x] = nextConnId_
      /\ \A c \in Created :
           state_'[c] = state_[c] /\ ioLoop'[c] = ioLoop[c] /\ name_'[c] = name_[c]
  BY <1>3, <1>4, <1>5, <1>6, <1>7
<1>9. /\ DOMAIN connections_' = DOMAIN connections_ \union {nextConnId_}
      /\ connections_'[nextConnId_] = x
      /\ \A i \in DOMAIN connections_ \ {nextConnId_} : connections_'[i] = connections_[i]
      /\ nextConnId_ \in DOMAIN connections_ => connections_[nextConnId_] \in dropped' \union {x}
      /\ dropped \subseteq dropped'
  BY <1>2, <1>3, <1>4 DEF Displace
<1>10. /\ \A c \in Created : InMap(c)' => InMap(c)
       /\ \A c \in Created : InMap(c) => InMap(c)' \/ c \in dropped'
       /\ InMap(x)' /\ Named'
  <2>1. \A i \in DOMAIN connections_ : connections_[i] \in Created
    BY <1>6 DEF Range
  <2>2. \A c \in Created : InMap(c)' => InMap(c)
    BY <1>7, <1>8, <1>9 DEF InMap
  <2>4. \A c \in Created : InMap(c) => InMap(c)' \/ c \in dropped'
    BY <1>7, <1>8, <1>9 DEF InMap
  <2>3. InMap(x)' /\ Named'
    BY <1>8, <1>9, <2>1 DEF InMap, Named
  <2> QED
    BY <2>2, <2>3, <2>4
<1> DEFINE f == IF NextLoop = BaseLoop THEN NoFunctor ELSE Functor("connectEstablished", x)
           m == IF NextLoop = BaseLoop THEN NoLoop ELSE NextLoop
<1>11. Flow(NoLoop, 0, m, f)
  <2>1. CASE NextLoop = BaseLoop
    BY <1>1, <1>2, <1>3, <2>1, NoFlow
  <2>2. CASE NextLoop # BaseLoop
    <3>1. Queue(NextLoop, Functor("connectEstablished", x))
      BY <1>3, <1>4, <2>2
    <3>2. Functor("connectEstablished", x) \in FunctorType
      BY <1>5 DEF Functor, FunctorType, Ops
    <3> QED
      BY <1>1, <1>2, <1>3, <2>2, <3>1, <3>2, QueueFlow
  <2> QED
    BY <2>1, <2>2
<1>12. KeptBut({})
  <2>1. \A op \in Work, c \in Created : Functor(op, c) # f
    BY <1>7, NotNoFunctor, FunctorsEqual
  <2>2. \A c \in Created : f # Functor("connectEstablished", c)
    BY <2>1 DEF Work
  <2> HIDE DEF f, m
  <2> QED
    BY <1>1, <1>8, <1>11, <2>1, <2>2, FlowKept
<1>13. ASSUME NEW k \in Loops, NEW op \in Work
       PROVE  /\ ~Has(k, Functor(op, x))
              /\ Once(k, Functor(op, x))'
              /\ Has(k, Functor(op, x))' => k = m /\ op = "connectEstablished"
  <2> DEFINE g == Functor(op, x)
  <2>1. g.op = op /\ g.conn = x /\ op # "listen"
    BY DEF Functor, Work
  <2>2. ~Has(k, g)
    BY <1>1, <1>5, <2>1 DEF Has, Placed, PlacedAt
  <2>3. f = g => op = "connectEstablished"
    BY NotNoFunctor, FunctorsEqual
  <2> HIDE DEF g, f, m
  <2>4. Once(k, g)
    BY <2>2 DEF Has, Once
  <2>5. Once(k, g)'
    BY <1>1, <1>11, <2>2, <2>4, OnceStays
  <2>6. Has(k, g)' => k = m /\ g = f
    BY <1>1, <1>11, <2>2, HasFrom
  <2> QED
    BY <2>2, <2>3, <2>5, <2>6 DEF g
<1>14. ASSUME NEW op \in Work
       PROVE  /\ Single(op, x)'
              /\ Awaits(op, x)' => op = "connectEstablished" /\ NextLoop # BaseLoop
  <2>1. PICK k \in Loops : k = Place(op, x)'
    BY <1>3, <1>8, BaseIsLoop DEF Place
  <2>2. /\ Once(k, Functor(op, x))'
        /\ Has(k, Functor(op, x))' => k = m /\ op = "connectEstablished"
    BY <1>13
  <2>3. m \in Loops => NextLoop # BaseLoop
    BY DEF NoLoop, Loops
  <2>4. /\ Single(op, x)' <=> Once(k, Functor(op, x))'
        /\ Awaits(op, x)' <=> Has(k, Functor(op, x))'
    BY <2>1 DEF Single, Awaits, Once, Has, Functor
  <2> QED
    BY <2>2, <2>3, <2>4
<1>15. NextLoop # BaseLoop => Awaits("connectEstablished", x)'
  <2> SUFFICES ASSUME NextLoop # BaseLoop
               PROVE  Awaits("connectEstablished", x)'
    OBVIOUS
  <2>1. PICK k \in Loops : k = NextLoop
    BY <1>3
  <2> DEFINE g == Functor("connectEstablished", x)
  <2>2. Flow(NoLoop, 0, k, g)
    BY <1>11, <2>1
  <2>3. ioLoop'[x] = k
    BY <1>8, <2>1
  <2> HIDE DEF g
  <2>4. Has(k, g)'
    BY <1>1, <2>2, HasAdded
  <2> QED
    BY <2>3, <2>4 DEF Awaits, Place, Has, g, Functor
<1>16. Ordered(x)'
  <2>1. ~Awaits("connectDestroyed", x)'
    BY <1>14 DEF Work
  <2> QED
    BY <2>1 DEF Awaits, Place, Has, Ordered, Before, Functor
<1>17. \/ /\ NextLoop = BaseLoop /\ state_'[x] = "kConnected"
          /\ inPoller' = inPoller \union {x} /\ watched' = watched \union {x}
       \/ /\ NextLoop # BaseLoop /\ state_'[x] = "kConnecting"
          /\ inPoller' = inPoller /\ watched' = watched
  BY <1>3, <1>4, <1>6
<1> HIDE DEF f, m
<1>18. Accepted(x)
  <2>1. ~Awaits("removeConnectionInLoop", x)' /\ ~Awaits("connectDestroyed", x)'
        /\ (NextLoop = BaseLoop => ~Awaits("connectEstablished", x)')
    BY <1>14 DEF Work
  <2> QED
    BY <1>2, <1>3, <1>5, <1>8, <1>9, <1>10, <1>12, <1>14, <1>15, <1>16, <1>17, <2>1
       DEF Accepted
<1> QED
  BY <1>18

\* shutdown(), handleClose and handleWrite.
LEMMA HandledBy ==
  ASSUME ServerInv, Told, Handling
  PROVE  \E x : ShutDown(x) \/ WentDown(x) \/ Written(x)
<1>1. TypeOK /\ CallersPlaced
  BY DEF ServerInv
<1>2. UNCHANGED <<pendingFunctors_, functors, done, ioLoop>>
  BY <1>1, HandlingFacts DEF queueVars
<1>3. KeptBut({})
  BY <1>1, <1>2, NoFlow, QuietKept
<1>4. ASSUME NEW c \in Conns, Shutdown(c)
      PROVE  ShutDown(c)
  <2>1. c \in Created
    BY <1>4 DEF Shutdown, Alive
  <2> QED
    BY <1>3, <1>4, <2>1 DEF Shutdown, ShutDown, mapVars
<1>5. ASSUME NEW c \in Conns, HandleClose(c)
      PROVE  WentDown(c)
  BY <1>3, <1>5 DEF HandleClose, Reported, WentDown, mapVars
<1>6. ASSUME NEW c \in Conns, HandleWrite(c)
      PROVE  Written(c)
  <2>1. c \in Created /\ c \in inPoller
    BY <1>1, <1>6 DEF HandleWrite, Reported, Alive, TypeOK
  <2>2. state_[c] # "kConnecting"
    BY <2>1 DEF Told, ToldOf
  <2> QED
    BY <1>3, <1>6, <2>1, <2>2 DEF HandleWrite, Written, mapVars
<1>7. ASSUME NEW p \in Callers, SetDisconnecting(p)
      PROVE  ShutDown(caller[p].conn)
  <2>1. caller[p].conn \in Created /\ state_[caller[p].conn] # "kConnecting"
    BY <1>1, <1>7 DEF SetDisconnecting, CallersPlaced
  <2> QED
    BY <1>3, <1>7, <2>1 DEF SetDisconnecting, ShutDown, mapVars
<1> QED
  BY <1>4, <1>5, <1>6, <1>7 DEF Handling

\* doPendingFunctors.
LEMMA RunBy ==
  ASSUME ServerInv, NEW l \in Loops, RunFunctor(l)
  PROVE  Unmoved \/ \E x : Established(x) \/ Removed(x) \/ Destroyed(x) \/ Written(x)
<1>1. TypeOK /\ Numbered /\ Placed
  BY DEF ServerInv
<1>2. /\ phase[l] = "run"
      /\ UNCHANGED <<phase, closing, ioLoop, name_, lost>>
  BY <1>1, RunFacts
<1>3. PICK f \in FunctorType : /\ f = Ahead(l)[1] /\ 1 \in 1 .. Len(Ahead(l))
                               /\ \/ RunsListen(l, f) \/ RunsEstablished(l, f)
                                  \/ RunsRemove(l, f) \/ RunsDestroyed(l, f) \/ RunsSend(l, f)
  BY <1>1, RunFacts
<1>4. PICK x : x = f.conn
  OBVIOUS
<1>5. \A op \in Work : \A c : Functor(op, c) # NoFunctor
  BY NotNoFunctor
<1>6. CASE RunsListen(l, f)
  <2>1. /\ Flow(l, 1, NoLoop, NoFunctor) /\ Ahead(l)[1] = NoFunctor
        /\ UNCHANGED <<connections_, dropped, statusVars>>
    BY <1>3, <1>6 DEF RunsListen
  <2>2. KeptBut({})
    BY <1>1, <1>2, <2>1, QuietKept
  <2> QED
    BY <1>2, <2>1, <2>2 DEF Unmoved, connVars, endVars
<1>7. CASE RunsEstablished(l, f)
  <2>1. /\ f = Functor("connectEstablished", x) /\ x \in Created /\ ioLoop[x] = l
        /\ ConnectEstablished(x) /\ Flow(l, 1, NoLoop, NoFunctor)
        /\ UNCHANGED <<connections_, dropped>>
    BY <1>4, <1>7 DEF RunsEstablished
  <2> DEFINE op == "connectEstablished"
  <2>2. op \in Work /\ Place(op, x) = l
    BY <2>1 DEF Work, Place
  <2> HIDE DEF op
  <2>3. f = Functor(op, x)
    BY <2>1 DEF op
  <2>4. Awaits(op, x) /\ (Single(op, x) => ~Awaits(op, x)' /\ Single(op, x)')
    BY <1>1, <1>2, <1>3, <1>5, <2>1, <2>2, <2>3, FlowRuns
  <2>5. KeptBut({<<op, x>>})
    <3>1. \A o \in Work, c \in Created : <<o, c>> \notin {<<op, x>>} =>
            /\ Functor(o, c) # NoFunctor /\ Functor(o, c) # Ahead(l)[1]
      BY <1>3, <1>5, <2>3, FunctorsEqual
    <3>2. \A c \in Created : NoFunctor # Functor("connectEstablished", c)
      BY <1>5 DEF Work
    <3> QED
      BY <1>1, <1>2, <2>1, <3>1, <3>2, FlowKept
  <2> QED
    BY <1>2, <2>1, <2>4, <2>5 DEF Established, endVars, op
<1>8. CASE RunsRemove(l, f)
  <2>1. /\ f = Functor("removeConnectionInLoop", x) /\ x \in Created /\ l = BaseLoop
        /\ connections_' = Without(name_[x]) /\ Displace(name_[x], x)
        /\ Flow(l, 1, ioLoop[x], Functor("connectDestroyed", x))
        /\ UNCHANGED statusVars
    BY <1>4, <1>8 DEF RunsRemove
  <2> DEFINE op == "removeConnectionInLoop"
             then == "connectDestroyed"
  <2>2. /\ op \in Work /\ then \in Work /\ op # then
        /\ Place(op, x) = l /\ Place(then, x) = ioLoop[x]
    BY <2>1 DEF Work, Place
  <2>3. then # "connectEstablished"
    OBVIOUS
  <2> HIDE DEF op, then
  <2>4. f = Functor(op, x) /\ Flow(l, 1, ioLoop[x], Functor(then, x))
    BY <2>1 DEF op, then
  <2>5. Functor(then, x) # Functor(op, x)
    BY <2>2, FunctorsEqual
  <2>6. Awaits(op, x) /\ (Single(op, x) => ~Awaits(op, x)' /\ Single(op, x)')
    BY <1>1, <1>2, <1>3, <2>1, <2>2, <2>4, <2>5, FlowRuns
  <2>7. Awaits(then, x)' /\ (~Awaits(then, x) => Single(then, x)')
    BY <1>1, <1>2, <2>1, <2>2, <2>4, FlowAdds
  <2>8. KeptBut({<<op, x>>, <<then, x>>})
    <3>1. \A o \in Work, c \in Created : <<o, c>> \notin {<<op, x>>, <<then, x>>} =>
            /\ Functor(o, c) # Functor(then, x) /\ Functor(o, c) # Ahead(l)[1]
      BY <1>3, <2>4, FunctorsEqual
    <3>2. \A c \in Created : Functor(then, x) # Functor("connectEstablished", c)
      BY <2>3, FunctorsEqual
    <3> QED
      BY <1>1, <1>2, <2>4, <3>1, <3>2, FlowKept
  <2>9. BaseRuns
    BY <1>2, <2>1 DEF BaseRuns
  <2> QED
    BY <1>2, <2>1, <2>6, <2>7, <2>8, <2>9 DEF Removed, connVars, op, then
<1>9. CASE RunsDestroyed(l, f)
  <2>1. /\ f = Functor("connectDestroyed", x) /\ x \in Created /\ ioLoop[x] = l
        /\ ConnectDestroyed(x) /\ Flow(l, 1, NoLoop, NoFunctor)
        /\ UNCHANGED <<connections_, dropped>>
    BY <1>4, <1>9 DEF RunsDestroyed
  <2> DEFINE op == "connectDestroyed"
  <2>2. op \in Work /\ Place(op, x) = l
    BY <2>1 DEF Work, Place
  <2> HIDE DEF op
  <2>3. f = Functor(op, x)
    BY <2>1 DEF op
  <2>4. Awaits(op, x) /\ (Single(op, x) => ~Awaits(op, x)' /\ Single(op, x)')
    BY <1>1, <1>2, <1>3, <1>5, <2>1, <2>2, <2>3, FlowRuns
  <2>5. KeptBut({<<op, x>>})
    <3>1. \A o \in Work, c \in Created : <<o, c>> \notin {<<op, x>>} =>
            /\ Functor(o, c) # NoFunctor /\ Functor(o, c) # Ahead(l)[1]
      BY <1>3, <1>5, <2>3, FunctorsEqual
    <3>2. \A c \in Created : NoFunctor # Functor("connectEstablished", c)
      BY <1>5 DEF Work
    <3> QED
      BY <1>1, <1>2, <2>1, <3>1, <3>2, FlowKept
  <2> QED
    BY <1>2, <1>3, <2>1, <2>3, <2>4, <2>5 DEF Destroyed, endVars, op
<1>10. CASE RunsSend(l, f)
  <2>1. /\ f = Functor("sendInLoop", x) /\ x \in Created
        /\ SendInLoop(x) /\ Flow(l, 1, NoLoop, NoFunctor)
        /\ UNCHANGED <<connections_, dropped>>
    BY <1>4, <1>10 DEF RunsSend
  <2>2. KeptBut({})
    BY <1>1, <1>2, <1>3, <2>1, SendKept
  <2>3. state_[x] # "kConnecting"
    <3>1. PlacedAt(l, f)
      BY <1>1, <1>3 DEF Placed
    <3>2. f.op = "sendInLoop"
      BY <2>1 DEF Functor
    <3> QED
      BY <1>4, <3>1, <3>2 DEF PlacedAt
  <2> QED
    BY <1>2, <2>1, <2>2, <2>3 DEF Written, SendInLoop, endVars
<1> QED
  BY <1>3, <1>6, <1>7, <1>8, <1>9, <1>10

\* removeConnection.
LEMMA CloseBy ==
  ASSUME ServerInv, NEW l \in Loops, CloseCallback(l)
  PROVE  \E x : AskedRemoval(x) \/ Removed(x)
<1>1. TypeOK /\ Lifecycle /\ ClosingPlaced
  BY DEF ServerInv
<1>2. PICK x : x = closing[l]
  OBVIOUS
<1>3. /\ x # NoConn /\ x \in Created /\ ioLoop[x] = l
      /\ closing' = [closing EXCEPT ![l] = NoConn]
      /\ UNCHANGED <<connVars, lost>>
      /\ \/ /\ l = BaseLoop
            /\ connections_' = Without(name_[x]) /\ Displace(name_[x], x)
            /\ Flow(NoLoop, 0, l, Functor("connectDestroyed", x))
         \/ /\ l # BaseLoop
            /\ connections_' = connections_ /\ dropped' = dropped
            /\ Flow(NoLoop, 0, BaseLoop, Functor("removeConnectionInLoop", x))
  BY <1>1, <1>2, CloseCallbackFacts
<1>4. ioLoop' = ioLoop
  BY <1>3 DEF connVars
<1>5. ASSUME NEW op \in Work, op # "connectEstablished",
             Flow(NoLoop, 0, Place(op, x), Functor(op, x))
      PROVE  /\ Awaits(op, x)' /\ (~Awaits(op, x) => Single(op, x)')
             /\ KeptBut({<<op, x>>})
  <2>1. \A o \in Work, c \in Created : <<o, c>> \notin {<<op, x>>} =>
          Functor(o, c) # Functor(op, x)
    BY FunctorsEqual
  <2>2. \A c \in Created : Functor(op, x) # Functor("connectEstablished", c)
    BY <1>5, FunctorsEqual
  <2>3. KeptBut({<<op, x>>})
    BY <1>1, <1>4, <1>5, <2>1, <2>2, FlowKept
  <2> QED
    BY <1>1, <1>3, <1>4, <1>5, <2>3, FlowAdds
<1>6. CASE l = BaseLoop
  <2>1. "connectDestroyed" \in Work /\ Place("connectDestroyed", x) = l
    BY <1>3 DEF Work, Place
  <2>2. /\ Awaits("connectDestroyed", x)'
        /\ ~Awaits("connectDestroyed", x) => Single("connectDestroyed", x)'
        /\ KeptBut({<<"connectDestroyed", x>>})
    BY <1>3, <1>5, <1>6, <2>1
  <2>3. Kept("removeConnectionInLoop", x)
        /\ KeptBut({<<"removeConnectionInLoop", x>>, <<"connectDestroyed", x>>})
    BY <1>3, <2>2 DEF KeptBut, Work
  <2>4. BaseRuns
    <3>1. phase[l] = "poll"
      BY <1>1, <1>2, <1>3 DEF Lifecycle
    <3> QED
      BY <1>6, <3>1 DEF BaseRuns
  <2>5. connections_' = Without(name_[x]) /\ Displace(name_[x], x)
    BY <1>3, <1>6
  <2> QED
    BY <1>2, <1>3, <1>6, <2>2, <2>3, <2>4, <2>5 DEF Removed
<1>7. CASE l # BaseLoop
  <2>1. "removeConnectionInLoop" \in Work /\ Place("removeConnectionInLoop", x) = BaseLoop
    BY DEF Work, Place
  <2>2. /\ Awaits("removeConnectionInLoop", x)'
        /\ ~Awaits("removeConnectionInLoop", x) => Single("removeConnectionInLoop", x)'
        /\ KeptBut({<<"removeConnectionInLoop", x>>})
    BY <1>3, <1>5, <1>7, <2>1
  <2> QED
    BY <1>2, <1>3, <1>7, <2>2 DEF AskedRemoval, endVars
<1> QED
  BY <1>6, <1>7

\* ~TcpServer.
LEMMA UnmappedBy ==
  ASSUME ServerInv, Named, NEW n, DestroyConnection(n)
  PROVE  \E x : Unmapped(x)
<1>1. TypeOK /\ Lifecycle
  BY DEF ServerInv
<1>2. PICK x : x = connections_[n]
  OBVIOUS
<1>3. /\ main = "destroying" /\ n \in DOMAIN connections_
      /\ x \in Created /\ ioLoop[x] \in Loops
      /\ connections_' = Without(n)
      /\ UNCHANGED <<functors, done, closing, ioLoop, name_, endVars>>
      /\ \/ /\ ioLoop[x] = BaseLoop
            /\ ConnectDestroyed(x)
            /\ pendingFunctors_' = pendingFunctors_
         \/ /\ Flow(NoLoop, 0, ioLoop[x], Functor("connectDestroyed", x))
            /\ UNCHANGED statusVars
  BY <1>1, <1>2, DestroyFacts
<1>4. name_[x] = n /\ InMap(x) /\ ~BaseRuns
  BY <1>1, <1>2, <1>3 DEF Named, InMap, Lifecycle, BaseRuns
<1>5. CASE ioLoop[x] = BaseLoop /\ ConnectDestroyed(x) /\ pendingFunctors_' = pendingFunctors_
  <2>1. KeptBut({})
    BY <1>1, <1>3, <1>5, NoFlow, QuietKept
  <2> QED
    BY <1>3, <1>4, <1>5, <2>1 DEF Unmapped
<1>6. CASE /\ Flow(NoLoop, 0, ioLoop[x], Functor("connectDestroyed", x))
           /\ UNCHANGED statusVars
  <2> DEFINE op == "connectDestroyed"
  <2>1. op \in Work /\ op # "connectEstablished" /\ Place(op, x) = ioLoop[x]
    BY DEF Work, Place
  <2> HIDE DEF op
  <2>2. Flow(NoLoop, 0, Place(op, x), Functor(op, x))
    BY <1>6, <2>1 DEF op
  <2>3. Awaits(op, x)' /\ (~Awaits(op, x) => Single(op, x)')
    BY <1>1, <1>3, <2>1, <2>2, FlowAdds
  <2>4. \A o \in Work, c \in Created : <<o, c>> \notin {<<op, x>>} =>
          Functor(o, c) # Functor(op, x)
    BY FunctorsEqual
  <2>5. \A c \in Created : Functor(op, x) # Functor("connectEstablished", c)
    BY <2>1, FunctorsEqual
  <2>6. KeptBut({<<op, x>>})
    BY <1>1, <1>3, <2>2, <2>4, <2>5, FlowKept
  <2> QED
    BY <1>3, <1>4, <1>6, <2>3, <2>6 DEF Unmapped, op
<1> QED
  BY <1>3, <1>5, <1>6

\* The end of a loop.
LEMMA DiscardedBy ==
  ASSUME ServerInv, NEW l \in Loops,
         \/ EndTurn(l) /\ quit_[l] /\ l # BaseLoop
         \/ DestroyBaseLoop /\ l = BaseLoop
  PROVE  Discarded(l)
<1>1. TypeOK /\ Lifecycle /\ Placed
  BY DEF ServerInv
<1>2. /\ Ahead(l) = pendingFunctors_[l]
      /\ Flow(l, Len(Ahead(l)), NoLoop, NoFunctor)
      /\ phase'[l] = "stopped"
      /\ lost' = lost \union Unreached(l)
      /\ UNCHANGED <<connections_, connVars, closing, dropped>>
  <2>1. CASE EndTurn(l) /\ quit_[l] /\ l # BaseLoop
    <3>1. phase' = [phase EXCEPT ![l] = "stopped"] /\ phase \in [Loops -> Phases]
      BY <1>1, <2>1 DEF EndTurn, TypeOK
    <3>2. phase'[l] = "stopped"
      BY <3>1
    <3>3. lost' = lost \union Unreached(l) /\ UNCHANGED <<connections_, connVars, closing, dropped>>
      BY <2>1 DEF EndTurn, mapVars
    <3> QED
      BY <1>1, <2>1, <3>2, <3>3, EndTurnFlow
  <2>2. CASE DestroyBaseLoop /\ l = BaseLoop
    <3>1. phase[l] = "stopped" /\ phase' = phase
      BY <1>1, <2>2 DEF DestroyBaseLoop, Lifecycle
    <3>2. lost' = lost \union Unreached(l) /\ UNCHANGED <<connections_, connVars, closing, dropped>>
      BY <2>2 DEF DestroyBaseLoop, mapVars
    <3> QED
      BY <1>1, <2>2, <3>1, <3>2, EndBaseFlow
  <2> QED
    BY <2>1, <2>2
<1>3. Unreached(l) = {c \in Created : ioLoop[c] = l /\ Awaits("connectDestroyed", c)}
  <2>1. pendingFunctors_[l] \in Seq(FunctorType)
    BY <1>1, QueueTypes
  <2>2. ASSUME NEW g \in Range(pendingFunctors_[l]), g.op = "connectDestroyed"
        PROVE  g.conn \in Created /\ ioLoop[g.conn] = l /\ Awaits("connectDestroyed", g.conn)
    <3>1. PICK i \in 1 .. Len(Ahead(l)) : g = Ahead(l)[i] /\ g \in FunctorType
      BY <1>2, <2>1 DEF Range
    <3>2. g.conn \in Created /\ ioLoop[g.conn] = l
      BY <1>1, <2>2, <3>1 DEF Placed, PlacedAt
    <3>3. g = Functor("connectDestroyed", g.conn)
      BY <2>2, <3>1 DEF FunctorType, Functor
    <3> QED
      BY <3>1, <3>2, <3>3 DEF Awaits, Place, Has
  <2>3. ASSUME NEW c \in Created, ioLoop[c] = l, Awaits("connectDestroyed", c)
        PROVE  c \in Unreached(l)
    <3> DEFINE g == Functor("connectDestroyed", c)
    <3>1. g.op = "connectDestroyed" /\ g.conn = c
      BY DEF Functor
    <3>2. PICK i \in 1 .. Len(Ahead(l)) : Ahead(l)[i] = g
      BY <2>3 DEF Awaits, Place, Has
    <3> HIDE DEF g
    <3>3. g \in Range(pendingFunctors_[l])
      BY <1>2, <2>1, <3>2 DEF Range
    <3> QED
      BY <3>1, <3>3 DEF Unreached
  <2>4. Unreached(l) \subseteq {c \in Created : ioLoop[c] = l /\ Awaits("connectDestroyed", c)}
    BY <2>2 DEF Unreached
  <2> QED
    BY <2>3, <2>4
<1>4. ioLoop' = ioLoop
  BY <1>2 DEF connVars
<1>5. \A k \in Loops : k # NoLoop
  BY DEF NoLoop, Loops
<1>6. ASSUME NEW c \in Created
      PROVE  /\ Ordered(c) => Ordered(c)'
             /\ \A op \in Work : IF Place(op, c) = l THEN ~Awaits(op, c)' /\ Single(op, c)'
                                                     ELSE Kept(op, c)
  <2>1. ASSUME Ordered(c)
        PROVE  Ordered(c)'
    <3> DEFINE g == Functor("connectEstablished", c)
               h == Functor("connectDestroyed", c)
    <3>1. PICK k \in Loops : k = ioLoop[c] /\ k = ioLoop'[c]
      BY <1>1, <1>4 DEF TypeOK, Created
    <3>2. g # h
      BY FunctorsEqual
    <3>3. Before(k, g, h)
      BY <2>1, <3>1 DEF Ordered
    <3> HIDE DEF g, h
    <3>4. Before(k, g, h)'
      BY <1>1, <1>2, <1>5, <3>2, <3>3, BeforeStays
    <3> QED
      BY <3>1, <3>4 DEF Ordered, g, h, Before, Functor
  <2>2. ASSUME NEW op \in Work
        PROVE  IF Place(op, c) = l THEN ~Awaits(op, c)' /\ Single(op, c)' ELSE Kept(op, c)
    <3> DEFINE g == Functor(op, c)
    <3>1. PICK k \in Loops : k = Place(op, c)
      BY <1>1, PlaceIsLoop
    <3>2. Place(op, c)' = k
      BY <1>4, <3>1 DEF Place
    <3> HIDE DEF g
    <3>3. k = l => ~Has(k, g)'
      BY <1>1, <1>2, HasDropped
    <3>4. k # l => (Has(k, g)' <=> Has(k, g)) /\ (Once(k, g) => Once(k, g)')
      BY <1>1, <1>2, <1>5, HasFrom, HasStays, OnceStays
    <3>5. ~Has(k, g)' => Once(k, g)'
      BY DEF Has, Once
    <3>6. /\ Awaits(op, c) <=> Has(k, g)
          /\ Awaits(op, c)' <=> Has(k, g)'
          /\ Single(op, c) <=> Once(k, g)
          /\ Single(op, c)' <=> Once(k, g)'
      BY <3>1, <3>2 DEF Awaits, Single, g, Has, Once, Functor
    <3> QED
      BY <3>1, <3>3, <3>4, <3>5, <3>6 DEF Kept
  <2> QED
    BY <2>1, <2>2
<1> QED
  BY <1>2, <1>3, <1>6 DEF Discarded

\* What a step can be.
LEMMA ConnCases ==
  ASSUME ServerInv, Named, Told, [Next]_vars
  PROVE  \/ Unmoved
         \/ \E x : \/ Accepted(x) \/ ShutDown(x) \/ WentDown(x) \/ Written(x) \/ Established(x)
                   \/ AskedRemoval(x) \/ Removed(x) \/ Destroyed(x) \/ Unmapped(x)
         \/ \E l : Discarded(l)
<1>1. CASE \/ Aside
           \/ \E t \in Starters : StartPool(t)
           \/ \E p \in Callers : QueueSend(p)
           \/ AcceptConnection
           \/ Handling
           \/ \E n \in Names : DestroyConnection(n)
  BY <1>1, UnmovedBy, AcceptedBy, HandledBy, UnmappedBy
<1>2. CASE \E l \in Loops : Swap(l) \/ RunFunctor(l) \/ EndTurn(l) \/ CloseCallback(l)
  BY <1>2, UnmovedBy, RunBy, CloseBy, DiscardedBy
<1>3. CASE DestroyBaseLoop
  BY <1>3, BaseIsLoop, DiscardedBy
<1> QED
  BY <1>1, <1>2, <1>3, NextCases
------------------------------------------------------------------------------
(***************************************************************************)
(* Every step keeps the invariant.                                         *)
(***************************************************************************)

\* The steps that change connection x alone.
OneMoved(x) ==
  \/ ShutDown(x) \/ WentDown(x) \/ Written(x) \/ Established(x) \/ AskedRemoval(x)
  \/ Removed(x) \/ Destroyed(x) \/ Unmapped(x)

\* What one step leaves of connection c.
Same(c) ==
  /\ state_'[c] = state_[c] /\ downs'[c] = downs[c]
  /\ c \in inPoller' <=> c \in inPoller
  /\ c \in watched' => c \in watched
  /\ c \in destroyed' <=> c \in destroyed
  /\ c \in revived' <=> c \in revived
  /\ c \in overwrote' <=> c \in overwrote

\* They leave the others as they are.
LEMMA OthersStay ==
  ASSUME TypeOK, NEW x, OneMoved(x)
  PROVE  /\ x \in Created /\ Created' = Created /\ ioLoop' = ioLoop /\ name_' = name_
         /\ \A c \in Conns \ {x} : Same(c)
         /\ lost' = lost /\ destroyed \subseteq destroyed'
         /\ overwrote \subseteq overwrote' /\ dropped \subseteq dropped'
<1>1. /\ state_ \in [Conns -> States] /\ downs \in [Conns -> Nat]
      /\ watched \subseteq inPoller /\ inPoller \subseteq Created
      /\ \A c \in Created : c \in Conns
  BY DEF TypeOK, Created
<1>2. x \in Created /\ ioLoop' = ioLoop /\ name_' = name_ /\ lost' = lost
      /\ dropped \subseteq dropped'
  BY <1>1 DEF OneMoved, ShutDown, WentDown, Written, Established, AskedRemoval, Removed,
              Destroyed, Unmapped, Displace, connVars, endVars
<1>3. CASE /\ \E s \in States \ {"none"} : state_' = [state_ EXCEPT ![x] = s]
           /\ downs' = downs \/ downs' = [downs EXCEPT ![x] = @ + 1]
           /\ destroyed' = destroyed /\ revived' = revived
           /\ inPoller' = inPoller \/ inPoller' = inPoller \union {x}
           /\ watched' \subseteq watched \union {x}
           /\ overwrote' = overwrote \/ overwrote' = overwrote \union {x}
  <2>1. Created' = Created
    BY <1>2, <1>3, SameCreated
  <2>2. \A c \in Conns \ {x} : Same(c)
    BY <1>1, <1>3 DEF Same
  <2> QED
    BY <1>2, <1>3, <2>1, <2>2
<1>4. CASE UNCHANGED statusVars
  BY <1>2, <1>4 DEF Created, Same, statusVars
<1>5. CASE ConnectDestroyed(x)
  BY <1>2, <1>5, ConnectDestroyedFacts DEF Same
<1>6. CASE ShutDown(x) \/ WentDown(x) \/ Established(x)
  BY <1>3, <1>6 DEF ShutDown, WentDown, Established, ConnectEstablished, States
<1>7. CASE Written(x)
  BY <1>2, <1>7 DEF Written, Created, Same
<1>8. CASE AskedRemoval(x) \/ Removed(x)
  BY <1>4, <1>8 DEF AskedRemoval, Removed, connVars
<1>9. CASE Destroyed(x) \/ Unmapped(x)
  BY <1>4, <1>5, <1>9 DEF Destroyed, Unmapped
<1> QED
  BY <1>6, <1>7, <1>8, <1>9 DEF OneMoved

\* What ConnCases says, with those steps together.
LEMMA MoveCases ==
  ASSUME ServerInv, DestructionInv, [Next]_vars
  PROVE  Unmoved \/ (\E x : Accepted(x) \/ OneMoved(x)) \/ \E l : Discarded(l)
BY ConnCases DEF OneMoved, DestructionInv

\* A loop that has ended has ended for good.
LEMMA StillStopped ==
  ASSUME ServerInv, [Next]_vars, NEW c \in Created
  PROVE  /\ phase[ioLoop[c]] = "stopped" => phase'[ioLoop[c]] = "stopped"
         /\ BaseRuns' => BaseRuns
<1>1. ioLoop[c] \in Loops /\ Created # {}
  BY DEF ServerInv, TypeOK, Created
<1> QED
  BY <1>1, BaseIsLoop, StoppedStays DEF BaseRuns

\* Nothing extraordinary has happened before a step if it has not after it.
LEMMA SureBefore ==
  ASSUME ServerInv, DestructionInv, [Next]_vars
  PROVE  /\ \A c \in Created : c \in Sure' => c \in Sure /\ c \notin dropped'
         /\ dropped \subseteq dropped'
<1>1. TypeOK
  BY DEF ServerInv
<1>2. overwrote \subseteq overwrote' /\ dropped \subseteq dropped'
  <2>1. CASE Unmoved \/ \E l : Discarded(l)
    BY <2>1 DEF Unmoved, Discarded, connVars, statusVars, endVars
  <2>2. CASE \E x : Accepted(x)
    BY <2>2 DEF Accepted
  <2>3. CASE \E x : OneMoved(x)
    BY <1>1, <2>3, OthersStay
  <2> QED
    BY <2>1, <2>2, <2>3, MoveCases
<1> QED
  BY <1>2 DEF Sure

\* The connections nothing extraordinary has happened to are connections.
LEMMA SureTypes ==
  ASSUME NEW c \in Sure
  PROVE  c \in Created /\ c \in Conns /\ c # NoConn /\ c \notin overwrote /\ c \notin dropped
BY DEF Sure, Created, Conns, NoConn

\* removeConnectionInLoop finds its connection.
LEMMA RemovedInMap ==
  ASSUME ServerInv, DestructionInv, NEW x \in Sure, Removed(x)
  PROVE  InMap(x)
<1>1. x \in Created /\ BaseRuns
  BY DEF Removed
<1> QED
  BY <1>1, BaseIsLoop DEF Removed, DestructionInv, Removing, AsksRemoval, IsRemoved

\* What leaves connections_.
LEMMA InMapStep ==
  ASSUME ServerInv, DestructionInv, [Next]_vars
  PROVE  /\ Named'
         /\ \A c \in Created : InMap(c)' => InMap(c)
         /\ \A c \in Created : InMap(c) =>
              InMap(c)' \/ c \in dropped' \/ Removed(c) \/ Unmapped(c)
         /\ \A x : Removed(x) \/ Unmapped(x) => ~InMap(x)'
<1>1. TypeOK /\ Named
  BY DEF ServerInv, DestructionInv
<1>2. connections_' = connections_ /\ name_' = name_ =>
        Named' /\ \A c \in Created : InMap(c)' <=> InMap(c)
  BY <1>1 DEF Named, InMap
<1>3. ASSUME NEW x, Removed(x)
      PROVE  /\ Named' /\ ~InMap(x)'
             /\ \A c \in Created : InMap(c)' => InMap(c)
             /\ \A c \in Created : InMap(c) => InMap(c)' \/ c = x \/ c \in dropped'
  <2>1. /\ x \in Created /\ connections_' = Without(name_[x]) /\ name_' = name_
        /\ Displace(name_[x], x)
    BY <1>3 DEF Removed, connVars
  <2> QED
    BY <1>1, <2>1, ErasedInMap
<1>4. ASSUME NEW x, Unmapped(x)
      PROVE  /\ Named' /\ ~InMap(x)'
             /\ \A c \in Created : InMap(c)' => InMap(c)
             /\ \A c \in Created : InMap(c) => InMap(c)' \/ c = x
  <2>1. /\ x \in Created /\ connections_' = Without(name_[x]) /\ name_' = name_
        /\ InMap(x)
    BY <1>4 DEF Unmapped
  <2> QED
    BY <1>1, <2>1, WithoutInMap
<1>5. \A x : Removed(x) \/ Unmapped(x) => ~InMap(x)'
  BY <1>3, <1>4
<1>6. CASE Unmoved \/ \E l : Discarded(l)
  <2>1. connections_' = connections_ /\ name_' = name_
    BY <1>6 DEF Unmoved, Discarded, connVars
  <2> QED
    BY <1>2, <1>5, <2>1
<1>7. CASE \E x : Accepted(x)
  BY <1>5, <1>7 DEF Accepted
<1>8. CASE \E x : OneMoved(x)
  <2>1. PICK x : OneMoved(x)
    BY <1>8
  <2>2. CASE Removed(x) \/ Unmapped(x)
    BY <1>3, <1>4, <1>5, <2>2
  <2>3. CASE ~Removed(x) /\ ~Unmapped(x)
    <3>1. connections_' = connections_ /\ name_' = name_
      BY <2>1, <2>3 DEF OneMoved, ShutDown, WentDown, Written, Established, AskedRemoval,
                        Destroyed, connVars
    <3> QED
      BY <1>2, <1>5, <3>1
  <2> QED
    BY <2>2, <2>3
<1> QED
  BY <1>6, <1>7, <1>8, MoveCases

\* What KeptBut says of one connection.
LEMMA KeptButUse ==
  ASSUME NEW S, KeptBut(S), NEW c \in Created
  PROVE  /\ Ordered(c) => Ordered(c)'
         /\ \A op \in Work : <<op, c>> \notin S => Kept(op, c)
BY DEF KeptBut

\* The same when nothing is left out.
LEMMA KeptAll ==
  ASSUME KeptBut({}), NEW c \in Created
  PROVE  (Ordered(c) => Ordered(c)') /\ \A op \in Work : Kept(op, c)
BY DEF KeptBut

\* A connection that goes on waiting, or not, to come up.
LEMMA ComesUpStays ==
  ASSUME ServerInv, [Next]_vars, NEW c \in Created, ComesUp(c), ioLoop'[c] = ioLoop[c],
         state_'[c] = "kConnecting" <=> state_[c] = "kConnecting",
         Kept("connectEstablished", c), Ordered(c) => Ordered(c)'
  PROVE  ComesUp(c)'
BY StillStopped DEF ComesUp, Kept

\* Connections go on coming up before they are destroyed.
LEMMA EstablishedFirstStep ==
  ASSUME ServerInv, DestructionInv, [Next]_vars
  PROVE  EstablishedFirst'
<1>1. TypeOK /\ \A c \in Created : ComesUp(c)
  BY DEF ServerInv, DestructionInv, EstablishedFirst
<1>2. "connectEstablished" \in Work
  BY DEF Work
<1> SUFFICES ASSUME NEW c, c \in Created'
             PROVE  ComesUp(c)'
  BY DEF EstablishedFirst
<1>3. CASE Unmoved
  <2>1. c \in Created /\ UNCHANGED <<ioLoop, state_>> /\ KeptBut({})
    BY <1>3 DEF Unmoved, connVars, statusVars, Created
  <2>2. Kept("connectEstablished", c) /\ (Ordered(c) => Ordered(c)')
    BY <1>2, <2>1, KeptAll
  <2> QED
    BY <1>1, <2>1, <2>2, ComesUpStays
<1>4. ASSUME NEW x, Accepted(x)
      PROVE  ComesUp(c)'
  <2>1. c \in Created \/ c = x
    BY <1>4 DEF Accepted
  <2>2. CASE c \in Created
    <3>1. state_'[c] = state_[c] /\ ioLoop'[c] = ioLoop[c] /\ KeptBut({})
      BY <1>4, <2>2 DEF Accepted
    <3>2. Kept("connectEstablished", c) /\ (Ordered(c) => Ordered(c)')
      BY <1>2, <2>2, <3>1, KeptAll
    <3> QED
      BY <1>1, <2>2, <3>1, <3>2, ComesUpStays
  <2>3. CASE c = x
    BY <1>2, <1>4, <2>3 DEF Accepted, ComesUp
  <2> QED
    BY <2>1, <2>2, <2>3
<1>5. ASSUME NEW x, OneMoved(x)
      PROVE  ComesUp(c)'
  <2>1. /\ x \in Created /\ c \in Created /\ c \in Conns /\ ioLoop'[c] = ioLoop[c]
        /\ c # x => state_'[c] = state_[c]
    BY <1>1, <1>5, OthersStay DEF Created, Same
  <2>2. state_ \in [Conns -> States] /\ ComesUp(c) /\ x \in Conns
    BY <1>1, <2>1 DEF TypeOK, Created
  <2>3. CASE Established(x)
    <3>1. CASE c = x
      <4>1. state_'[c] = "kConnected"
        BY <2>2, <2>3, <3>1 DEF Established, ConnectEstablished
      <4>2. Awaits("connectEstablished", c) /\ Single("connectEstablished", c) /\ Ordered(c)
        BY <2>2, <2>3, <3>1 DEF Established, ComesUp
      <4>3. ~Awaits("connectEstablished", c)' /\ Single("connectEstablished", c)'
        BY <2>3, <3>1, <4>2 DEF Established
      <4>4. Ordered(c)'
        BY <2>1, <2>3, <4>2, KeptButUse DEF Established
      <4> QED
        BY <4>1, <4>3, <4>4 DEF ComesUp
    <3>2. CASE c # x
      <4>1. \E S : KeptBut(S) /\ <<"connectEstablished", c>> \notin S
        BY <2>3, <3>2 DEF Established
      <4>2. Kept("connectEstablished", c) /\ (Ordered(c) => Ordered(c)')
        BY <1>2, <2>1, <4>1, KeptButUse
      <4> QED
        BY <2>1, <2>2, <3>2, <4>2, ComesUpStays
    <3> QED
      BY <3>1, <3>2
  <2>4. CASE ~Established(x)
    <3>1. \E S : KeptBut(S) /\ <<"connectEstablished", c>> \notin S
      BY <1>5, <2>4 DEF OneMoved, ShutDown, WentDown, Written, AskedRemoval, Removed,
                        Destroyed, Unmapped
    <3>2. Kept("connectEstablished", c) /\ (Ordered(c) => Ordered(c)')
      BY <1>2, <2>1, <3>1, KeptButUse
    <3>3. state_'[x] = "kConnecting" <=> state_[x] = "kConnecting"
      <4>1. CASE ShutDown(x) \/ WentDown(x)
        BY <1>1, <2>1, <2>2, <4>1
           DEF ShutDown, WentDown, DestructionInv, Told, ToldOf, TypeOK
      <4>2. CASE AskedRemoval(x) \/ Removed(x) \/ Written(x)
        BY <4>2 DEF AskedRemoval, Removed, Written, connVars, statusVars
      <4>3. CASE Destroyed(x) \/ Unmapped(x)
        BY <1>1, <2>1, <4>3, ConnectDestroyedFacts DEF Destroyed, Unmapped, statusVars
      <4> QED
        BY <1>5, <2>4, <4>1, <4>2, <4>3 DEF OneMoved
    <3> QED
      BY <2>1, <2>2, <3>2, <3>3, ComesUpStays
  <2> QED
    BY <2>3, <2>4
<1>6. ASSUME NEW l, Discarded(l)
      PROVE  ComesUp(c)'
  <2>1. c \in Created /\ UNCHANGED <<ioLoop, state_>> /\ phase'[l] = "stopped"
    BY <1>6 DEF Discarded, connVars, statusVars, Created
  <2>2. /\ Ordered(c) => Ordered(c)'
        /\ IF ioLoop[c] = l
             THEN ~Awaits("connectEstablished", c)' /\ Single("connectEstablished", c)'
             ELSE Kept("connectEstablished", c)
    BY <1>2, <1>6, <2>1 DEF Discarded, Place
  <2>3. CASE ioLoop[c] = l
    BY <1>1, <2>1, <2>2, <2>3 DEF ComesUp
  <2>4. CASE ioLoop[c] # l
    BY <1>1, <2>1, <2>2, <2>4, ComesUpStays
  <2> QED
    BY <2>3, <2>4
<1> QED
  BY <1>3, <1>4, <1>5, <1>6, MoveCases

\* connectDestroyed does not come before connectEstablished.
LEMMA UpBeforeDestroyed ==
  ASSUME ServerInv, DestructionInv, NEW x,
         Destroyed(x) \/ (Unmapped(x) /\ ioLoop[x] = BaseLoop)
  PROVE  state_[x] \in {"kConnected", "kDisconnecting", "kDisconnected"}
<1>1. /\ x \in Created /\ ComesUp(x) /\ ioLoop[x] \in Loops /\ TypeOK
      /\ state_[x] \in States \ {"none"}
  BY DEF ServerInv, DestructionInv, EstablishedFirst, Destroyed, Unmapped, Created, TypeOK
<1>2. ASSUME state_[x] = "kConnecting"
      PROVE  FALSE
  <2>1. ioLoop[x] # BaseLoop /\ Destroyed(x)
    BY <1>1, <1>2 DEF ComesUp
  <2>2. phase[ioLoop[x]] = "run" /\ Ahead(ioLoop[x])[1] = Functor("connectDestroyed", x)
        /\ Awaits("connectDestroyed", x)
    BY <2>1 DEF Destroyed
  <2>3. Awaits("connectEstablished", x) /\ Ordered(x)
    BY <1>1, <1>2, <2>2 DEF ComesUp
  <2>4. PICK k \in Loops : k = ioLoop[x]
    BY <1>1
  <2>5. PICK i \in 1 .. Len(Ahead(k)) : Ahead(k)[i] = Functor("connectEstablished", x)
    BY <2>3, <2>4 DEF Awaits, Place, Has
  <2>6. Len(Ahead(k)) \in Nat /\ 1 \in 1 .. Len(Ahead(k))
    BY <1>1, <2>5, QueueTypes
  <2>7. i < 1
    BY <2>2, <2>3, <2>4, <2>5, <2>6 DEF Ordered, Before
  <2> QED
    BY <2>6, <2>7
<1> QED
  BY <1>1, <1>2 DEF States

\* Users go on being told of the end.
LEMMA ToldStep ==
  ASSUME ServerInv, DestructionInv, [Next]_vars
  PROVE  Told'
<1>1. /\ TypeOK /\ \A c \in Created : c \in Conns
      /\ state_ \in [Conns -> States] /\ downs \in [Conns -> Nat]
      /\ watched \subseteq inPoller /\ inPoller \subseteq Created
      /\ destroyed \subseteq Created /\ overwrote \subseteq Created
      /\ Told /\ EstablishedFirst
  BY DEF ServerInv, DestructionInv, TypeOK, Created
<1>2. CASE Unmoved \/ \E l : Discarded(l)
  <2>1. UNCHANGED statusVars
    BY <1>2 DEF Unmoved, Discarded, connVars
  <2> QED
    BY <1>1, <2>1 DEF Told, ToldOf, Created, statusVars
<1>3. ASSUME NEW x, Accepted(x)
      PROVE  Told'
  <2>1. /\ x \in Conns \ Created /\ Created' = Created \union {x}
        /\ \A c \in Created : state_'[c] = state_[c]
        /\ UNCHANGED <<downs, destroyed, revived, overwrote>>
        /\ \/ /\ state_'[x] = "kConnected"
              /\ inPoller' = inPoller \union {x} /\ watched' = watched \union {x}
           \/ state_'[x] = "kConnecting" /\ UNCHANGED <<inPoller, watched>>
    BY <1>3 DEF Accepted
  <2>2. downs[x] = 0 /\ x \notin destroyed \union overwrote \union inPoller \union watched
    BY <1>1, <2>1 DEF Told
  <2>3. ToldOf(x)'
    BY <2>1, <2>2 DEF ToldOf
  <2>4. ASSUME NEW c \in Created
        PROVE  ToldOf(c)'
    <3>1. c # x /\ ToldOf(c)
      BY <1>1, <2>1 DEF Told
    <3> QED
      BY <2>1, <3>1 DEF ToldOf
  <2> QED
    BY <1>1, <2>1, <2>3, <2>4 DEF Told
<1>4. ASSUME NEW x, OneMoved(x)
      PROVE  Told'
  <2>1. /\ x \in Created /\ x \in Conns /\ Created' = Created
        /\ \A c \in Conns \ {x} : Same(c)
    BY <1>1, <1>4, OthersStay
  <2>2. ToldOf(x) /\ downs[x] \in Nat
    BY <1>1, <2>1 DEF Told
  <2>3. \A c \in Created \ {x} : ToldOf(c)'
    BY <1>1, <2>1 DEF Told, ToldOf, Same
  <2>4. SUFFICES ToldOf(x)'
    <3>1. \A c \in Conns \ Created : downs'[c] = 0
      BY <1>1, <2>1 DEF Told, Same
    <3> QED
      BY <2>1, <2>3, <3>1 DEF Told
  <2>5. CASE ShutDown(x)
    BY <1>1, <2>1, <2>2, <2>5 DEF ShutDown, ToldOf
  <2>6. CASE WentDown(x)
    BY <1>1, <2>1, <2>2, <2>6 DEF WentDown, ToldOf
  <2>7. CASE Written(x)
    BY <1>1, <2>1, <2>2, <2>7 DEF Written, ToldOf
  <2>8. CASE Established(x)
    <3>1. state_[x] = "kConnecting"
      BY <1>1, <2>1, <2>8 DEF Established, EstablishedFirst, ComesUp
    <3>2. state_'[x] = "kConnected"
      BY <1>1, <2>1, <2>8 DEF Established, ConnectEstablished
    <3>3. UNCHANGED <<downs, destroyed, overwrote>>
      BY <2>8 DEF Established, ConnectEstablished
    <3> QED
      BY <2>2, <3>1, <3>2, <3>3 DEF ToldOf
  <2>9. CASE Destroyed(x) \/ (Unmapped(x) /\ ioLoop[x] = BaseLoop /\ ConnectDestroyed(x))
    <3>1. state_[x] \in {"kConnected", "kDisconnecting", "kDisconnected"}
      BY <2>9, UpBeforeDestroyed
    <3>2. ConnectDestroyed(x)
      BY <2>9 DEF Destroyed
    <3>3. /\ x \notin inPoller' /\ x \notin watched' /\ overwrote' = overwrote
          /\ \/ /\ state_[x] = "kConnected" /\ state_'[x] = "kDisconnected"
                /\ downs'[x] = downs[x] + 1
             \/ /\ state_[x] # "kConnected" /\ state_'[x] = state_[x]
                /\ downs'[x] = downs[x]
      BY <1>1, <2>1, <3>2, ConnectDestroyedFacts
    <3> QED
      BY <2>2, <3>1, <3>3 DEF ToldOf
  <2>10. CASE UNCHANGED statusVars
    BY <2>2, <2>10 DEF ToldOf, statusVars
  <2> QED
    BY <1>4, <2>5, <2>6, <2>7, <2>8, <2>9, <2>10
       DEF OneMoved, AskedRemoval, Removed, Unmapped, connVars
<1> QED
  BY <1>2, <1>3, <1>4, MoveCases

\* The destruction of a connection that is not concerned, but perhaps dropped.
LEMMA EndsStays ==
  ASSUME ServerInv, DestructionInv, [Next]_vars, NEW c \in Created, ioLoop'[c] = ioLoop[c],
         c \in destroyed' <=> c \in destroyed, c \in lost' <=> c \in lost,
         ~Removed(c), ~Unmapped(c), Kept("connectDestroyed", c)
  PROVE  Ends(c)'
<1>1. Ends(c) /\ (c \in Sure' => c \in Sure) /\ dropped \subseteq dropped'
  BY SureBefore DEF DestructionInv, Destruction
<1>2. (InMap(c)' => InMap(c)) /\ (InMap(c) => InMap(c)' \/ c \in dropped')
  BY InMapStep
<1>3. phase[ioLoop[c]] = "stopped" => phase'[ioLoop[c]] = "stopped"
  BY StillStopped
<1> QED
  BY <1>1, <1>2, <1>3 DEF Ends, Kept

\* Destruction goes on being ahead until it is over.
LEMMA DestructionStep ==
  ASSUME ServerInv, DestructionInv, [Next]_vars
  PROVE  Destruction'
<1>1. /\ TypeOK /\ \A c \in Created : Ends(c)
      /\ destroyed \subseteq Created /\ lost \subseteq Created /\ dropped \subseteq Created
  BY DEF ServerInv, DestructionInv, Destruction, TypeOK
<1>2. "connectDestroyed" \in Work
  BY DEF Work
<1> SUFFICES ASSUME NEW c, c \in Created'
             PROVE  Ends(c)'
  BY DEF Destruction
<1>3. ASSUME c \in Created
      PROVE  /\ Ends(c) /\ (c \in Sure' => c \in Sure)
             /\ InMap(c)' => InMap(c)
             /\ Removed(c) \/ Unmapped(c) => ~InMap(c)'
             /\ phase[ioLoop[c]] = "stopped" => phase'[ioLoop[c]] = "stopped"
  BY <1>1, <1>3, SureBefore, InMapStep, StillStopped
<1>4. CASE Removed(c)
  <2>1. /\ c \in Created /\ ioLoop' = ioLoop
        /\ UNCHANGED <<destroyed, lost>>
        /\ Awaits("connectDestroyed", c)'
        /\ ~Awaits("connectDestroyed", c) => Single("connectDestroyed", c)'
    BY <1>4 DEF Removed, connVars, statusVars
  <2>2. c \in Sure => InMap(c)
    BY <1>4, RemovedInMap
  <2>3. c \in Sure => c \notin destroyed \union lost /\ ~Awaits("connectDestroyed", c)
    BY <1>3, <2>1, <2>2 DEF Ends
  <2> QED
    BY <1>3, <1>4, <2>1, <2>3 DEF Ends
<1>5. CASE Destroyed(c)
  <2>1. /\ c \in Created /\ ioLoop' = ioLoop /\ lost' = lost
        /\ destroyed' = destroyed \union {c}
        /\ Awaits("connectDestroyed", c)
        /\ Single("connectDestroyed", c) =>
             ~Awaits("connectDestroyed", c)' /\ Single("connectDestroyed", c)'
    BY <1>5 DEF Destroyed, ConnectDestroyed, endVars
  <2>2. ~InMap(c) /\ (c \in Sure => Single("connectDestroyed", c))
    BY <1>3, <2>1 DEF Ends
  <2> QED
    BY <1>3, <2>1, <2>2 DEF Ends
<1>6. CASE Unmapped(c)
  <2>1. c \in Created /\ InMap(c) /\ UNCHANGED <<ioLoop, lost>>
    BY <1>6 DEF Unmapped, endVars
  <2>2. /\ c \notin destroyed \union lost /\ ~Awaits("connectDestroyed", c)
        /\ c \in Sure => Single("connectDestroyed", c)
    BY <1>3, <2>1 DEF Ends
  <2>3. CASE ConnectDestroyed(c) /\ KeptBut({})
    <3>1. destroyed' = destroyed \union {c}
      BY <2>3 DEF ConnectDestroyed
    <3>2. Kept("connectDestroyed", c)
      BY <1>2, <2>1, <2>3, KeptAll
    <3>3. ~Awaits("connectDestroyed", c)'
          /\ (c \in Sure => Single("connectDestroyed", c)')
      BY <2>2, <3>2 DEF Kept
    <3> QED
      BY <1>3, <1>6, <2>1, <2>2, <3>1, <3>3 DEF Ends
  <2>4. CASE /\ destroyed' = destroyed /\ Awaits("connectDestroyed", c)'
             /\ ~Awaits("connectDestroyed", c) => Single("connectDestroyed", c)'
    BY <1>3, <1>6, <2>1, <2>2, <2>4 DEF Ends
  <2> QED
    BY <1>6, <2>3, <2>4 DEF Unmapped, statusVars
<1>7. ASSUME NEW x, Accepted(x), ~Removed(c), ~Unmapped(c)
      PROVE  Ends(c)'
  <2>1. c \in Created \/ c = x
    BY <1>7 DEF Accepted
  <2>2. CASE c \in Created
    <3>1. ioLoop'[c] = ioLoop[c] /\ UNCHANGED <<destroyed, lost>> /\ KeptBut({})
      BY <1>7, <2>2 DEF Accepted
    <3>2. Kept("connectDestroyed", c)
      BY <1>2, <2>2, <3>1, KeptAll
    <3> QED
      BY <1>7, <2>2, <3>1, <3>2, EndsStays
  <2>3. CASE c = x
    <3>1. c \notin destroyed' \union lost'
      BY <1>1, <1>7, <2>3 DEF Accepted
    <3>2. InMap(c)' /\ ~Awaits("connectDestroyed", c)' /\ Single("connectDestroyed", c)'
      BY <1>2, <1>7, <2>3 DEF Accepted
    <3> QED
      BY <3>1, <3>2 DEF Ends
  <2> QED
    BY <2>1, <2>2, <2>3
<1>8. ASSUME NEW x, OneMoved(x), ~Removed(c), ~Destroyed(c), ~Unmapped(c)
      PROVE  Ends(c)'
  <2>1. /\ c \in Created /\ c \in Conns /\ ioLoop' = ioLoop /\ lost' = lost
        /\ c # x => (c \in destroyed' <=> c \in destroyed)
    BY <1>1, <1>8, OthersStay DEF Same, Created
  <2>2. c = x => destroyed' = destroyed
    BY <1>8 DEF OneMoved, ShutDown, WentDown, Written, Established, ConnectEstablished,
                AskedRemoval, connVars, statusVars
  <2>3. \E S : KeptBut(S) /\ <<"connectDestroyed", c>> \notin S
    <3>1. CASE Removed(x) \/ Destroyed(x) \/ Unmapped(x)
      <4>1. c # x
        BY <1>8, <3>1
      <4> QED
        BY <3>1, <4>1 DEF Removed, Destroyed, Unmapped
    <3>2. CASE ShutDown(x) \/ WentDown(x) \/ Written(x) \/ Established(x) \/ AskedRemoval(x)
      BY <3>2 DEF ShutDown, WentDown, Written, Established, AskedRemoval
    <3> QED
      BY <1>8, <3>1, <3>2 DEF OneMoved
  <2>4. Kept("connectDestroyed", c)
    BY <1>2, <2>1, <2>3, KeptButUse
  <2> QED
    BY <1>8, <2>1, <2>2, <2>4, EndsStays
<1>9. ASSUME Unmoved, ~Removed(c), ~Unmapped(c)
      PROVE  Ends(c)'
  <2>1. c \in Created /\ UNCHANGED <<ioLoop, destroyed, lost>> /\ KeptBut({})
    BY <1>9 DEF Unmoved, connVars, statusVars, endVars, Created
  <2>2. Kept("connectDestroyed", c)
    BY <1>2, <2>1, KeptAll
  <2> QED
    BY <1>9, <2>1, <2>2, EndsStays
<1>10. ASSUME NEW l, Discarded(l), ~Removed(c), ~Unmapped(c)
       PROVE  Ends(c)'
  <2>1. /\ c \in Created /\ UNCHANGED <<ioLoop, destroyed, dropped>>
        /\ phase'[l] = "stopped"
        /\ lost' = lost \union {d \in Created : ioLoop[d] = l /\ Awaits("connectDestroyed", d)}
    BY <1>10 DEF Discarded, connVars, statusVars, Created
  <2>2. IF ioLoop[c] = l
          THEN ~Awaits("connectDestroyed", c)' /\ Single("connectDestroyed", c)'
          ELSE Kept("connectDestroyed", c)
    BY <1>2, <1>10, <2>1 DEF Discarded, Place
  <2>3. CASE ioLoop[c] = l
    <3>1. c \in lost' <=> c \in lost \/ Awaits("connectDestroyed", c)
      BY <2>1, <2>3
    <3>2. InMap(c) => InMap(c)'
      BY <1>10, <2>1 DEF Discarded, InMap, connVars
    <3> QED
      BY <1>3, <2>1, <2>2, <2>3, <3>1, <3>2 DEF Ends
  <2>4. CASE ioLoop[c] # l
    <3>1. c \in lost' <=> c \in lost
      BY <2>1, <2>4
    <3> QED
      BY <1>10, <2>1, <2>2, <2>4, <3>1, EndsStays
  <2> QED
    BY <2>3, <2>4
<1> QED
  BY <1>4, <1>5, <1>6, <1>7, <1>8, <1>9, <1>10, MoveCases

\* A connection leaves connections_ by removeConnectionInLoop alone while the base loop
\* runs, if no other one takes its place.
LEMMA StaysInMap ==
  ASSUME ServerInv, DestructionInv, [Next]_vars, NEW c \in Created, c \in Sure',
         ~Removed(c), BaseRuns, InMap(c)
  PROVE  InMap(c)'
<1>1. c \notin dropped'
  BY SureBefore
<1>2. ~Unmapped(c)
  BY DEF Unmapped
<1> QED
  BY <1>1, <1>2, InMapStep

\* What becomes of a connection that neither goes down nor is being removed.
LEMMA StillRemoving ==
  ASSUME ServerInv, DestructionInv, [Next]_vars, NEW c \in Created, c \in Sure',
         ~Removed(c), ~WentDown(c), ~AskedRemoval(c)
  PROVE  /\ state_[c] = "kDisconnected" => state_'[c] = "kDisconnected"
         /\ \/ Kept("removeConnectionInLoop", c)
            \/ /\ ~BaseRuns' /\ ~Awaits("removeConnectionInLoop", c)'
               /\ Single("removeConnectionInLoop", c)'
<1> DEFINE op == "removeConnectionInLoop"
<1>1. /\ TypeOK /\ op \in Work /\ c \in Conns /\ c \notin overwrote'
      /\ state_ \in [Conns -> States] /\ EstablishedFirst
  BY DEF ServerInv, DestructionInv, TypeOK, Work, Created, Sure
<1> HIDE DEF op
<1>2. CASE Unmoved
  <2>1. state_' = state_ /\ KeptBut({})
    BY <1>2 DEF Unmoved, connVars, statusVars
  <2>2. Kept(op, c)
    BY <1>1, <2>1, KeptAll
  <2> QED
    BY <2>1, <2>2 DEF op
<1>3. ASSUME NEW x, Accepted(x)
      PROVE  state_'[c] = state_[c] /\ Kept(op, c)
  <2>1. state_'[c] = state_[c] /\ KeptBut({})
    BY <1>3 DEF Accepted
  <2> QED
    BY <1>1, <2>1, KeptAll
<1>4. ASSUME NEW x, OneMoved(x)
      PROVE  Kept(op, c) /\ (state_[c] = "kDisconnected" => state_'[c] = "kDisconnected")
  <2>1. Kept(op, c)
    <3>1. CASE AskedRemoval(x) \/ Removed(x)
      <4>1. c # x
        BY <3>1
      <4>2. \E S : KeptBut(S) /\ <<op, c>> \notin S
        BY <3>1, <4>1 DEF AskedRemoval, Removed
      <4> QED
        BY <1>1, <4>2, KeptButUse
    <3>2. CASE \/ ShutDown(x) \/ WentDown(x) \/ Written(x) \/ Established(x) \/ Destroyed(x)
               \/ Unmapped(x)
      <4>1. \E S : KeptBut(S) /\ <<op, c>> \notin S
        BY <3>2 DEF ShutDown, WentDown, Written, Established, Destroyed, Unmapped, op
      <4> QED
        BY <1>1, <4>1, KeptButUse
    <3> QED
      BY <1>4, <3>1, <3>2 DEF OneMoved
  <2>2. CASE c # x
    BY <1>1, <1>4, <2>1, <2>2, OthersStay DEF Same
  <2>3. CASE c = x
    <3>1. CASE ShutDown(x)
      BY <1>1, <2>1, <2>3, <3>1 DEF ShutDown
    <3>2. CASE Written(x)
      BY <2>1, <2>3, <3>2 DEF Written
    <3>3. CASE Established(x)
      BY <1>1, <2>1, <2>3, <3>3 DEF Established, EstablishedFirst, ComesUp
    <3>4. CASE Destroyed(x) \/ Unmapped(x)
      BY <1>1, <2>1, <2>3, <3>4, ConnectDestroyedFacts DEF Destroyed, Unmapped, statusVars
    <3> QED
      BY <1>4, <2>1, <2>3, <3>1, <3>2, <3>3, <3>4 DEF OneMoved
  <2> QED
    BY <2>1, <2>2, <2>3
<1>5. ASSUME NEW l, Discarded(l)
      PROVE  /\ state_' = state_
             /\ \/ Kept(op, c)
                \/ ~BaseRuns' /\ ~Awaits(op, c)' /\ Single(op, c)'
  <2>1. state_' = state_ /\ phase'[l] = "stopped"
    BY <1>5 DEF Discarded, connVars, statusVars
  <2>2. IF l = BaseLoop THEN ~Awaits(op, c)' /\ Single(op, c)' ELSE Kept(op, c)
    BY <1>1, <1>5 DEF Discarded, Place, op
  <2> QED
    BY <2>1, <2>2 DEF BaseRuns
<1> QED
  BY <1>2, <1>3, <1>4, <1>5, MoveCases DEF op

\* When a connection goes down it is in connections_ and no removal is asked for.
LEMMA GoesDown ==
  ASSUME ServerInv, DestructionInv, [Next]_vars, NEW x \in Created, x \in Sure', WentDown(x)
  PROVE  /\ state_'[x] = "kDisconnected" /\ closing'[ioLoop[x]] = x
         /\ \A l \in Loops \ {ioLoop[x]} : closing'[l] = closing[l]
         /\ ~Awaits("removeConnectionInLoop", x)' /\ Single("removeConnectionInLoop", x)'
         /\ BaseRuns' => InMap(x)'
<1>1. /\ x \in Sure /\ x \in Conns /\ ioLoop[x] \in Loops /\ state_ \in [Conns -> States]
      /\ closing \in [Loops -> Conns \union {NoConn}] /\ x \in watched
  BY SureBefore DEF ServerInv, TypeOK, Created, WentDown
<1>2. IsRemoved(x) /\ state_[x] # "kDisconnected"
  BY <1>1 DEF DestructionInv, Removing, Told, ToldOf
<1>3. /\ state_'[x] = "kDisconnected" /\ closing'[ioLoop[x]] = x
      /\ \A l \in Loops \ {ioLoop[x]} : closing'[l] = closing[l]
  BY <1>1 DEF WentDown
<1>4. "removeConnectionInLoop" \in Work /\ KeptBut({})
  BY DEF Work, WentDown
<1>5. Kept("removeConnectionInLoop", x)
  BY <1>4, KeptAll
<1>6. ~Removed(x)
  BY <1>2, <1>3 DEF Removed, connVars, statusVars
<1>7. BaseRuns' => InMap(x)'
  BY <1>2, <1>6, StillStopped, StaysInMap DEF IsRemoved
<1> QED
  BY <1>2, <1>3, <1>5, <1>7 DEF IsRemoved, Kept

\* What is being removed is down, and nothing more is asked for.
LEMMA IsDown ==
  ASSUME ServerInv, DestructionInv, [Next]_vars, NEW x \in Created, x \in Sure',
         AskedRemoval(x) \/ Removed(x)
  PROVE  /\ state_'[x] = "kDisconnected" /\ Single("removeConnectionInLoop", x)'
         /\ AskedRemoval(x) => InMap(x) \/ ~BaseRuns
         /\ Removed(x) => ~Awaits("removeConnectionInLoop", x)'
         /\ \A l \in Loops : closing'[l] = x => closing[l] # x
<1> DEFINE op == "removeConnectionInLoop"
<1>1. /\ x \in Sure /\ x # NoConn /\ ioLoop[x] \in Loops /\ BaseLoop \in Loops
      /\ closing \in [Loops -> Conns \union {NoConn}]
      /\ \A l \in Loops : closing[l] = x => ioLoop[x] = l
  <2>1. x \in Sure
    BY SureBefore
  <2>2. x \in Conns /\ x # NoConn
    BY <2>1, SureTypes
  <2>3. TypeOK /\ ClosingPlaced
    BY DEF ServerInv
  <2>4. ioLoop[x] \in Loops /\ closing \in [Loops -> Conns \union {NoConn}]
    BY <2>2, <2>3 DEF TypeOK
  <2>5. \A l \in Loops : closing[l] = x => ioLoop[x] = l
    BY <2>2, <2>3 DEF ClosingPlaced
  <2> QED
    BY <2>1, <2>2, <2>4, <2>5, BaseIsLoop
<1>2. IsRemoved(x) /\ \A l \in Loops : AsksRemoval(l)
  BY <1>1 DEF DestructionInv, Removing
<1>3. state_' = state_
  BY DEF AskedRemoval, Removed, connVars, statusVars
<1>4. \A l \in Loops : closing[l] = x =>
        /\ state_[x] = "kDisconnected" /\ (BaseRuns => InMap(x))
        /\ ~Awaits(op, x)
  BY <1>1, <1>2 DEF AsksRemoval
<1> HIDE DEF op
<1>5. CASE AskedRemoval(x)
  <2>1. /\ closing[ioLoop[x]] = x
        /\ closing' = [closing EXCEPT ![ioLoop[x]] = NoConn]
        /\ ~Awaits(op, x) => Single(op, x)'
    BY <1>5 DEF AskedRemoval, op
  <2>2. Single(op, x)' /\ state_[x] = "kDisconnected" /\ (BaseRuns => InMap(x))
    BY <1>1, <1>4, <2>1
  <2>3. \A l \in Loops : closing'[l] = x => closing[l] # x
    BY <1>1, <2>1
  <2>4. ~Removed(x)
    <3>1. closing' # closing
      BY <1>1, <2>1
    <3>2. ioLoop[x] # BaseLoop
      BY <1>5 DEF AskedRemoval
    <3> QED
      BY <3>1, <3>2 DEF Removed
  <2> QED
    BY <1>3, <2>2, <2>3, <2>4 DEF op
<1>6. CASE Removed(x)
  <2>1. CASE /\ closing' = closing /\ Awaits(op, x)
             /\ Single(op, x) => ~Awaits(op, x)' /\ Single(op, x)'
    <3>1. state_[x] = "kDisconnected" /\ Single(op, x)
      BY <1>2, <2>1 DEF IsRemoved, op
    <3>2. \A l \in Loops : closing[l] # x
      BY <1>4, <2>1
    <3>3. ~AskedRemoval(x)
      BY <1>1, <3>2 DEF AskedRemoval
    <3> QED
      BY <1>3, <2>1, <3>1, <3>2, <3>3 DEF op
  <2>2. CASE /\ ioLoop[x] = BaseLoop /\ closing[BaseLoop] = x
             /\ closing' = [closing EXCEPT ![BaseLoop] = NoConn]
             /\ Kept(op, x)
    <3>1. state_[x] = "kDisconnected" /\ ~Awaits(op, x) /\ Single(op, x)
      BY <1>1, <1>2, <1>4, <2>2 DEF IsRemoved, op
    <3>2. ~Awaits(op, x)' /\ Single(op, x)'
      BY <2>2, <3>1 DEF Kept
    <3>3. \A l \in Loops : closing'[l] = x => closing[l] # x
      BY <1>1, <2>2
    <3>4. ~AskedRemoval(x)
      BY <2>2 DEF AskedRemoval
    <3> QED
      BY <1>3, <3>1, <3>2, <3>3, <3>4 DEF op
  <2> QED
    BY <1>6, <2>1, <2>2 DEF Removed, op
<1> QED
  BY <1>5, <1>6

\* A loop that is about to ask for a removal.
LEMMA AsksIf ==
  ASSUME NEW l, NEW c, closing'[l] = c, state_'[c] = "kDisconnected",
         ~Awaits("removeConnectionInLoop", c)', BaseRuns' => InMap(c)'
  PROVE  AsksRemoval(l)'
BY DEF AsksRemoval, InMap, Awaits, Place, Has, Functor

\* Connections that go down stay in connections_ until they are removed.
LEMMA RemovingStep ==
  ASSUME ServerInv, DestructionInv, [Next]_vars
  PROVE  Removing'
<1> DEFINE op == "removeConnectionInLoop"
<1>1. /\ TypeOK /\ \A c \in Sure : IsRemoved(c)
      /\ \A l \in Loops : AsksRemoval(l)
      /\ \A l \in Loops :
           closing[l] # NoConn => closing[l] \in Created /\ ioLoop[closing[l]] = l
      /\ \A c \in Created : c \in Sure' => c \in Sure
  BY SureBefore DEF ServerInv, DestructionInv, Removing, ClosingPlaced
<1>2. ASSUME NEW c \in Created, c \in Sure'
      PROVE  IsRemoved(c)'
  <2>1. IsRemoved(c) /\ (BaseRuns' => BaseRuns)
    BY <1>1, <1>2, StillStopped
  <2>2. CASE Removed(c)
    BY <1>2, <2>2, IsDown DEF IsRemoved
  <2>3. CASE WentDown(c)
    BY <1>2, <2>3, GoesDown DEF IsRemoved
  <2>4. CASE AskedRemoval(c) /\ ~Removed(c)
    <3>1. state_'[c] = "kDisconnected" /\ Single(op, c)' /\ (InMap(c) \/ ~BaseRuns)
      BY <1>2, <2>4, IsDown
    <3>2. BaseRuns' => InMap(c)'
      BY <1>2, <2>1, <2>4, <3>1, StaysInMap
    <3> QED
      BY <3>1, <3>2 DEF IsRemoved
  <2>5. CASE ~Removed(c) /\ ~WentDown(c) /\ ~AskedRemoval(c)
    <3>1. /\ state_[c] = "kDisconnected" => state_'[c] = "kDisconnected"
          /\ \/ Kept(op, c)
             \/ ~BaseRuns' /\ ~Awaits(op, c)' /\ Single(op, c)'
      BY <1>2, <2>5, StillRemoving
    <3>2. BaseRuns /\ InMap(c) => InMap(c)'
      BY <1>2, <2>5, StaysInMap
    <3> QED
      BY <2>1, <3>1, <3>2 DEF IsRemoved, Kept
  <2> QED
    BY <2>2, <2>3, <2>4, <2>5
<1>3. ASSUME NEW c, c \in Sure', c \notin Created
      PROVE  IsRemoved(c)'
  <2>1. Created' = Created \/ \E x : Accepted(x)
    <3>1. CASE Unmoved \/ \E l : Discarded(l)
      BY <3>1 DEF Unmoved, Discarded, connVars, statusVars, Created
    <3>2. CASE \E x : OneMoved(x)
      BY <1>1, <3>2, OthersStay
    <3> QED
      BY <3>1, <3>2, MoveCases
  <2>2. PICK x : Accepted(x)
    BY <1>3, <2>1 DEF Sure
  <2>3. c = x /\ op \in Work
    BY <1>3, <2>2 DEF Sure, Accepted, Work
  <2>4. InMap(c)' /\ Single(op, c)' /\ ~Awaits(op, c)'
    BY <2>2, <2>3 DEF Accepted
  <2> QED
    BY <2>4 DEF IsRemoved
<1>4. ASSUME NEW l \in Loops
      PROVE  AsksRemoval(l)'
  <2>1. PICK c : c = closing'[l]
    OBVIOUS
  <2>2. SUFFICES ASSUME c \in Sure'
                 PROVE  AsksRemoval(l)'
    BY <2>1 DEF AsksRemoval
  <2>3. c # NoConn
    BY <2>2 DEF Sure, Created, Conns, NoConn
  <2>4. CASE closing[l] = c
    <3>1. c \in Created /\ ioLoop[c] = l /\ AsksRemoval(l) /\ c \in Sure
      BY <1>1, <2>2, <2>3, <2>4
    <3>2. state_[c] = "kDisconnected" /\ ~Awaits(op, c) /\ (BaseRuns => InMap(c))
      BY <2>4, <3>1 DEF AsksRemoval
    <3>3. ~Removed(c) /\ ~AskedRemoval(c)
      BY <2>1, <2>2, <2>4, <3>1, IsDown
    <3>4. ~WentDown(c)
      BY <3>1, <3>2 DEF WentDown, DestructionInv, Told, ToldOf
    <3>5. /\ state_'[c] = "kDisconnected"
          /\ Kept(op, c) \/ ~Awaits(op, c)'
      BY <2>2, <3>1, <3>2, <3>3, <3>4, StillRemoving
    <3>6. ~Awaits(op, c)'
      BY <3>2, <3>5 DEF Kept
    <3>7. BaseRuns' => InMap(c)'
      BY <2>2, <3>1, <3>2, <3>3, StillStopped, StaysInMap
    <3> QED
      BY <2>1, <3>5, <3>6, <3>7, AsksIf
  <2>5. CASE closing[l] # c
    <3>1. \E x : OneMoved(x)
      BY <2>1, <2>5, MoveCases DEF Unmoved, Accepted, Discarded
    <3>2. PICK x : OneMoved(x)
      BY <3>1
    <3>3. x \in Created /\ ioLoop[x] \in Loops
          /\ closing \in [Loops -> Conns \union {NoConn}]
      BY <1>1, <3>2, OthersStay DEF TypeOK, Created
    <3>4. WentDown(x) /\ c = x /\ l = ioLoop[x]
      <4>1. CASE WentDown(x)
        BY <2>1, <2>5, <3>3, <4>1 DEF WentDown
      <4>2. CASE closing' = closing
        BY <2>1, <2>5, <4>2
      <4>3. CASE AskedRemoval(x) \/ Removed(x)
        BY <2>1, <2>3, <2>5, <3>3, <4>3 DEF AskedRemoval, Removed
      <4> QED
        BY <3>2, <4>1, <4>2, <4>3
           DEF OneMoved, ShutDown, Written, Established, Destroyed, Unmapped
    <3>5. /\ state_'[c] = "kDisconnected" /\ ~Awaits(op, c)' /\ (BaseRuns' => InMap(c)')
      BY <2>2, <3>3, <3>4, GoesDown
    <3> QED
      BY <2>1, <3>5, AsksIf
  <2> QED
    BY <2>4, <2>5
<1> QED
  BY <1>2, <1>3, <1>4 DEF Removing

\* While the base loop runs, what a send() finds destroyed is down.
LEMMA LateStep ==
  ASSUME ServerInv, DestructionInv, [Next]_vars
  PROVE  Late'
<1>1. /\ TypeOK /\ revived \subseteq Created /\ Removing /\ Destruction /\ Late
      /\ \A c \in Created : c \in Conns
  BY DEF ServerInv, DestructionInv, TypeOK, Created
<1> SUFFICES ASSUME BaseRuns', NEW c, c \in Sure', c \in revived'
             PROVE  FALSE
  BY DEF Late
<1>2. ASSUME c \in revived
      PROVE  FALSE
  <2>1. c \in Created /\ c \in Sure /\ BaseRuns
    BY <1>1, <1>2, SureBefore, StillStopped
  <2> QED
    BY <1>1, <1>2, <2>1 DEF Late
<1>3. ASSUME NEW x, OneMoved(x), c \notin revived
      PROVE  FALSE
  <2>1. x \in Created /\ Created' = Created /\ \A d \in Conns \ {x} : Same(d)
    BY <1>1, <1>3, OthersStay
  <2>2. c \in Created /\ c = x
    BY <1>1, <1>3, <2>1 DEF Sure, Same
  <2>3. c \in Sure /\ BaseRuns
    BY <2>2, SureBefore, StillStopped
  <2>4. Written(x)
    <3>1. CASE ShutDown(x) \/ WentDown(x) \/ Established(x)
      BY <1>3, <3>1 DEF ShutDown, WentDown, Established, ConnectEstablished
    <3>2. CASE AskedRemoval(x) \/ Removed(x)
      BY <1>3, <3>2 DEF AskedRemoval, Removed, connVars, statusVars
    <3>3. CASE Destroyed(x) \/ Unmapped(x)
      BY <1>3, <3>3 DEF Destroyed, Unmapped, ConnectDestroyed, statusVars
    <3> QED
      BY <1>3, <3>1, <3>2, <3>3 DEF OneMoved
  <2>5. c \in destroyed /\ state_[c] # "kDisconnected"
    BY <1>3, <2>2, <2>4 DEF Written
  <2>6. InMap(c)
    BY <1>1, <2>3, <2>5 DEF Removing, IsRemoved
  <2> QED
    BY <1>1, <2>2, <2>5, <2>6 DEF Destruction, Ends
<1>4. ASSUME c \notin revived
      PROVE  \E x : OneMoved(x)
  <2>1. revived' # revived
    BY <1>4
  <2> QED
    BY <2>1, MoveCases DEF Unmoved, Accepted, Discarded, connVars, statusVars
<1> QED
  BY <1>2, <1>3, <1>4

------------------------------------------------------------------------------
\* A server that has just been constructed.
LEMMA InitDestruction ==
  ASSUME Init
  PROVE  DestructionInv
<1>1. Created = {}
  BY DEF Init, Created
<1>2. connections_ = <<>> /\ DOMAIN connections_ = {}
  BY DEF Init
<1>3. Named
  BY <1>2 DEF Named
<1>4. Told
  BY <1>1 DEF Told, Init
<1>5. Removing /\ Late
  BY <1>1 DEF Removing, AsksRemoval, Late, Sure, Init
<1> QED
  BY <1>1, <1>3, <1>4, <1>5 DEF DestructionInv, EstablishedFirst, Destruction

\* The invariant holds.
THEOREM DestructionInvHolds == SafetySpec => []DestructionInv
<1>1. ServerInv /\ DestructionInv /\ [Next]_vars => DestructionInv'
  BY InMapStep, EstablishedFirstStep, ToldStep, RemovingStep, DestructionStep, LateStep
     DEF DestructionInv
<1> QED
  BY <1>1, InitDestruction, ServerInvHolds, PTL DEF SafetySpec

\* A connection whose destruction is ahead is held.
LEMMA AheadIsAlive ==
  ASSUME ServerInv, NEW c \in Created, InMap(c) \/ Awaits("connectDestroyed", c)
  PROVE  c \in Alive
<1>1. TypeOK
  BY DEF ServerInv
<1>2. CASE InMap(c)
  BY <1>2 DEF InMap, Alive, Held, Range
<1>3. CASE Awaits("connectDestroyed", c)
  <2> DEFINE g == Functor("connectDestroyed", c)
  <2>1. PICK l \in Loops : l = ioLoop[c]
    BY <1>1 DEF TypeOK, Created
  <2>2. g.conn = c /\ g.op # "sendInLoop"
    BY DEF Functor
  <2>3. PICK p \in 1 .. Len(Ahead(l)) : Ahead(l)[p] = g
    BY <1>3, <2>1 DEF Awaits, Place, Has
  <2> HIDE DEF g
  <2>4. g \in Queued(l)
    BY <1>1, <2>3, AheadQueued
  <2> QED
    BY <2>1, <2>2, <2>4 DEF Alive, Held
<1> QED
  BY <1>2, <1>3

\* How often a functor that is queued once at most is found on the two parts of the
\* queue.
LEMMA TodoOnce ==
  ASSUME TypeOK, NEW l \in Loops, NEW g, Once(l, g)
  PROVE  Cardinality({i \in done[l] + 1 .. Len(functors[l]) : functors[l][i] = g})
         + Cardinality({i \in 1 .. Len(pendingFunctors_[l]) : pendingFunctors_[l][i] = g})
         = IF Has(l, g) THEN 1 ELSE 0
<1>1. PICK s, t, n, a :
        s = functors[l] /\ t = pendingFunctors_[l] /\ n = done[l] /\ a = Ahead(l)
  OBVIOUS
<1>2. PICK r : r = Len(s) - n
  OBVIOUS
<1>3. /\ r \in Nat /\ n \in Nat /\ Len(t) \in Nat /\ Len(s) = n + r /\ Len(a) = r + Len(t)
      /\ \A i \in 1 .. r : a[i] = s[n + i]
      /\ \A i \in 1 .. Len(t) : a[r + i] = t[i]
  <2>1. /\ n \in Nat /\ Len(s) \in Nat /\ Len(t) \in Nat /\ n <= Len(s)
        /\ Len(a) = Len(s) - n + Len(t)
        /\ \A i \in 1 .. Len(s) - n : a[i] = s[n + i]
        /\ \A i \in 1 .. Len(t) : a[Len(s) - n + i] = t[i]
    BY <1>1, AheadParts
  <2> QED
    BY <1>2, <2>1
<1> DEFINE A == {i \in n + 1 .. Len(s) : s[i] = g}
           B == {i \in 1 .. Len(t) : t[i] = g}
<1> SUFFICES Cardinality(A) + Cardinality(B) = IF Has(l, g) THEN 1 ELSE 0
  BY <1>1
<1>4. \A i \in A : i - n \in 1 .. r /\ i = n + (i - n) /\ a[i - n] = g
  BY <1>3
<1>5. \A i \in B : i \in 1 .. Len(t) /\ a[r + i] = g
  BY <1>3
<1>6. \A i, j \in 1 .. Len(a) : a[i] = g /\ a[j] = g => i = j
  BY <1>1 DEF Once
<1>7. Has(l, g) <=> \E i \in 1 .. Len(a) : a[i] = g
  BY <1>1 DEF Has
<1>8. Cardinality({}) = 0 /\ \A x : Cardinality({x}) = 1
  BY FS_EmptySet, FS_Singleton
<1>9. \A p \in 1 .. r : p \in 1 .. Len(a) /\ (a[p] = g => n + p \in A)
  BY <1>3
<1>10. \A p \in 1 .. Len(t) : r + p \in 1 .. Len(a) /\ (a[r + p] = g => p \in B)
  BY <1>3
<1>11. \A p \in 1 .. Len(a) : p \in 1 .. r \/ (p - r \in 1 .. Len(t) /\ p = r + (p - r))
  BY <1>3
<1>12. \A i \in A : i \in Int
  BY <1>3
<1> HIDE DEF A, B
<1>13. CASE ~Has(l, g)
  <2>1. A = {} /\ B = {}
    BY <1>4, <1>5, <1>7, <1>9, <1>10, <1>13
  <2>2. Cardinality(A) = 0 /\ Cardinality(B) = 0
    BY <1>8, <2>1
  <2> QED
    BY <1>13, <2>2
<1>14. CASE Has(l, g)
  <2>1. PICK p \in 1 .. Len(a) : a[p] = g
    BY <1>7, <1>14
  <2>2. /\ \A i \in A : i - n = p
        /\ \A i \in B : r + i = p
    BY <1>4, <1>5, <1>6, <1>9, <1>10, <2>1
  <2>3. CASE p \in 1 .. r
    <3>1. n + p \in A /\ \A i \in A : i = n + p
      BY <1>4, <1>9, <2>1, <2>2, <2>3
    <3>2. A = {n + p}
      BY <3>1
    <3>3. B = {}
      BY <1>3, <1>5, <2>2, <2>3
    <3>4. Cardinality(A) = 1 /\ Cardinality(B) = 0
      BY <1>8, <3>2, <3>3
    <3> QED
      BY <1>14, <3>4
  <2>4. CASE p - r \in 1 .. Len(t) /\ p = r + (p - r)
    <3>1. PICK q \in 1 .. Len(t) : p = r + q
      BY <2>4
    <3>2. q \in B /\ \A i \in B : i = q
      BY <1>3, <1>5, <1>10, <2>1, <2>2, <3>1
    <3>3. B = {q}
      BY <3>2
    <3>4. A = {}
      BY <1>3, <1>4, <2>2, <3>1
    <3>5. Cardinality(A) = 0 /\ Cardinality(B) = 1
      BY <1>8, <3>3, <3>4
    <3> QED
      BY <1>14, <3>5
  <2> QED
    BY <1>11, <2>1, <2>3, <2>4
<1> QED
  BY <1>13, <1>14

\* One that waits is found on one of them.
LEMMA TodoSome ==
  ASSUME TypeOK, NEW l \in Loops, NEW g, Has(l, g)
  PROVE  \/ \E i \in done[l] + 1 .. Len(functors[l]) : functors[l][i] = g
         \/ \E i \in 1 .. Len(pendingFunctors_[l]) : pendingFunctors_[l][i] = g
<1>1. PICK s, t, n, a :
        s = functors[l] /\ t = pendingFunctors_[l] /\ n = done[l] /\ a = Ahead(l)
  OBVIOUS
<1>2. PICK r : r = Len(s) - n
  OBVIOUS
<1>3. /\ r \in Nat /\ n \in Nat /\ Len(t) \in Nat /\ Len(s) = n + r /\ Len(a) = r + Len(t)
      /\ \A i \in 1 .. r : a[i] = s[n + i]
      /\ \A i \in 1 .. Len(t) : a[r + i] = t[i]
  <2>1. /\ n \in Nat /\ Len(s) \in Nat /\ Len(t) \in Nat /\ n <= Len(s)
        /\ Len(a) = Len(s) - n + Len(t)
        /\ \A i \in 1 .. Len(s) - n : a[i] = s[n + i]
        /\ \A i \in 1 .. Len(t) : a[Len(s) - n + i] = t[i]
    BY <1>1, AheadParts
  <2> QED
    BY <1>2, <2>1
<1>4. PICK p \in 1 .. Len(a) : a[p] = g
  BY <1>1 DEF Has
<1>5. CASE p \in 1 .. r
  <2>1. n + p \in n + 1 .. Len(s) /\ s[n + p] = g
    BY <1>3, <1>4, <1>5
  <2> QED
    BY <1>1, <2>1
<1>6. CASE p \notin 1 .. r
  <2>1. PICK q \in 1 .. Len(t) : p = r + q
    <3>1. p - r \in 1 .. Len(t) /\ p = r + (p - r)
      BY <1>3, <1>6
    <3> QED
      BY <3>1
  <2>2. t[q] = g
    BY <1>3, <1>4, <2>1
  <2> QED
    BY <1>1, <2>2
<1> QED
  BY <1>5, <1>6

\* DestructionsAhead counts the place in connections_ and the functors that wait.
LEMMA AheadCounts ==
  ASSUME ServerInv, DestructionInv, NEW c \in Created
  PROVE  /\ InMap(c) \/ Awaits("connectDestroyed", c) => DestructionsAhead(c) >= 1
         /\ Single("connectDestroyed", c) =>
              DestructionsAhead(c) = (IF InMap(c) THEN 1 ELSE 0)
                                     + (IF Awaits("connectDestroyed", c) THEN 1 ELSE 0)
<1>1. TypeOK /\ Named
  BY DEF ServerInv, DestructionInv
<1>2. PICK l \in Loops : l = ioLoop[c]
  BY <1>1 DEF TypeOK, Created
<1> DEFINE g == Functor("connectDestroyed", c)
           A == {i \in done[l] + 1 .. Len(functors[l]) : functors[l][i] = g}
           B == {i \in 1 .. Len(pendingFunctors_[l]) : pendingFunctors_[l][i] = g}
           M == {n \in DOMAIN connections_ : connections_[n] = c}
<1>3. DestructionsAhead(c) = Cardinality(M) + Cardinality(A) + Cardinality(B)
  BY <1>2 DEF DestructionsAhead
<1>4. /\ Single("connectDestroyed", c) <=> Once(l, g)
      /\ Awaits("connectDestroyed", c) <=> Has(l, g)
  BY <1>2 DEF Single, Awaits, Place
<1>5. Single("connectDestroyed", c) =>
        Cardinality(A) + Cardinality(B) = IF Has(l, g) THEN 1 ELSE 0
  BY <1>1, <1>4, TodoOnce
<1>6. M = IF InMap(c) THEN {name_[c]} ELSE {}
  BY <1>1 DEF Named, InMap
<1>7. Cardinality(M) = IF InMap(c) THEN 1 ELSE 0
  BY <1>6, FS_EmptySet, FS_Singleton
<1>8. IsFiniteSet(A) /\ IsFiniteSet(B)
  <2>1. done[l] \in Nat /\ Len(functors[l]) \in Nat /\ Len(pendingFunctors_[l]) \in Nat
    BY <1>1, QueueTypes
  <2>2. \A i, j \in Int : IsFiniteSet(i .. j)
    BY FS_Interval
  <2>3. IsFiniteSet(done[l] + 1 .. Len(functors[l]))
        /\ IsFiniteSet(1 .. Len(pendingFunctors_[l]))
    BY <2>1, <2>2
  <2> QED
    BY <2>3, FS_Subset
<1>9. Cardinality(A) \in Nat /\ Cardinality(B) \in Nat
  BY <1>8, FS_CardinalityType
<1>10. Has(l, g) => A # {} \/ B # {}
  BY <1>1, TodoSome
<1> HIDE DEF A, B, M, g
<1>11. Has(l, g) => Cardinality(A) # 0 \/ Cardinality(B) # 0
  BY <1>8, <1>10, FS_EmptySet
<1>12. Has(l, g) => Cardinality(A) + Cardinality(B) >= 1
  BY <1>9, <1>11
<1> QED
  BY <1>3, <1>4, <1>5, <1>7, <1>9, <1>12

\* Between removeConnection, removeConnectionInLoop and ~TcpServer a destruction is
\* arranged for every connection until it is over, and once but for one of which a
\* shutdown() has undone kDisconnected.
THEOREM OneDestructionAheadHolds == SafetySpec => []OneDestructionAhead
<1>1. ASSUME ServerInv, DestructionInv, NEW c \in Created \ dropped
      PROVE  /\ c \notin destroyed \union lost => DestructionsAhead(c) >= 1
             /\ c \notin overwrote =>
                  DestructionsAhead(c) = IF c \in destroyed \union lost THEN 0 ELSE 1
  <2>1. Ends(c) /\ (c \notin overwrote => c \in Sure)
    BY <1>1 DEF DestructionInv, Destruction, Sure
  <2>2. c \notin destroyed \union lost => InMap(c) \/ Awaits("connectDestroyed", c)
    BY <1>1, <2>1 DEF Ends
  <2>3. CASE c \notin overwrote
    <3>1. DestructionsAhead(c) = (IF InMap(c) THEN 1 ELSE 0)
                                 + (IF Awaits("connectDestroyed", c) THEN 1 ELSE 0)
      BY <1>1, <2>1, <2>3, AheadCounts DEF Ends
    <3>2. DestructionsAhead(c) = IF c \in destroyed \union lost THEN 0 ELSE 1
      BY <2>1, <2>2, <2>3, <3>1 DEF Ends
    <3> QED
      BY <3>2
  <2>4. CASE c \in overwrote
    BY <1>1, <2>2, <2>4, AheadCounts
  <2> QED
    BY <2>3, <2>4
<1>2. ServerInv /\ DestructionInv => OneDestructionAhead
  BY <1>1 DEF OneDestructionAhead
<1> QED
  BY <1>2, ServerInvHolds, DestructionInvHolds, PTL

\* No connection dies while the poller of a loop that goes on has its Channel, but for
\* one that was pushed out of connections_ or put back by a late send().
THEOREM NoDanglingChannelHolds == SafetySpec => []NoDanglingChannel
<1>1. ASSUME ServerInv, DestructionInv, NEW c \in inPoller \ (dropped \union revived),
             phase[ioLoop[c]] # "stopped"
      PROVE  c \in Alive
  <2>1. c \in Created
    BY <1>1 DEF ServerInv, TypeOK
  <2>2. Ends(c) /\ c \notin destroyed
    BY <1>1, <2>1 DEF DestructionInv, Destruction, Told, ToldOf
  <2>3. InMap(c) \/ Awaits("connectDestroyed", c)
    BY <1>1, <2>2 DEF Ends
  <2> QED
    BY <1>1, <2>1, <2>3, AheadIsAlive
<1>2. ServerInv /\ DestructionInv => NoDanglingChannel
  BY <1>1 DEF NoDanglingChannel
<1> QED
  BY <1>2, ServerInvHolds, DestructionInvHolds, PTL

\* connectEstablished comes before connectDestroyed: no connection comes up again
\* after its end, and its Channel stays out of the poller but for a late send().
THEOREM DestroyedStaysOutHolds == SafetySpec => []DestroyedStaysOut
<1>1. ASSUME ServerInv, DestructionInv, NEW c \in destroyed
      PROVE  /\ state_[c] \in {"kDisconnecting", "kDisconnected"}
             /\ c \in inPoller => c \in revived
             /\ c \in revived \ dropped => c \in overwrote \/ phase[BaseLoop] = "stopped"
  <2>1. c \in Created /\ Late
    BY <1>1 DEF ServerInv, TypeOK, DestructionInv
  <2>2. ToldOf(c)
    BY <1>1, <2>1 DEF DestructionInv, Told
  <2>3. c \in revived /\ c \notin dropped /\ c \notin overwrote => ~BaseRuns
    BY <2>1 DEF Late, Sure
  <2> QED
    BY <1>1, <2>2, <2>3 DEF ToldOf, BaseRuns
<1>2. ServerInv /\ DestructionInv => DestroyedStaysOut
  BY <1>1 DEF DestroyedStaysOut
<1> QED
  BY <1>2, ServerInvHolds, DestructionInvHolds, PTL

\* The user of a connection is told that it is down before it dies, but for
\* connections that were being shut down, went down with their loop or were pushed out
\* of connections_; and once, but for one of which a shutdown() has undone
\* kDisconnected.
THEOREM ToldOfEndHolds == SafetySpec => []ToldOfEnd
<1>1. ASSUME ServerInv, DestructionInv, NEW c \in Created
      PROVE  /\ c \notin overwrote => downs[c] <= 1
             /\ \/ c \in Alive \/ downs[c] >= 1
                \/ state_[c] = "kDisconnecting" \/ c \in lost \union dropped
  <2>1. ToldOf(c) /\ Ends(c)
    BY <1>1 DEF DestructionInv, Told, Destruction
  <2>2. c \in dropped \union destroyed \union lost \/ c \in Alive
    BY <1>1, <2>1, AheadIsAlive DEF Ends
  <2>3. c \notin overwrote => downs[c] <= 1
    BY <2>1 DEF ToldOf
  <2>4. c \in destroyed => state_[c] = "kDisconnecting" \/ downs[c] >= 1
    BY <2>1 DEF ToldOf
  <2> QED
    BY <2>2, <2>3, <2>4
<1>2. ServerInv /\ DestructionInv => ToldOfEnd
  BY <1>1 DEF ToldOfEnd
<1> QED
  BY <1>2, ServerInvHolds, DestructionInvHolds, PTL
=============================================================================
