---------------------------- MODULE BufferProofs ----------------------------
(***************************************************************************)
(* Proofs about Buffer, for every size, every set of bytes and every set   *)
(* of strings: the object stays well formed, its memory stays in           *)
(* proportion to what it has held, and it is a queue of bytes.             *)
(***************************************************************************)
EXTENDS Buffer, SequenceTheorems, TLAPS

Vector == Seq(Bytes)

\* A well-formed object.
WellFormed(b) ==
  /\ b \in [buffer_ : Vector, readerIndex_ : Nat, writerIndex_ : Nat]
  /\ kCheapPrepend <= b.readerIndex_
  /\ b.readerIndex_ <= b.writerIndex_
  /\ b.writerIndex_ <= Len(b.buffer_)

\* `data` written behind the readable bytes of b.
Written(b, data) ==
  [b EXCEPT !.buffer_ = Copied(b.buffer_, b.writerIndex_, data),
            !.writerIndex_ = b.writerIndex_ + Len(data)]

\* b has the memory of a, or no more than it takes to hold n bytes twice.
Grew(a, b, n) ==
  \/ Len(b.buffer_) = Len(a.buffer_)
  \/ Len(b.buffer_) <= kCheapPrepend + 2 * n
------------------------------------------------------------------------------
(***************************************************************************)
(* Vectors.                                                                *)
(***************************************************************************)

\* A copy into a vector keeps its length and changes the bytes it covers.
LEMMA CopiedFacts ==
  ASSUME NEW bytes \in Vector, NEW at \in Nat, NEW data \in Vector
  PROVE  /\ Copied(bytes, at, data) \in Vector
         /\ Len(Copied(bytes, at, data)) = Len(bytes)
         /\ \A i \in 1 .. Len(bytes) :
              Copied(bytes, at, data)[i] =
                IF at < i /\ i <= at + Len(data) THEN data[i - at] ELSE bytes[i]
<1> DEFINE c == Copied(bytes, at, data)
<1>1. \A i \in 1 .. Len(bytes) :
        (IF at < i /\ i <= at + Len(data) THEN data[i - at] ELSE bytes[i]) \in Bytes
  BY DEF Vector
<1>2. c \in [1 .. Len(bytes) -> Bytes]
  BY <1>1 DEF Copied
<1>3. c \in Vector /\ Len(c) = Len(bytes)
  BY <1>2 DEF Vector
<1> QED
  BY <1>3 DEF Copied

\* Growing a vector keeps the bytes it had.
LEMMA ResizedFacts ==
  ASSUME NEW bytes \in Vector, NEW n \in Nat, Len(bytes) <= n
  PROVE  /\ Resized(bytes, n) \in Vector
         /\ Len(Resized(bytes, n)) = n
         /\ \A i \in 1 .. Len(bytes) : Resized(bytes, n)[i] = bytes[i]
<1> DEFINE r == Resized(bytes, n)
<1>1. \A i \in 1 .. n : (IF i <= Len(bytes) THEN bytes[i] ELSE Zero) \in Bytes
  BY ConstantsAssumption DEF Vector
<1>2. r \in [1 .. n -> Bytes]
  BY <1>1 DEF Resized
<1>3. r \in Vector /\ Len(r) = n
  BY <1>2 DEF Vector
<1> QED
  BY <1>3 DEF Resized, Vector

\* What can be read of a well-formed object.
LEMMA ContentFacts ==
  ASSUME NEW b, WellFormed(b)
  PROVE  /\ readableBytes(b) \in Nat
         /\ writableBytes(b) \in Nat
         /\ Content(b) \in Vector
         /\ Len(Content(b)) = readableBytes(b)
         /\ \A i \in 1 .. readableBytes(b) :
              Content(b)[i] = b.buffer_[b.readerIndex_ + i]
<1>1. /\ b.buffer_ \in Seq(Bytes) /\ Len(b.buffer_) \in Nat
      /\ b.readerIndex_ \in Nat /\ b.writerIndex_ \in Nat
      /\ b.readerIndex_ <= b.writerIndex_ /\ b.writerIndex_ <= Len(b.buffer_)
  BY DEF WellFormed, Vector
<1>2. \A i \in b.readerIndex_ + 1 .. b.writerIndex_ : b.buffer_[i] \in Bytes
  BY <1>1
<1>3. /\ Content(b) \in Seq(Bytes)
      /\ Len(Content(b)) = b.writerIndex_ - b.readerIndex_
      /\ \A i \in 1 .. b.writerIndex_ - b.readerIndex_ :
           Content(b)[i] = b.buffer_[b.readerIndex_ + 1 + i - 1]
  BY <1>1, <1>2, SubSeqProperties DEF Content
<1> QED
  BY <1>1, <1>3 DEF readableBytes, writableBytes, Vector
------------------------------------------------------------------------------
(***************************************************************************)
(* Member functions.                                                       *)
(***************************************************************************)

\* The first n readable bytes, read at their place in the vector, are the front
\* of the content.
LEMMA FrontOfContent ==
  ASSUME NEW b, WellFormed(b), NEW n \in Nat, n <= readableBytes(b)
  PROVE  /\ SubSeq(b.buffer_, b.readerIndex_ + 1, b.readerIndex_ + n)
              = SubSeq(Content(b), 1, n)
         /\ SubSeq(Content(b), 1, n) \in Seq(Bytes)
<1> DEFINE there == SubSeq(b.buffer_, b.readerIndex_ + 1, b.readerIndex_ + n)
           front == SubSeq(Content(b), 1, n)
<1>1. /\ b.buffer_ \in Seq(Bytes) /\ Len(b.buffer_) \in Nat
      /\ b.readerIndex_ \in Nat
      /\ b.readerIndex_ + n <= Len(b.buffer_)
      /\ Content(b) \in Seq(Bytes) /\ Len(Content(b)) = readableBytes(b)
      /\ readableBytes(b) \in Nat
  BY ContentFacts DEF WellFormed, Vector, readableBytes
<1>2. /\ there \in Seq(Bytes) /\ Len(there) = n
      /\ \A i \in 1 .. n : there[i] = b.buffer_[b.readerIndex_ + i]
  <2> DEFINE reader == b.readerIndex_
             first == reader + 1
             last == reader + n
  <2>1. reader \in Nat /\ reader + n <= Len(b.buffer_)
    BY <1>1
  <2>2. \A i \in first .. last : b.buffer_[i] \in Bytes
    BY <1>1
  <2> HIDE DEF reader
  <2>3. /\ first \in Nat /\ last \in Nat
        /\ n = IF first <= last THEN last - first + 1 ELSE 0
        /\ last - first + 1 = n
        /\ \A i \in 1 .. n : first + i - 1 = reader + i
    BY <2>1
  <2> HIDE DEF first, last
  <2>4. /\ SubSeq(b.buffer_, first, last) \in Seq(Bytes)
        /\ Len(SubSeq(b.buffer_, first, last)) =
             IF first <= last THEN last - first + 1 ELSE 0
        /\ \A i \in 1 .. last - first + 1 :
             SubSeq(b.buffer_, first, last)[i] = b.buffer_[first + i - 1]
    BY <1>1, <2>2, <2>3, SubSeqProperties
  <2> QED
    BY <2>3, <2>4 DEF first, last, reader
<1>3. /\ front \in Seq(Bytes) /\ Len(front) = n
      /\ \A i \in 1 .. n : front[i] = Content(b)[i]
  <2>1. \A i \in 1 .. n : Content(b)[i] \in Bytes
    BY <1>1
  <2>2. /\ front \in Seq(Bytes)
        /\ Len(front) = IF 1 <= n THEN n - 1 + 1 ELSE 0
        /\ \A i \in 1 .. n - 1 + 1 : front[i] = Content(b)[1 + i - 1]
    BY <1>1, <2>1, SubSeqProperties
  <2> QED
    BY <2>2
<1> HIDE DEF there, front
<1>4. \A i \in 1 .. n : there[i] = front[i]
  <2> SUFFICES ASSUME NEW i \in 1 .. n PROVE there[i] = front[i]
    OBVIOUS
  <2>1. i \in 1 .. readableBytes(b)
    BY <1>1
  <2>2. Content(b)[i] = b.buffer_[b.readerIndex_ + i]
    BY <2>1, ContentFacts
  <2> QED
    BY <1>2, <1>3, <2>2
<1>5. there = front
  BY <1>2, <1>3, <1>4, SeqEqual
<1> QED
  BY <1>3, <1>5 DEF there, front

\* retrieve() drops min(len, readableBytes()) bytes at the front.
LEMMA RetrieveFacts ==
  ASSUME NEW b, WellFormed(b), NEW len \in Nat
  PROVE  LET r == retrieve(b, len)
             n == IF len < readableBytes(b) THEN len ELSE readableBytes(b)
         IN  /\ WellFormed(r)
             /\ r.buffer_ = b.buffer_
             /\ Content(r) = SubSeq(Content(b), n + 1, Len(Content(b)))
<1> DEFINE r == retrieve(b, len)
           n == IF len < readableBytes(b) THEN len ELSE readableBytes(b)
           rest == SubSeq(Content(b), n + 1, Len(Content(b)))
<1> USE DEF Vector
<1>0. /\ b \in [buffer_ : Seq(Bytes), readerIndex_ : Nat, writerIndex_ : Nat]
      /\ kCheapPrepend \in Nat /\ kCheapPrepend <= b.readerIndex_
      /\ b.readerIndex_ <= b.writerIndex_ /\ b.writerIndex_ <= Len(b.buffer_)
      /\ Len(b.buffer_) \in Nat
  BY ConstantsAssumption DEF WellFormed
<1>1. WellFormed(r) /\ r.buffer_ = b.buffer_
  <2>1. CASE len < readableBytes(b)
    <3>1. /\ r \in [buffer_ : Seq(Bytes), readerIndex_ : Nat, writerIndex_ : Nat]
          /\ r.buffer_ = b.buffer_ /\ r.writerIndex_ = b.writerIndex_
          /\ r.readerIndex_ = b.readerIndex_ + len
      BY <1>0, <2>1 DEF retrieve
    <3> QED
      BY <1>0, <2>1, <3>1 DEF WellFormed, readableBytes
  <2>2. CASE ~(len < readableBytes(b))
    <3>1. /\ r \in [buffer_ : Seq(Bytes), readerIndex_ : Nat, writerIndex_ : Nat]
          /\ r.buffer_ = b.buffer_ /\ r.writerIndex_ = kCheapPrepend
          /\ r.readerIndex_ = kCheapPrepend
      BY <1>0, <2>2 DEF retrieve, retrieveAll
    <3> QED
      BY <1>0, <3>1 DEF WellFormed
  <2> QED
    BY <2>1, <2>2
<1>2. /\ n \in Nat /\ n <= readableBytes(b)
      /\ readableBytes(b) \in Nat /\ readableBytes(r) = readableBytes(b) - n
      /\ n < readableBytes(b) => r.readerIndex_ = b.readerIndex_ + n
  <2>1. readableBytes(b) \in Nat
    BY ContentFacts
  <2>2. CASE len < readableBytes(b)
    BY <2>1, <2>2 DEF retrieve, WellFormed, readableBytes
  <2>3. CASE ~(len < readableBytes(b))
    BY <2>1, <2>3, ConstantsAssumption DEF retrieve, retrieveAll, WellFormed, readableBytes
  <2> QED
    BY <2>2, <2>3
<1>3. /\ rest \in Seq(Bytes)
      /\ Len(rest) = readableBytes(r)
      /\ \A i \in 1 .. readableBytes(r) : rest[i] = Content(b)[n + i]
  <2>1. /\ Content(b) \in Seq(Bytes) /\ Len(Content(b)) = readableBytes(b)
    BY ContentFacts DEF Vector
  <2>2. \A i \in n + 1 .. Len(Content(b)) : Content(b)[i] \in Bytes
    BY <1>2, <2>1
  <2> HIDE DEF n
  <2>3. /\ rest \in Seq(Bytes)
        /\ Len(rest) = IF n + 1 <= Len(Content(b)) THEN Len(Content(b)) - (n + 1) + 1 ELSE 0
        /\ \A i \in 1 .. Len(Content(b)) - (n + 1) + 1 : rest[i] = Content(b)[n + 1 + i - 1]
    BY <1>2, <2>1, <2>2, SubSeqProperties
  <2> QED
    BY <1>2, <2>1, <2>3
<1>4. \A i \in 1 .. readableBytes(r) : Content(r)[i] = rest[i]
  <2> SUFFICES ASSUME NEW i \in 1 .. readableBytes(r)
               PROVE  Content(r)[i] = rest[i]
    OBVIOUS
  <2> HIDE DEF r, n, rest
  <2>1. n < readableBytes(b) /\ n + i \in 1 .. readableBytes(b)
    BY <1>2
  <2>2. Content(r)[i] = r.buffer_[r.readerIndex_ + i]
    BY <1>1, ContentFacts
  <2>3. rest[i] = b.buffer_[b.readerIndex_ + (n + i)]
    BY <1>3, <2>1, ContentFacts
  <2> QED
    BY <1>1, <1>2, <2>1, <2>2, <2>3 DEF WellFormed
<1>5. Content(r) \in Seq(Bytes) /\ Len(Content(r)) = readableBytes(r)
  BY <1>1, ContentFacts DEF Vector
<1> HIDE DEF r, n, rest
<1>6. Content(r) = rest
  BY <1>3, <1>4, <1>5, SeqEqual
<1> QED
  BY <1>1, <1>6 DEF r, n, rest

\* makeSpace() makes the space asked for and keeps what can be read, and it
\* grows the vector only where the object would otherwise be more than half
\* spare room.
LEMMA MakeSpaceFacts ==
  ASSUME NEW b, WellFormed(b), NEW len \in Nat, writableBytes(b) < len
  PROVE  LET e == makeSpace(b, len)
         IN  /\ WellFormed(e)
             /\ len <= writableBytes(e)
             /\ readableBytes(e) = readableBytes(b)
             /\ \A i \in 1 .. readableBytes(b) :
                  e.buffer_[e.readerIndex_ + i] = b.buffer_[b.readerIndex_ + i]
             /\ Grew(b, e, readableBytes(b) + len)
<1> DEFINE e == makeSpace(b, len)
<1>1. /\ b.buffer_ \in Vector /\ Len(b.buffer_) \in Nat
      /\ b.readerIndex_ \in Nat /\ b.writerIndex_ \in Nat
      /\ kCheapPrepend \in Nat /\ kCheapPrepend <= b.readerIndex_
      /\ b.readerIndex_ <= b.writerIndex_ /\ b.writerIndex_ <= Len(b.buffer_)
  BY ConstantsAssumption DEF WellFormed, Vector
<1>2. CASE writableBytes(b) + prependableBytes(b) < len + kCheapPrepend
  <2> DEFINE bytes == Resized(b.buffer_, b.writerIndex_ + len)
  <2>1. e = [b EXCEPT !.buffer_ = bytes]
    BY <1>2 DEF makeSpace, Grown
  <2>2. Len(b.buffer_) <= b.writerIndex_ + len
    BY <1>1 DEF writableBytes
  <2>3. /\ bytes \in Vector /\ Len(bytes) = b.writerIndex_ + len
        /\ \A i \in 1 .. Len(b.buffer_) : bytes[i] = b.buffer_[i]
    BY <1>1, <2>2, ResizedFacts
  <2> HIDE DEF bytes, e
  <2>4. /\ e.buffer_ = bytes /\ e.readerIndex_ = b.readerIndex_
        /\ e.writerIndex_ = b.writerIndex_
        /\ e \in [buffer_ : Vector, readerIndex_ : Nat, writerIndex_ : Nat]
    BY <2>1, <2>3 DEF WellFormed
  <2>5. WellFormed(e)
    BY <1>1, <2>3, <2>4 DEF WellFormed
  <2>6. len <= writableBytes(e) /\ readableBytes(e) = readableBytes(b)
    BY <1>1, <2>3, <2>4 DEF writableBytes, readableBytes
  <2>7. \A i \in 1 .. readableBytes(b) :
          e.buffer_[e.readerIndex_ + i] = b.buffer_[b.readerIndex_ + i]
    <3> SUFFICES ASSUME NEW i \in 1 .. readableBytes(b)
                 PROVE  bytes[b.readerIndex_ + i] = b.buffer_[b.readerIndex_ + i]
      BY <2>4
    <3>1. b.readerIndex_ + i \in 1 .. Len(b.buffer_)
      BY <1>1 DEF readableBytes
    <3> QED
      BY <2>3, <3>1
  <2>8. Grew(b, e, readableBytes(b) + len)
    <3> DEFINE reader == b.readerIndex_
               writer == b.writerIndex_
               size == Len(b.buffer_)
               cheap == kCheapPrepend
    <3>1. /\ reader \in Nat /\ writer \in Nat /\ size \in Nat /\ cheap \in Nat
          /\ reader <= writer /\ writer <= size
      BY <1>1
    <3>2. size - writer + reader < len + cheap
      BY <1>2 DEF writableBytes, prependableBytes
    <3> HIDE DEF reader, writer, size, cheap
    <3>3. writer + len <= cheap + 2 * (writer - reader + len)
      BY ONLY <3>1, <3>2, len \in Nat
    <3>4. /\ Len(e.buffer_) = writer + len
          /\ readableBytes(b) = writer - reader
      BY <2>3, <2>4 DEF writer, reader, readableBytes
    <3> QED
      BY <3>3, <3>4, Zenon DEF Grew, cheap
  <2> QED
    BY <2>5, <2>6, <2>7, <2>8 DEF e
<1>3. CASE ~(writableBytes(b) + prependableBytes(b) < len + kCheapPrepend)
  <2> DEFINE bytes == Copied(b.buffer_, kCheapPrepend, Content(b))
  <2>1. e = [buffer_ |-> bytes, readerIndex_ |-> kCheapPrepend,
             writerIndex_ |-> kCheapPrepend + readableBytes(b)]
    BY <1>3 DEF makeSpace, MovedDown
  <2>2. /\ Content(b) \in Vector /\ Len(Content(b)) = readableBytes(b)
        /\ readableBytes(b) \in Nat
        /\ \A i \in 1 .. readableBytes(b) :
             Content(b)[i] = b.buffer_[b.readerIndex_ + i]
    BY ContentFacts
  <2>3. /\ bytes \in Vector /\ Len(bytes) = Len(b.buffer_)
        /\ \A i \in 1 .. Len(b.buffer_) :
             bytes[i] = IF kCheapPrepend < i /\ i <= kCheapPrepend + Len(Content(b))
                          THEN Content(b)[i - kCheapPrepend] ELSE b.buffer_[i]
    BY <1>1, <2>2, CopiedFacts
  <2> HIDE DEF bytes, e
  <2>4. /\ e.buffer_ = bytes /\ e.readerIndex_ = kCheapPrepend
        /\ e.writerIndex_ = kCheapPrepend + readableBytes(b)
        /\ e \in [buffer_ : Vector, readerIndex_ : Nat, writerIndex_ : Nat]
    BY <1>1, <2>1, <2>2, <2>3
  <2>5. kCheapPrepend + readableBytes(b) <= Len(b.buffer_)
    BY <1>1 DEF readableBytes
  <2>6. WellFormed(e)
    BY <1>1, <2>2, <2>3, <2>4, <2>5 DEF WellFormed
  <2>7. len <= writableBytes(e) /\ readableBytes(e) = readableBytes(b)
    <3> DEFINE reader == b.readerIndex_
               writer == b.writerIndex_
               size == Len(b.buffer_)
               cheap == kCheapPrepend
    <3>1. reader \in Nat /\ writer \in Nat /\ size \in Nat /\ cheap \in Nat
      BY <1>1
    <3>2. ~(size - writer + reader < len + cheap)
      BY <1>3 DEF writableBytes, prependableBytes
    <3>3. /\ Len(e.buffer_) = size /\ e.readerIndex_ = cheap
          /\ e.writerIndex_ = cheap + readableBytes(b)
      BY <2>3, <2>4
    <3>4. readableBytes(b) \in Nat /\ readableBytes(b) = writer - reader
      BY <2>2 DEF readableBytes
    <3> HIDE DEF reader, writer, size, cheap
    <3>5. len <= size - (cheap + readableBytes(b))
      BY ONLY <3>1, <3>2, <3>4, len \in Nat
    <3>6. len <= writableBytes(e)
      BY ONLY <3>3, <3>5 DEF writableBytes
    <3>7. e.writerIndex_ - e.readerIndex_ = readableBytes(b)
      BY ONLY <3>1, <3>3, <3>4
    <3>8. readableBytes(e) = e.writerIndex_ - e.readerIndex_
      BY DEF readableBytes
    <3> QED
      BY ONLY <3>6, <3>7, <3>8
  <2>8. \A i \in 1 .. readableBytes(b) :
          e.buffer_[e.readerIndex_ + i] = b.buffer_[b.readerIndex_ + i]
    <3> SUFFICES ASSUME NEW i \in 1 .. readableBytes(b)
                 PROVE  bytes[kCheapPrepend + i] = b.buffer_[b.readerIndex_ + i]
      BY <2>4
    <3> DEFINE k == kCheapPrepend + i
    <3>1. k \in 1 .. Len(b.buffer_)
      BY <1>1, <2>2, <2>5
    <3>2. /\ kCheapPrepend < k /\ k <= kCheapPrepend + Len(Content(b))
          /\ k - kCheapPrepend = i
      BY <1>1, <2>2
    <3> HIDE DEF k
    <3>3. bytes[k] = Content(b)[k - kCheapPrepend]
      BY ONLY <2>3, <3>1, <3>2
    <3>4. bytes[k] = Content(b)[i]
      BY <3>2, <3>3
    <3> QED
      BY <2>2, <3>4 DEF k
  <2>9. Grew(b, e, readableBytes(b) + len)
    BY <2>3, <2>4 DEF Grew
  <2> QED
    BY <2>6, <2>7, <2>8, <2>9 DEF e
<1> QED
  BY <1>2, <1>3

\* Equal readable bytes, at whatever place, are equal content.
LEMMA SameContent ==
  ASSUME NEW a, WellFormed(a), NEW b, WellFormed(b),
         readableBytes(a) = readableBytes(b),
         \A i \in 1 .. readableBytes(b) :
           a.buffer_[a.readerIndex_ + i] = b.buffer_[b.readerIndex_ + i]
  PROVE  Content(a) = Content(b)
<1>1. /\ Content(a) \in Seq(Bytes) /\ Content(b) \in Seq(Bytes)
      /\ Len(Content(a)) = Len(Content(b))
      /\ Len(Content(a)) = readableBytes(b)
  BY ContentFacts DEF Vector
<1>2. \A i \in 1 .. Len(Content(a)) : Content(a)[i] = Content(b)[i]
  BY <1>1, ContentFacts
<1> QED
  BY <1>1, <1>2, SeqEqual

\* What fits the writable part is written behind the readable bytes.
LEMMA WrittenFacts ==
  ASSUME NEW b, WellFormed(b), NEW data \in Vector, Len(data) <= writableBytes(b)
  PROVE  LET w == Written(b, data)
         IN  /\ WellFormed(w)
             /\ Len(w.buffer_) = Len(b.buffer_)
             /\ readableBytes(w) = readableBytes(b) + Len(data)
             /\ Content(w) = Content(b) \o data
<1> DEFINE w == Written(b, data)
           bytes == Copied(b.buffer_, b.writerIndex_, data)
           longer == Content(b) \o data
<1>1. /\ b \in [buffer_ : Vector, readerIndex_ : Nat, writerIndex_ : Nat]
      /\ b.buffer_ \in Vector /\ Len(b.buffer_) \in Nat
      /\ b.readerIndex_ \in Nat /\ b.writerIndex_ \in Nat
      /\ kCheapPrepend \in Nat /\ kCheapPrepend <= b.readerIndex_
      /\ b.readerIndex_ <= b.writerIndex_
      /\ Len(data) \in Nat /\ b.writerIndex_ + Len(data) <= Len(b.buffer_)
      /\ data \in Seq(Bytes)
  BY ConstantsAssumption DEF WellFormed, Vector, writableBytes
<1>2. /\ bytes \in Vector /\ Len(bytes) = Len(b.buffer_)
      /\ \A i \in 1 .. Len(b.buffer_) :
           bytes[i] = IF b.writerIndex_ < i /\ i <= b.writerIndex_ + Len(data)
                        THEN data[i - b.writerIndex_] ELSE b.buffer_[i]
  BY <1>1, CopiedFacts
<1>3. /\ w \in [buffer_ : Vector, readerIndex_ : Nat, writerIndex_ : Nat]
      /\ w.buffer_ = bytes /\ w.readerIndex_ = b.readerIndex_
      /\ w.writerIndex_ = b.writerIndex_ + Len(data)
  <2> DEFINE writer == b.writerIndex_ + Len(data)
  <2>1. writer \in Nat
    BY <1>1
  <2>2. w = [b EXCEPT !.buffer_ = bytes, !.writerIndex_ = writer]
    BY DEF Written
  <2> HIDE DEF bytes, writer, w
  <2>3. /\ w.buffer_ = bytes /\ w.readerIndex_ = b.readerIndex_
        /\ w.writerIndex_ = writer
        /\ w \in [buffer_ : Vector, readerIndex_ : Nat, writerIndex_ : Nat]
    BY <1>1, <1>2, <2>1, <2>2
  <2> QED
    BY <2>3 DEF writer
<1> HIDE DEF w, bytes
<1>4. WellFormed(w)
  BY <1>1, <1>2, <1>3 DEF WellFormed
<1>5. readableBytes(w) = readableBytes(b) + Len(data) /\ readableBytes(b) \in Nat
  BY <1>1, <1>3 DEF readableBytes
<1>6. /\ Content(b) \in Seq(Bytes) /\ Len(Content(b)) = readableBytes(b)
      /\ Content(w) \in Seq(Bytes) /\ Len(Content(w)) = readableBytes(w)
  BY <1>4, ContentFacts DEF Vector
<1>7. /\ longer \in Seq(Bytes)
      /\ Len(longer) = readableBytes(w)
      /\ \A i \in 1 .. readableBytes(w) :
           longer[i] = IF i <= readableBytes(b) THEN Content(b)[i]
                       ELSE data[i - readableBytes(b)]
  <2> DEFINE c == Content(b)
  <2>1. c \in Seq(Bytes) /\ data \in Seq(Bytes) /\ Len(c) = readableBytes(b)
    BY <1>1, <1>6
  <2> HIDE DEF c
  <2>2. /\ c \o data \in Seq(Bytes)
        /\ Len(c \o data) = Len(c) + Len(data)
        /\ \A i \in 1 .. Len(c) + Len(data) :
             (c \o data)[i] = IF i <= Len(c) THEN c[i] ELSE data[i - Len(c)]
    BY ONLY <2>1, ConcatProperties
  <2> QED
    BY <1>5, <2>1, <2>2 DEF c
<1> HIDE DEF longer
<1>8. \A i \in 1 .. readableBytes(w) : Content(w)[i] = longer[i]
  <2> SUFFICES ASSUME NEW i \in 1 .. readableBytes(w)
               PROVE  Content(w)[i] = longer[i]
    OBVIOUS
  <2>1. Content(w)[i] = bytes[b.readerIndex_ + i]
    BY <1>3, <1>4, ContentFacts
  <2>2. b.readerIndex_ + i \in 1 .. Len(b.buffer_)
    BY <1>1, <1>5 DEF readableBytes
  <2>3. CASE i <= readableBytes(b)
    <3>1. ~(b.writerIndex_ < b.readerIndex_ + i)
      BY <1>1, <1>5, <2>3 DEF readableBytes
    <3>2. bytes[b.readerIndex_ + i] = b.buffer_[b.readerIndex_ + i]
      BY <1>2, <2>2, <3>1
    <3>3. Content(b)[i] = b.buffer_[b.readerIndex_ + i]
      BY <1>5, <2>3, ContentFacts
    <3> QED
      BY <1>7, <2>1, <2>3, <3>2, <3>3
  <2>4. CASE ~(i <= readableBytes(b))
    <3> DEFINE j == b.readerIndex_ + i
    <3>1. /\ b.writerIndex_ < j /\ j <= b.writerIndex_ + Len(data)
          /\ j - b.writerIndex_ = i - readableBytes(b)
      BY <1>1, <1>5, <2>4 DEF readableBytes
    <3>2. j \in 1 .. Len(b.buffer_)
      BY <2>2
    <3> HIDE DEF j
    <3>3. bytes[j] = data[j - b.writerIndex_]
      BY <1>2, <3>1, <3>2
    <3> QED
      BY <1>7, <2>1, <2>4, <3>1, <3>3 DEF j
  <2> QED
    BY <2>3, <2>4
<1>9. Content(w) = longer
  BY <1>6, <1>7, <1>8, SeqEqual
<1> QED
  BY <1>2, <1>3, <1>4, <1>5, <1>9 DEF w, longer

\* append() puts `data` behind the content.
LEMMA AppendFacts ==
  ASSUME NEW b, WellFormed(b), NEW data \in Vector
  PROVE  LET a == append(b, data)
         IN  /\ WellFormed(a)
             /\ readableBytes(a) = readableBytes(b) + Len(data)
             /\ Content(a) = Content(b) \o data
             /\ Grew(b, a, readableBytes(a))
<1> DEFINE e == ensureWritableBytes(b, Len(data))
           a == append(b, data)
<1>1. Len(data) \in Nat
  BY DEF Vector
<1>2. /\ WellFormed(e) /\ Len(data) <= writableBytes(e)
      /\ readableBytes(e) = readableBytes(b) /\ Content(e) = Content(b)
      /\ Grew(b, e, readableBytes(b) + Len(data))
  <2>1. CASE writableBytes(b) < Len(data)
    <3>1. e = makeSpace(b, Len(data))
      BY <2>1 DEF ensureWritableBytes
    <3> HIDE DEF e
    <3>2. /\ WellFormed(e) /\ Len(data) <= writableBytes(e)
          /\ readableBytes(e) = readableBytes(b)
          /\ \A i \in 1 .. readableBytes(b) :
               e.buffer_[e.readerIndex_ + i] = b.buffer_[b.readerIndex_ + i]
          /\ Grew(b, e, readableBytes(b) + Len(data))
      BY <1>1, <2>1, <3>1, MakeSpaceFacts
    <3> QED
      BY <3>2, SameContent
  <2>2. CASE ~(writableBytes(b) < Len(data))
    <3>1. e = b
      BY <2>2 DEF ensureWritableBytes
    <3>2. writableBytes(b) \in Nat
      BY ContentFacts
    <3> QED
      BY <1>1, <2>2, <3>1, <3>2 DEF Grew
  <2> QED
    BY <2>1, <2>2
<1>3. a = Written(e, data)
  BY DEF append, Written
<1> HIDE DEF e, a
<1>4. /\ WellFormed(a) /\ Len(a.buffer_) = Len(e.buffer_)
      /\ readableBytes(a) = readableBytes(e) + Len(data)
      /\ Content(a) = Content(e) \o data
  BY <1>2, <1>3, WrittenFacts
<1>5. Grew(b, a, readableBytes(a))
  BY <1>2, <1>4 DEF Grew
<1> QED
  BY <1>2, <1>4, <1>5 DEF a

\* readFd() puts what readv() delivered behind the content, at whatever size
\* it is divided between the vector and the stack array.
LEMMA FilledFacts ==
  ASSUME NEW b, WellFormed(b), NEW data \in Vector
  PROVE  LET f == Filled(b, data)
         IN  /\ WellFormed(f)
             /\ readableBytes(f) = readableBytes(b) + Len(data)
             /\ Content(f) = Content(b) \o data
             /\ Grew(b, f, readableBytes(f))
<1> DEFINE f == Filled(b, data)
           room == writableBytes(b)
<1>1. /\ room \in Nat /\ Len(data) \in Nat /\ data \in Seq(Bytes)
      /\ Content(b) \in Seq(Bytes) /\ readableBytes(b) \in Nat
  BY ContentFacts DEF Vector
<1>2. CASE Len(data) <= room
  <2>1. f = Written(b, data)
    BY <1>2 DEF Filled, Written
  <2> QED
    BY <1>2, <2>1, WrittenFacts DEF Grew
<1>3. CASE ~(Len(data) <= room)
  <2> DEFINE data1 == SubSeq(data, 1, room)
             data2 == SubSeq(data, room + 1, Len(data))
             full == Written(b, data1)
             bytes == Copied(b.buffer_, b.writerIndex_, data)
  <2>1. /\ data1 \in Seq(Bytes) /\ Len(data1) = room
        /\ \A i \in 1 .. room : data1[i] = data[i]
    <3>1. \A i \in 1 .. room : data[i] \in Bytes
      BY <1>1, <1>3
    <3> HIDE DEF room
    <3>2. /\ data1 \in Seq(Bytes)
          /\ Len(data1) = IF 1 <= room THEN room - 1 + 1 ELSE 0
          /\ \A i \in 1 .. room - 1 + 1 : data1[i] = data[1 + i - 1]
      BY <1>1, <3>1, SubSeqProperties
    <3> QED
      BY <1>1, <3>2
  <2>2. data2 \in Seq(Bytes) /\ Len(data2) = Len(data) - room
    <3>1. \A i \in room + 1 .. Len(data) : data[i] \in Bytes
      BY <1>1
    <3> HIDE DEF room
    <3>2. /\ data2 \in Seq(Bytes)
          /\ Len(data2) = IF room + 1 <= Len(data) THEN Len(data) - (room + 1) + 1 ELSE 0
      BY <1>1, <3>1, SubSeqProperties
    <3> QED
      BY <1>1, <1>3, <3>2
  <2>3. data1 \o data2 = data
    <3> DEFINE len == Len(data)
    <3>1. /\ 1 \in 1 .. len + 1 /\ room \in 1 - 1 .. len
          /\ len \in room .. len
      BY <1>1, <1>3
    <3>2. SubSeq(data, 1, len) = data
      BY <1>1, SubSeqFull
    <3> HIDE DEF room
    <3>3. SubSeq(data, 1, room) \o SubSeq(data, room + 1, len) = SubSeq(data, 1, len)
      BY <1>1, <3>1, ConcatAdjacentSubSeq, Zenon
    <3> QED
      BY <3>2, <3>3
  <2>4. bytes = Copied(b.buffer_, b.writerIndex_, data1)
    <3>1. /\ b.buffer_ \in Seq(Bytes) /\ b.writerIndex_ \in Nat
          /\ Len(b.buffer_) \in Nat /\ room = Len(b.buffer_) - b.writerIndex_
      BY DEF WellFormed, Vector, writableBytes
    <3> HIDE DEF data1, room
    <3>2. \A i \in 1 .. Len(b.buffer_) :
            (IF b.writerIndex_ < i /\ i <= b.writerIndex_ + Len(data)
               THEN data[i - b.writerIndex_] ELSE b.buffer_[i])
            = (IF b.writerIndex_ < i /\ i <= b.writerIndex_ + Len(data1)
                 THEN data1[i - b.writerIndex_] ELSE b.buffer_[i])
      BY <1>1, <1>3, <2>1, <3>1
    <3> QED
      BY <3>2 DEF Copied
  <2>5. full = [b EXCEPT !.buffer_ = bytes, !.writerIndex_ = Len(b.buffer_)]
    <3>1. b.writerIndex_ + Len(data1) = Len(b.buffer_)
      BY <2>1 DEF WellFormed, Vector, writableBytes
    <3> QED
      BY <2>4, <3>1 DEF Written
  <2>6. f = append(full, data2)
    BY <1>3, <2>5 DEF Filled
  <2> HIDE DEF full, data1, data2, bytes, f
  <2>7. /\ WellFormed(full) /\ Len(full.buffer_) = Len(b.buffer_)
        /\ readableBytes(full) = readableBytes(b) + room
        /\ Content(full) = Content(b) \o data1
    BY <1>1, <2>1, WrittenFacts DEF full, Vector
  <2>8. /\ WellFormed(f) /\ readableBytes(f) = readableBytes(full) + Len(data2)
        /\ Content(f) = Content(full) \o data2
        /\ Grew(full, f, readableBytes(f))
    BY <2>2, <2>6, <2>7, AppendFacts DEF Vector
  <2>9. Content(f) = Content(b) \o data
    <3> DEFINE content == Content(b)
    <3>1. /\ content \in Seq(Bytes) /\ data1 \in Seq(Bytes)
          /\ data2 \in Seq(Bytes)
      BY <1>1, <2>1, <2>2
    <3> HIDE DEF content
    <3>2. (content \o data1) \o data2 = content \o (data1 \o data2)
      BY ONLY <3>1, ConcatAssociative
    <3> QED
      BY <2>3, <2>7, <2>8, <3>2, Zenon DEF content
  <2>10. readableBytes(f) = readableBytes(b) + Len(data)
    BY <1>1, <2>2, <2>7, <2>8
  <2>11. Grew(b, f, readableBytes(f))
    BY <2>7, <2>8 DEF Grew
  <2> QED
    BY <2>8, <2>9, <2>10, <2>11 DEF f
<1> QED
  BY <1>2, <1>3
------------------------------------------------------------------------------
(***************************************************************************)
(* The object.                                                             *)
(***************************************************************************)

\* The inductive invariant: the object is well formed and in proportion.
BufferInv == TypeOK /\ BoundedWaste

\* What an operation may make of the object.
LEMMA HoldsKeepsInv ==
  ASSUME BufferInv, NEW b, WellFormed(b), Grew(buf, b, readableBytes(b)),
         Holds(b), carried' \in Seq(Bytes)
  PROVE  BufferInv'
<1>1. /\ buf' = b /\ peak' = Larger(peak, readableBytes(b))
      /\ readableBytes(b) \in Nat /\ peak \in Nat
  BY ContentFacts DEF Holds, BufferInv, TypeOK
<1>2. /\ peak' \in Nat /\ peak <= peak' /\ readableBytes(b) <= peak'
  BY <1>1 DEF Larger
<1>3. TypeOK'
  <2>1. readableBytes(buf') <= peak'
    BY <1>1, <1>2
  <2> QED
    BY <1>1, <1>2, <2>1 DEF TypeOK, WellFormed, Vector
<1>4. BoundedWaste'
  <2>1. /\ Len(buf.buffer_) \in Nat /\ Len(b.buffer_) \in Nat
        /\ kCheapPrepend \in Nat /\ kInitialSize \in Nat
        /\ Len(buf.buffer_) <= kCheapPrepend + Larger(kInitialSize, 2 * peak)
    BY ConstantsAssumption DEF BufferInv, TypeOK, BoundedWaste, WellFormed, Vector
  <2>2. Len(b.buffer_) <= kCheapPrepend + Larger(kInitialSize, 2 * peak')
    BY <1>1, <1>2, <2>1 DEF Grew, Larger
  <2> QED
    BY <1>1, <2>2 DEF BoundedWaste
<1> QED
  BY <1>3, <1>4 DEF BufferInv

\* Under the invariant the object is well formed.
LEMMA InvIsWellFormed ==
  ASSUME BufferInv
  PROVE  WellFormed(buf)
BY DEF BufferInv, TypeOK, WellFormed, Vector

\* The object as constructed is empty and well formed.
LEMMA ConstructedFacts ==
  /\ WellFormed(Constructed)
  /\ readableBytes(Constructed) = 0
  /\ Len(Constructed.buffer_) = kCheapPrepend + kInitialSize
  /\ Content(Constructed) = <<>>
<1> DEFINE size == kCheapPrepend + kInitialSize
<1>1. kCheapPrepend \in Nat /\ kInitialSize \in Nat /\ size \in Nat /\ Zero \in Bytes
  BY ConstantsAssumption
<1>2. Zeros(size) \in Seq(Bytes) /\ Len(Zeros(size)) = size
  <2> HIDE DEF size
  <2>1. Zeros(size) \in [1 .. size -> Bytes]
    BY <1>1 DEF Zeros
  <2> QED
    BY <1>1, <2>1
<1>3. /\ Constructed.buffer_ = Zeros(size)
      /\ Constructed.readerIndex_ = kCheapPrepend
      /\ Constructed.writerIndex_ = kCheapPrepend
      /\ Constructed \in [buffer_ : Seq(Bytes), readerIndex_ : Nat, writerIndex_ : Nat]
  BY <1>1, <1>2 DEF Constructed
<1>4. WellFormed(Constructed) /\ readableBytes(Constructed) = 0
  BY <1>1, <1>2, <1>3 DEF WellFormed, readableBytes, Vector
<1>5. Content(Constructed) = <<>>
  BY <1>4, ContentFacts, EmptySeq DEF Vector
<1> QED
  BY <1>2, <1>3, <1>4, <1>5

\* What each operation makes of the object, and of the queue it implements.
LEMMA StepFacts ==
  ASSUME BufferInv, Next
  PROVE  BufferInv' /\ Queue!Next
<1>1. /\ WellFormed(buf) /\ Strings \subseteq Seq(Bytes) /\ MaxHeld \in Nat
      /\ Content(buf) \in Seq(Bytes) /\ Len(Content(buf)) = readableBytes(buf)
      /\ readableBytes(buf) \in Nat
  BY InvIsWellFormed, ContentFacts, ConstantsAssumption DEF Vector
<1>2. ASSUME NEW data \in Strings, AppendData(data)
      PROVE  BufferInv' /\ Queue!Next
  <2> DEFINE b == append(buf, data)
  <2>1. /\ WellFormed(b) /\ Content(b) = Content(buf) \o data
        /\ Grew(buf, b, readableBytes(b))
    BY <1>1, AppendFacts DEF Vector
  <2> HIDE DEF b
  <2>2. Holds(b) /\ carried' = data
    BY <1>2 DEF AppendData, b
  <2>3. BufferInv'
    BY <1>1, <2>1, <2>2, HoldsKeepsInv
  <2>4. Queue!Put(data)
    BY <2>1, <2>2 DEF Queue!Put, Holds
  <2> QED
    BY <2>3, <2>4 DEF Queue!Next
<1>3. ASSUME NEW data \in Strings, ReadFd(data)
      PROVE  BufferInv' /\ Queue!Next
  <2> DEFINE b == Filled(buf, data)
  <2>1. /\ WellFormed(b) /\ Content(b) = Content(buf) \o data
        /\ Grew(buf, b, readableBytes(b))
    BY <1>1, FilledFacts DEF Vector
  <2> HIDE DEF b
  <2>2. Holds(b) /\ carried' = data
    BY <1>3 DEF ReadFd, b
  <2>3. BufferInv'
    BY <1>1, <2>1, <2>2, HoldsKeepsInv
  <2>4. Queue!Put(data)
    BY <2>1, <2>2 DEF Queue!Put, Holds
  <2> QED
    BY <2>3, <2>4 DEF Queue!Next
<1>4. ASSUME NEW len \in 0 .. MaxHeld + 1, Retrieve(len)
      PROVE  BufferInv' /\ Queue!Next
  <2> DEFINE b == retrieve(buf, len)
             n == IF len < readableBytes(buf) THEN len ELSE readableBytes(buf)
  <2>1. len \in Nat /\ n \in 0 .. Len(Content(buf))
    BY <1>1
  <2>2. /\ WellFormed(b) /\ b.buffer_ = buf.buffer_
        /\ Content(b) = SubSeq(Content(buf), n + 1, Len(Content(buf)))
    BY <1>1, <2>1, RetrieveFacts
  <2> HIDE DEF b, n
  <2>3. Holds(b) /\ carried' = <<>>
    BY <1>4 DEF Retrieve, b
  <2>4. BufferInv'
    <3>1. Grew(buf, b, readableBytes(b)) /\ carried' \in Seq(Bytes)
      BY <2>2, <2>3 DEF Grew
    <3> QED
      BY <2>2, <2>3, <3>1, HoldsKeepsInv
  <2>5. Queue!Drop(n)
    BY <2>2, <2>3 DEF Queue!Drop, Queue!Rest, Holds
  <2> QED
    BY <2>1, <2>4, <2>5 DEF Queue!Next
<1>5. ASSUME NEW len \in 0 .. MaxHeld + 1, RetrieveAsString(len)
      PROVE  BufferInv' /\ Queue!Next
  <2> DEFINE b == retrieve(buf, len)
             n == IF len < readableBytes(buf) THEN len ELSE readableBytes(buf)
  <2>1. len \in Nat /\ len \in 0 .. Len(Content(buf)) /\ n = len
    BY <1>1, <1>5 DEF RetrieveAsString
  <2>2. /\ WellFormed(b) /\ b.buffer_ = buf.buffer_
        /\ Content(b) = SubSeq(Content(buf), n + 1, Len(Content(buf)))
    BY <1>1, <2>1, RetrieveFacts
  <2> HIDE DEF b, n
  <2>3. /\ Holds(b)
        /\ carried' = SubSeq(buf.buffer_, buf.readerIndex_ + 1, buf.readerIndex_ + len)
    BY <1>5 DEF RetrieveAsString, b
  <2>4. carried' = SubSeq(Content(buf), 1, len) /\ carried' \in Seq(Bytes)
    <3>1. len <= readableBytes(buf)
      BY <1>5 DEF RetrieveAsString
    <3> QED
      BY <1>1, <2>1, <2>3, <3>1, FrontOfContent
  <2>5. BufferInv'
    <3>1. Grew(buf, b, readableBytes(b))
      BY <2>2 DEF Grew
    <3> QED
      BY <2>2, <2>3, <2>4, <3>1, HoldsKeepsInv
  <2>6. Queue!Take(len)
    BY <2>1, <2>2, <2>3, <2>4 DEF Queue!Take, Queue!Front, Queue!Rest, Holds
  <2> QED
    BY <2>1, <2>5, <2>6 DEF Queue!Next
<1>6. ASSUME NEW n \in 0 .. MaxHeld + 1, WriteFd(n)
      PROVE  BufferInv' /\ Queue!Next
  <2>1. n \in 0 .. Len(Content(buf))
    BY <1>1, <1>6 DEF WriteFd
  <2>2. carried' = SubSeq(Content(buf), 1, n) /\ carried' \in Seq(Bytes)
    BY <1>1, <1>6, <2>1, FrontOfContent DEF WriteFd
  <2>3. BufferInv'
    BY <1>6, <2>2 DEF BufferInv, TypeOK, BoundedWaste, WriteFd
  <2>4. Queue!Show(n)
    BY <1>6, <2>2 DEF Queue!Show, Queue!Front, WriteFd
  <2> QED
    BY <2>1, <2>3, <2>4 DEF Queue!Next
<1> QED
  BY <1>2, <1>3, <1>4, <1>5, <1>6 DEF Next

\* Initially the invariant holds and the queue is empty.
LEMMA InitFacts == Init => BufferInv /\ Queue!Init
<1> SUFFICES ASSUME Init PROVE BufferInv /\ Queue!Init
  OBVIOUS
<1>1. buf = Constructed /\ carried = <<>> /\ peak = 0
  BY DEF Init
<1>2. TypeOK
  BY <1>1, ConstructedFacts DEF TypeOK, WellFormed, Vector
<1>3. BoundedWaste
  BY <1>1, ConstructedFacts, ConstantsAssumption DEF BoundedWaste, Larger
<1>4. Queue!Init
  BY <1>1, ConstructedFacts DEF Queue!Init
<1> QED
  BY <1>2, <1>3, <1>4 DEF BufferInv

\* A step that touches nothing keeps the invariant and is a stutter of the
\* queue.
LEMMA StutterFacts ==
  BufferInv /\ UNCHANGED vars => BufferInv' /\ UNCHANGED Queue!vars
BY DEF BufferInv, TypeOK, BoundedWaste, vars, Queue!vars

\* The inductive invariant holds.
THEOREM BufferInvHolds == Spec => []BufferInv
<1>1. Init => BufferInv
  BY InitFacts
<1>2. BufferInv /\ [Next]_vars => BufferInv'
  BY StepFacts, StutterFacts
<1> QED
  BY <1>1, <1>2, PTL DEF Spec

\* The indices lie in order inside the vector, whatever operations are called
\* (Buffer.h:95-110).
THEOREM TypeCorrect == Spec => []TypeOK
<1>1. BufferInv => TypeOK
  BY DEF BufferInv
<1> QED
  BY <1>1, BufferInvHolds, PTL

\* The vector is never longer than the room at the front and twice the most
\* that was ever readable, or the initial size (Buffer.h:98).
THEOREM BoundedWasteHolds == Spec => []BoundedWaste
<1>1. BufferInv => BoundedWaste
  BY DEF BufferInv
<1> QED
  BY <1>1, BufferInvHolds, PTL

\* A Buffer implements a queue of bytes (Buffer.h, Buffer.cc).
THEOREM RefinesByteQueue == Spec => ImplementsByteQueue
<1>1. Init => Queue!Init
  BY InitFacts
<1>2. BufferInv /\ [Next]_vars => [Queue!Next]_(Queue!vars)
  BY StepFacts, StutterFacts
<1> QED
  BY <1>1, <1>2, BufferInvHolds, PTL DEF Spec, ImplementsByteQueue, Queue!Spec
=============================================================================
