------------------------------- MODULE Buffer -------------------------------
(***************************************************************************)
(* A Buffer: a vector of bytes with a reader and a writer index.  Bytes    *)
(* before the reader index are spare room that makeSpace() reclaims, those *)
(* between the indices are readable, those from the writer index on are    *)
(* writable.  One action per public operation.                             *)
(*                                                                         *)
(* A record `b` with the fields buffer_, readerIndex_ and writerIndex_ is  *)
(* the object; the operators on records are the member functions.  The     *)
(* vector's element [i] is b.buffer_[i + 1] here.                          *)
(***************************************************************************)
EXTENDS Naturals, Sequences

CONSTANTS
  Bytes,          \* the values of a byte
  Zero,           \* what resize() fills new elements with
  Strings,        \* the byte strings a call may carry
  kCheapPrepend,
  kInitialSize,
  ExtraSize,      \* sizeof extrabuf, in readFd()
  MaxHeld         \* bound: a user never has more than this many bytes readable

ASSUME ConstantsAssumption ==
  /\ Zero \in Bytes
  /\ Strings \subseteq Seq(Bytes)
  /\ kCheapPrepend \in Nat
  /\ kInitialSize \in Nat
  /\ ExtraSize \in Nat
  /\ MaxHeld \in Nat

VARIABLES
  buf,      \* the object
  carried,  \* the bytes the last call carried, in or out
  peak      \* history: the most bytes that were readable at once

vars == <<buf, carried, peak>>

Larger(m, n) == IF m < n THEN n ELSE m

readableBytes(b) == b.writerIndex_ - b.readerIndex_
writableBytes(b) == Len(b.buffer_) - b.writerIndex_
prependableBytes(b) == b.readerIndex_

\* The readable bytes, from peek() on.
Content(b) == SubSeq(b.buffer_, b.readerIndex_ + 1, b.writerIndex_)
------------------------------------------------------------------------------
(***************************************************************************)
(* std::vector and std::copy.                                              *)
(***************************************************************************)

Zeros(n) == [i \in 1 .. n |-> Zero]

\* buffer_.resize(n), where n is at least the size.
Resized(bytes, n) ==
  [i \in 1 .. n |-> IF i <= Len(bytes) THEN bytes[i] ELSE Zero]

\* std::copy of `data` to begin() + at.  A copy past the end of the vector
\* would be undefined; what falls there is lost here.
Copied(bytes, at, data) ==
  [i \in 1 .. Len(bytes) |->
     IF at < i /\ i <= at + Len(data) THEN data[i - at] ELSE bytes[i]]
------------------------------------------------------------------------------
(***************************************************************************)
(* Member functions.                                                       *)
(***************************************************************************)

Constructed ==
  [buffer_ |-> Zeros(kCheapPrepend + kInitialSize),
   readerIndex_ |-> kCheapPrepend,
   writerIndex_ |-> kCheapPrepend]

retrieveAll(b) ==
  [b EXCEPT !.readerIndex_ = kCheapPrepend, !.writerIndex_ = kCheapPrepend]

retrieve(b, len) ==
  IF len < readableBytes(b) THEN [b EXCEPT !.readerIndex_ = @ + len]
                            ELSE retrieveAll(b)

Grown(b, len) == [b EXCEPT !.buffer_ = Resized(@, b.writerIndex_ + len)]

\* The readable bytes move down to kCheapPrepend.
MovedDown(b) ==
  [buffer_ |-> Copied(b.buffer_, kCheapPrepend, Content(b)),
   readerIndex_ |-> kCheapPrepend,
   writerIndex_ |-> kCheapPrepend + readableBytes(b)]

\* Mutant: the room kept at the front is counted as writable.
MakeSpaceIgnoresPrepend(b, len) ==
  IF writableBytes(b) + prependableBytes(b) < len
    THEN Grown(b, len)
    ELSE MovedDown(b)

\* Mutant: the room that reading has freed at the front is never used again.
MakeSpaceGrows(b, len) == Grown(b, len)

makeSpace(b, len) ==
  IF writableBytes(b) + prependableBytes(b) < len + kCheapPrepend
    THEN Grown(b, len)
    ELSE MovedDown(b)

ensureWritableBytes(b, len) ==
  IF writableBytes(b) < len THEN makeSpace(b, len) ELSE b

append(b, data) ==
  LET e == ensureWritableBytes(b, Len(data))
  IN  [e EXCEPT !.buffer_ = Copied(@, e.writerIndex_, data),
                !.writerIndex_ = @ + Len(data)]

\* readv() fills the writable part first, and then, where that is smaller
\* than extrabuf, extrabuf.
ReadCapacity(b) ==
  writableBytes(b) + (IF writableBytes(b) < ExtraSize THEN ExtraSize ELSE 0)

\* Mutant: what went to extrabuf is appended behind the old writer index.
FilledWithoutIndex(b, data) ==
  IF Len(data) <= writableBytes(b)
    THEN [b EXCEPT !.buffer_ = Copied(@, b.writerIndex_, data),
                   !.writerIndex_ = @ + Len(data)]
    ELSE append([b EXCEPT !.buffer_ = Copied(@, b.writerIndex_, data)],
                SubSeq(data, writableBytes(b) + 1, Len(data)))

\* readFd() after readv() has delivered `data`.
Filled(b, data) ==
  LET inPlace == Copied(b.buffer_, b.writerIndex_, data)
  IN  IF Len(data) <= writableBytes(b)
        THEN [b EXCEPT !.buffer_ = inPlace, !.writerIndex_ = @ + Len(data)]
        ELSE append([b EXCEPT !.buffer_ = inPlace, !.writerIndex_ = Len(b.buffer_)],
                    SubSeq(data, writableBytes(b) + 1, Len(data)))
------------------------------------------------------------------------------
Init ==
  /\ buf = Constructed
  /\ carried = <<>>
  /\ peak = 0

\* What MaxHeld allows to be added.
Fits(data) == readableBytes(buf) + Len(data) <= MaxHeld

Holds(b) == buf' = b /\ peak' = Larger(peak, readableBytes(b))

AppendData(data) ==
  /\ Fits(data)
  /\ Holds(append(buf, data))
  /\ carried' = data

\* readFd().  With n <= 0 it changes nothing but errno.
ReadFd(data) ==
  /\ Fits(data)
  /\ data # <<>> /\ Len(data) <= ReadCapacity(buf)
  /\ Holds(Filled(buf, data))
  /\ carried' = data

\* retrieve() accepts more than there is.
Retrieve(len) ==
  /\ Holds(retrieve(buf, len))
  /\ carried' = <<>>

\* retrieveAsString() and, for all there is, retrieveAllAsString(): the string
\* is built from peek() without a look at readableBytes(), so callers ask for
\* no more than that.
RetrieveAsString(len) ==
  /\ len <= readableBytes(buf)
  /\ carried' = SubSeq(buf.buffer_, buf.readerIndex_ + 1, buf.readerIndex_ + len)
  /\ Holds(retrieve(buf, len))

\* writeFd(): write() is given all that is readable and takes n bytes of it.
\* The caller retrieves them (TcpConnection::handleWrite).
WriteFd(n) ==
  /\ n <= readableBytes(buf)
  /\ carried' = SubSeq(Content(buf), 1, n)
  /\ UNCHANGED <<buf, peak>>

Next ==
  \/ \E data \in Strings : AppendData(data) \/ ReadFd(data)
  \/ \E n \in 0 .. MaxHeld + 1 : Retrieve(n) \/ RetrieveAsString(n) \/ WriteFd(n)

Spec == Init /\ [][Next]_vars
------------------------------------------------------------------------------
\* The object is well formed: the indices lie in order inside the vector, so
\* that no copy leaves it, and the room at the front is never given away
\* (Buffer.h:95-96).
TypeOK ==
  /\ buf \in [buffer_ : Seq(Bytes), readerIndex_ : Nat, writerIndex_ : Nat]
  /\ kCheapPrepend <= buf.readerIndex_
  /\ buf.readerIndex_ <= buf.writerIndex_
  /\ buf.writerIndex_ <= Len(buf.buffer_)
  /\ carried \in Seq(Bytes)
  /\ peak \in Nat
  /\ readableBytes(buf) <= peak

\* A Buffer is a queue of bytes, whatever moves and growth makeSpace() makes
\* and however readFd() divides what it reads (Buffer.h:93-110,
\* Buffer.cc:25-39).
Queue == INSTANCE ByteQueue WITH content <- Content(buf)
ImplementsByteQueue == Queue!Spec

\* Memory stays in proportion to what the Buffer has held: makeSpace()
\* (Buffer.h:98) grows the vector only if moving the bytes down would not do,
\* so that a stream that is read as it comes never makes it grow on and on.
BoundedWaste ==
  Len(buf.buffer_) <= kCheapPrepend + Larger(kInitialSize, 2 * peak)
==============================================================================
