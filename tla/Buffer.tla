------------------------------- MODULE Buffer -------------------------------
(***************************************************************************)
(* The growable byte buffer (Buffer.h, Buffer.cc): a vector with a reader  *)
(* and a writer index.  Room for new bytes is made by moving the readable  *)
(* bytes to the front or by resizing the vector; readFd reads into the     *)
(* free tail and a second area on the stack at once.  A Buffer is a value  *)
(* (a record of its three members), its methods are operators on it, and   *)
(* the specification lets a caller invoke them in any order.               *)
(***************************************************************************)
EXTENDS Naturals, Sequences

CONSTANTS
  Bytes,          \* the values of a char
  Zero,           \* the char that resize() fills with
  kCheapPrepend,
  kInitalSize,
  ExtraSize,      \* sizeof extrabuf in readFd
  Strings,        \* the byte strings callers append and sockets deliver
  Lengths,        \* the lengths callers ask for
  MaxReadable     \* the bound on the bytes ever held: the peak load

ASSUME BufferAssumption ==
  /\ Zero \in Bytes
  /\ kCheapPrepend \in Nat
  /\ kInitalSize \in Nat
  /\ kCheapPrepend <= kInitalSize
  /\ ExtraSize \in Nat
  /\ Strings \subseteq Seq(Bytes)
  /\ Lengths \subseteq Nat
  /\ MaxReadable \in Nat

VARIABLES
  buf,    \* the Buffer
  seen    \* what the last read (a returned string, a write(2)) was given

vars == <<buf, seen>>

Buffers == [buffer_ : Seq(Bytes), readerIndex_ : Nat, writerIndex_ : Nat]

Buffer_(v, r, w) == [buffer_ |-> v, readerIndex_ |-> r, writerIndex_ |-> w]

\* The constructor resizes to kInitalSize whatever its argument was.
NewBuffer ==
  Buffer_([i \in 1 .. kInitalSize |-> Zero], kCheapPrepend, kCheapPrepend)

size(b) == Len(b.buffer_)
readableBytes(b) == b.writerIndex_ - b.readerIndex_
writableBytes(b) == size(b) - b.writerIndex_
prependableBytes(b) == b.readerIndex_

\* The n bytes from peek().
peek(b, n) == SubSeq(b.buffer_, b.readerIndex_ + 1, b.readerIndex_ + n)

\* buffer_.resize(n)
resize(s, n) == [i \in 1 .. n |-> IF i <= Len(s) THEN s[i] ELSE Zero]

\* std::copy of data to position at of the vector.
copyTo(s, at, data) ==
  [i \in 1 .. Len(s) |-> IF at < i /\ i <= at + Len(data) THEN data[i - at] ELSE s[i]]

retrieveAll(b) == Buffer_(b.buffer_, kCheapPrepend, kCheapPrepend)

\* Mutant: the reader index passes the writer index.
retrieve_NoClamp(b, len) ==
  Buffer_(b.buffer_, b.readerIndex_ + len, b.writerIndex_)

retrieve(b, len) ==
  IF len < readableBytes(b)
  THEN Buffer_(b.buffer_, b.readerIndex_ + len, b.writerIndex_)
  ELSE retrieveAll(b)

grow(b, len) ==
  Buffer_(resize(b.buffer_, b.writerIndex_ + len), b.readerIndex_, b.writerIndex_)

moveToFront(b) ==
  Buffer_(copyTo(b.buffer_, kCheapPrepend, peek(b, readableBytes(b))),
          kCheapPrepend, kCheapPrepend + readableBytes(b))

\* Mutant: the vector always grows, the bytes are never moved.
makeSpace_AlwaysGrow(b, len) == grow(b, len)

\* The test of makeSpace: even moved to the front, the bytes leave no room.
mustGrow(b, len) ==
  writableBytes(b) + prependableBytes(b) < len + kCheapPrepend

makeSpace(b, len) == IF mustGrow(b, len) THEN grow(b, len) ELSE moveToFront(b)

ensureWritableBytes(b, len) ==
  IF writableBytes(b) < len THEN makeSpace(b, len) ELSE b

\* The copy and the new writer index, once there is room.
write(b, data) ==
  Buffer_(copyTo(b.buffer_, b.writerIndex_, data),
          b.readerIndex_, b.writerIndex_ + Len(data))

append(b, data) == write(ensureWritableBytes(b, Len(data)), data)

\* readv fills the writable tail, then extrabuf if the tail is the smaller one.
readCapacity(b) ==
  writableBytes(b) + (IF writableBytes(b) < ExtraSize THEN ExtraSize ELSE 0)

\* Mutant: what went to extrabuf is forgotten.
readFd_NoAppend(b, data) ==
  LET writable == writableBytes(b) IN
  write(b, SubSeq(data, 1, IF Len(data) <= writable THEN Len(data) ELSE writable))

\* readFd when readv delivers data: the overflow is appended from extrabuf.
readFd(b, data) ==
  LET writable == writableBytes(b) IN
  IF Len(data) <= writable
  THEN write(b, data)
  ELSE append(write(b, SubSeq(data, 1, writable)),
              SubSeq(data, writable + 1, Len(data)))

-----------------------------------------------------------------------------
(* A caller.                                                               *)

Init == buf = NewBuffer /\ seen = <<>>

\* Bound: the caller never lets more than MaxReadable bytes accumulate.
Fits(len) == readableBytes(buf) + len <= MaxReadable

Append_(data) ==
  /\ Fits(Len(data))
  /\ buf' = append(buf, data)
  /\ UNCHANGED seen

ReadFd(data) ==
  /\ Fits(Len(data))
  /\ Len(data) <= readCapacity(buf)
  /\ buf' = readFd(buf, data)
  /\ UNCHANGED seen

EnsureWritable(len) ==
  /\ Fits(len)
  /\ buf' = ensureWritableBytes(buf, len)
  /\ UNCHANGED seen

Retrieve(len) ==
  /\ buf' = retrieve(buf, len)
  /\ UNCHANGED seen

RetrieveAll ==
  /\ buf' = retrieveAll(buf)
  /\ UNCHANGED seen

\* retrieveAsString does not check len; its caller must.
RetrieveAsString(len) ==
  /\ len <= readableBytes(buf)
  /\ seen' = peek(buf, len)
  /\ buf' = retrieve(buf, len)

RetrieveAllAsString == RetrieveAsString(readableBytes(buf))

\* writeFd: the socket takes len of the readable bytes, which stay readable.
WriteFd(len) ==
  /\ len <= readableBytes(buf)
  /\ seen' = peek(buf, len)
  /\ UNCHANGED buf

Next ==
  \/ \E data \in Strings : Append_(data) \/ ReadFd(data)
  \/ \E len \in Lengths :
       EnsureWritable(len) \/ Retrieve(len) \/ RetrieveAsString(len) \/ WriteFd(len)
  \/ RetrieveAll
  \/ RetrieveAllAsString

Spec == Init /\ [][Next]_vars

-----------------------------------------------------------------------------
(* Properties.                                                             *)

TypeOK == buf \in Buffers /\ seen \in Seq(Bytes)

\* The layout drawn in Buffer.h, with the prepend area always there: every
\* access through peek() and beginWrite() stays inside the vector.
IndicesOrdered ==
  /\ kCheapPrepend <= buf.readerIndex_
  /\ buf.readerIndex_ <= buf.writerIndex_
  /\ buf.writerIndex_ <= size(buf)

\* Moving the readable bytes to the front before growing keeps the vector within
\* twice the peak load, however many appends and partial reads there are.
SpaceBounded ==
  \/ size(buf) <= kInitalSize
  \/ size(buf) <= kCheapPrepend + 2 * MaxReadable

\* std::copy in makeSpace moves the bytes to a strictly lower place; with the
\* same place it would be a copy onto itself, which std::copy does not allow,
\* and would make no room.
MovesForward ==
  \A len \in Lengths :
    writableBytes(buf) < len /\ ~mustGrow(buf, len) =>
      buf.readerIndex_ > kCheapPrepend

\* A Buffer is a byte queue: no byte is lost, repeated, reordered or invented by
\* any mix of appends, reads from a socket, partial reads, moves and resizes.
content == peek(buf, readableBytes(buf))
BQ == INSTANCE ByteQueue
ImplementsByteQueue == BQ!Spec
=============================================================================
