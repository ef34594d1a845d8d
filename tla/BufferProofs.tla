---------------------------- MODULE BufferProofs ----------------------------
(***************************************************************************)
(* For any prepend size, initial size, stack area, byte strings and peak   *)
(* load: the indices stay ordered, the space stays bounded, and a Buffer   *)
(* implements a byte queue.                                                *)
(***************************************************************************)
EXTENDS Buffer, SequenceTheorems, TLAPS

\* A Buffer whose indices are in order; the operators are proved correct on it.
Good(b) ==
  /\ b \in Buffers
  /\ kCheapPrepend <= b.readerIndex_
  /\ b.readerIndex_ <= b.writerIndex_
  /\ b.writerIndex_ <= size(b)

Content(b) == peek(b, readableBytes(b))

\* A vector of bytes and two naturals make a Buffer.
LEMMA BufferType ==
  ASSUME NEW v \in Seq(Bytes), NEW r \in Nat, NEW w \in Nat
  PROVE  Buffer_(v, r, w) \in Buffers
BY DEF Buffer_, Buffers

\* The constructor leaves an empty, well-formed Buffer.
LEMMA NewBufferGood ==
  Good(NewBuffer) /\ readableBytes(NewBuffer) = 0 /\ size(NewBuffer) = kInitalSize
<1>1. /\ [i \in 1 .. kInitalSize |-> Zero] \in Seq(Bytes)
      /\ Len([i \in 1 .. kInitalSize |-> Zero]) = kInitalSize
  BY BufferAssumption
<1> QED
  BY <1>1, BufferAssumption DEF Good, NewBuffer, Buffer_, Buffers, size, readableBytes

\* peek() gives the bytes from the reader index on.
LEMMA PeekProperties ==
  ASSUME NEW b, Good(b), NEW n \in 0 .. readableBytes(b)
  PROVE  /\ peek(b, n) \in Seq(Bytes)
         /\ Len(peek(b, n)) = n
         /\ \A i \in 1 .. n : peek(b, n)[i] = b.buffer_[b.readerIndex_ + i]
<1>1. /\ b.buffer_ \in Seq(Bytes)
      /\ b.readerIndex_ \in Nat
      /\ b.readerIndex_ + n <= Len(b.buffer_)
      /\ n \in Nat
  BY DEF Good, Buffers, size, readableBytes
<1>2. \A i \in b.readerIndex_ + 1 .. b.readerIndex_ + n : b.buffer_[i] \in Bytes
  BY <1>1, ElementOfSeq
<1> DEFINE lo == b.readerIndex_ + 1
           hi == b.readerIndex_ + n
<1>3. /\ lo \in Int /\ hi \in Int
      /\ hi - lo + 1 = n
      /\ lo <= hi <=> n # 0
      /\ \A i \in 1 .. n : lo + i - 1 = b.readerIndex_ + i
  <2>1. ASSUME NEW r \in Nat, NEW k \in Nat
        PROVE  /\ r + 1 \in Int /\ r + k \in Int
               /\ (r + k) - (r + 1) + 1 = k
               /\ r + 1 <= r + k <=> k # 0
               /\ \A i \in 1 .. k : (r + 1) + i - 1 = r + i
    OBVIOUS
  <2> QED BY <1>1, <2>1, Zenon
<1>4. peek(b, n) = SubSeq(b.buffer_, lo, hi)
  BY DEF peek
<1> HIDE DEF lo, hi
<1>5. /\ SubSeq(b.buffer_, lo, hi) \in Seq(Bytes)
      /\ Len(SubSeq(b.buffer_, lo, hi)) = IF lo <= hi THEN hi - lo + 1 ELSE 0
      /\ \A i \in 1 .. hi - lo + 1 :
           SubSeq(b.buffer_, lo, hi)[i] = b.buffer_[lo + i - 1]
  <2>1. \A i \in lo .. hi : b.buffer_[i] \in Bytes
    BY <1>2 DEF lo, hi
  <2> QED
    BY <1>3, <2>1, SubSeqProperties
<1> QED
  BY <1>1, <1>3, <1>4, <1>5

\* The bytes of a well-formed Buffer.
LEMMA ContentProperties ==
  ASSUME NEW b, Good(b)
  PROVE  /\ readableBytes(b) \in Nat
         /\ writableBytes(b) \in Nat
         /\ size(b) \in Nat
         /\ Content(b) \in Seq(Bytes)
         /\ Len(Content(b)) = readableBytes(b)
         /\ \A i \in 1 .. readableBytes(b) : Content(b)[i] = b.buffer_[b.readerIndex_ + i]
<1>1. /\ readableBytes(b) \in Nat
      /\ writableBytes(b) \in Nat
      /\ size(b) \in Nat
  BY DEF Good, Buffers, readableBytes, writableBytes, size
<1>2. readableBytes(b) \in 0 .. readableBytes(b)
  BY <1>1
<1> QED
  BY <1>1, <1>2, PeekProperties DEF Content

\* std::copy changes exactly the bytes it writes.
LEMMA CopyProperties ==
  ASSUME NEW s \in Seq(Bytes), NEW at \in Nat, NEW data \in Seq(Bytes),
         at + Len(data) <= Len(s)
  PROVE  /\ copyTo(s, at, data) \in Seq(Bytes)
         /\ Len(copyTo(s, at, data)) = Len(s)
         /\ \A i \in 1 .. Len(s) : copyTo(s, at, data)[i] =
              IF at < i /\ i <= at + Len(data) THEN data[i - at] ELSE s[i]
<1>1. Len(s) \in Nat /\ Len(data) \in Nat
  BY LenProperties
<1>2. ASSUME NEW i \in 1 .. Len(s)
      PROVE  (IF at < i /\ i <= at + Len(data) THEN data[i - at] ELSE s[i]) \in Bytes
  <2>1. CASE at < i /\ i <= at + Len(data)
    <3>1. i - at \in 1 .. Len(data)
      BY <1>1, <2>1
    <3> QED BY <2>1, <3>1, ElementOfSeq
  <2>2. CASE ~(at < i /\ i <= at + Len(data))
    BY <2>2, ElementOfSeq
  <2> QED BY <2>1, <2>2
<1> QED
  BY <1>1, <1>2 DEF copyTo

\* resize() to a larger size keeps the bytes.
LEMMA ResizeProperties ==
  ASSUME NEW s \in Seq(Bytes), NEW n \in Nat, Len(s) <= n
  PROVE  /\ resize(s, n) \in Seq(Bytes)
         /\ Len(resize(s, n)) = n
         /\ \A i \in 1 .. Len(s) : resize(s, n)[i] = s[i]
<1>1. Len(s) \in Nat
  BY LenProperties
<1>2. \A i \in 1 .. n : (IF i <= Len(s) THEN s[i] ELSE Zero) \in Bytes
  BY <1>1, ElementOfSeq, BufferAssumption
<1> QED
  BY <1>1, <1>2 DEF resize

-----------------------------------------------------------------------------
\* Writing into the free tail appends to the content and moves nothing else.
LEMMA WriteCorrect ==
  ASSUME NEW b, Good(b), NEW data \in Seq(Bytes), Len(data) <= writableBytes(b)
  PROVE  /\ Good(write(b, data))
         /\ size(write(b, data)) = size(b)
         /\ Content(write(b, data)) = Content(b) \o data
         /\ readableBytes(write(b, data)) = readableBytes(b) + Len(data)
<1> DEFINE c == write(b, data)
<1>1. /\ b.buffer_ \in Seq(Bytes) /\ b.readerIndex_ \in Nat /\ b.writerIndex_ \in Nat
      /\ Len(data) \in Nat /\ Len(b.buffer_) \in Nat
      /\ b.writerIndex_ + Len(data) <= Len(b.buffer_)
      /\ b.readerIndex_ <= b.writerIndex_
      /\ kCheapPrepend <= b.readerIndex_
      /\ kCheapPrepend \in Nat
  BY LenProperties, BufferAssumption DEF Good, Buffers, writableBytes, size
<1>2. /\ c.buffer_ = copyTo(b.buffer_, b.writerIndex_, data)
      /\ c.readerIndex_ = b.readerIndex_
      /\ c.writerIndex_ = b.writerIndex_ + Len(data)
  BY DEF write, Buffer_
<1>3. /\ c.buffer_ \in Seq(Bytes)
      /\ Len(c.buffer_) = Len(b.buffer_)
      /\ \A i \in 1 .. Len(b.buffer_) : c.buffer_[i] =
           IF b.writerIndex_ < i /\ i <= b.writerIndex_ + Len(data)
           THEN data[i - b.writerIndex_] ELSE b.buffer_[i]
  BY <1>1, <1>2, CopyProperties
<1>4. Good(c) /\ size(c) = size(b)
  <2>1. c \in Buffers
    BY <1>1, <1>2, <1>3 DEF write, Buffer_, Buffers
  <2> QED
    BY <1>1, <1>2, <1>3, <2>1 DEF Good, size
<1>5. readableBytes(c) = readableBytes(b) + Len(data)
  BY <1>1, <1>2 DEF readableBytes
<1> HIDE DEF c
<1>6. /\ Content(b) \o data \in Seq(Bytes)
      /\ Len(Content(b) \o data) = readableBytes(b) + Len(data)
      /\ \A i \in 1 .. readableBytes(b) + Len(data) : (Content(b) \o data)[i] =
           IF i <= readableBytes(b) THEN Content(b)[i] ELSE data[i - readableBytes(b)]
  <2>1. Content(b) \in Seq(Bytes) /\ Len(Content(b)) = readableBytes(b)
    BY ContentProperties
  <2>2. /\ Content(b) \o data \in Seq(Bytes)
        /\ Len(Content(b) \o data) = Len(Content(b)) + Len(data)
        /\ \A i \in 1 .. Len(Content(b)) + Len(data) : (Content(b) \o data)[i] =
             IF i <= Len(Content(b)) THEN Content(b)[i] ELSE data[i - Len(Content(b))]
    BY <2>1, ConcatProperties
  <2> QED
    BY <2>1, <2>2
<1>7. ASSUME NEW i \in 1 .. readableBytes(b) + Len(data)
      PROVE  Content(c)[i] = (Content(b) \o data)[i]
  <2>1. /\ Content(c)[i] = c.buffer_[b.readerIndex_ + i]
        /\ readableBytes(b) \in Nat
        /\ readableBytes(b) = b.writerIndex_ - b.readerIndex_
    BY <1>2, <1>4, <1>5, ContentProperties DEF readableBytes
  <2>2. b.readerIndex_ + i \in 1 .. Len(b.buffer_)
    BY <1>1, <2>1, SMTT(30)
  <2>3. CASE i <= readableBytes(b)
    <3>1. c.buffer_[b.readerIndex_ + i] = b.buffer_[b.readerIndex_ + i]
      <4>1. ~(b.writerIndex_ < b.readerIndex_ + i)
        BY <1>1, <2>1, <2>3
      <4> QED BY <1>3, <2>2, <4>1
    <3>2. Content(b)[i] = b.buffer_[b.readerIndex_ + i]
      BY <2>1, <2>3, ContentProperties
    <3> QED BY <1>6, <2>1, <2>3, <3>1, <3>2
  <2>4. CASE ~(i <= readableBytes(b))
    <3> DEFINE j == b.readerIndex_ + i
    <3>1. /\ j \in 1 .. Len(b.buffer_)
          /\ b.writerIndex_ < j
          /\ j <= b.writerIndex_ + Len(data)
          /\ j - b.writerIndex_ = i - readableBytes(b)
          /\ Content(c)[i] = c.buffer_[j]
      BY <1>1, <2>1, <2>2, <2>4, SMTT(30)
    <3> HIDE DEF j
    <3>2. c.buffer_[j] = data[j - b.writerIndex_]
      BY <1>3, <3>1
    <3>3. (Content(b) \o data)[i] = data[i - readableBytes(b)]
      BY <1>6, <2>4
    <3> QED BY <3>1, <3>2, <3>3
  <2> QED BY <2>3, <2>4
<1>8. Content(c) = Content(b) \o data
  BY <1>4, <1>5, <1>6, <1>7, ContentProperties, SeqEqual
<1> QED
  BY <1>4, <1>5, <1>8 DEF c

\* Two well-formed Buffers with the same bytes between their indices.
LEMMA SameContent ==
  ASSUME NEW b, Good(b), NEW c, Good(c),
         readableBytes(c) = readableBytes(b),
         \A i \in 1 .. readableBytes(b) :
           c.buffer_[c.readerIndex_ + i] = b.buffer_[b.readerIndex_ + i]
  PROVE  Content(c) = Content(b)
<1>1. /\ Content(b) \in Seq(Bytes) /\ Len(Content(b)) = readableBytes(b)
      /\ Content(c) \in Seq(Bytes) /\ Len(Content(c)) = readableBytes(b)
      /\ \A i \in 1 .. readableBytes(b) : Content(b)[i] = b.buffer_[b.readerIndex_ + i]
      /\ \A i \in 1 .. readableBytes(b) : Content(c)[i] = c.buffer_[c.readerIndex_ + i]
  BY ContentProperties
<1>2. \A i \in 1 .. Len(Content(c)) : Content(c)[i] = Content(b)[i]
  BY <1>1
<1> QED
  BY <1>1, <1>2, SeqEqual

\* resize() in makeSpace makes room, keeps the content, and is bounded.
LEMMA GrowCorrect ==
  ASSUME NEW b, Good(b), NEW len \in Nat, writableBytes(b) < len, mustGrow(b, len)
  PROVE  /\ Good(grow(b, len))
         /\ Content(grow(b, len)) = Content(b)
         /\ readableBytes(grow(b, len)) = readableBytes(b)
         /\ len <= writableBytes(grow(b, len))
         /\ size(grow(b, len)) <= kCheapPrepend + readableBytes(b) + 2 * len
<1> DEFINE c == grow(b, len)
<1>1. /\ b.buffer_ \in Seq(Bytes) /\ b.readerIndex_ \in Nat /\ b.writerIndex_ \in Nat
      /\ Len(b.buffer_) \in Nat
      /\ b.writerIndex_ <= Len(b.buffer_)
      /\ b.readerIndex_ <= b.writerIndex_
      /\ kCheapPrepend <= b.readerIndex_
      /\ kCheapPrepend \in Nat
      /\ Len(b.buffer_) <= b.writerIndex_ + len
      /\ Len(b.buffer_) - b.writerIndex_ + b.readerIndex_ < len + kCheapPrepend
  BY LenProperties, BufferAssumption
     DEF Good, Buffers, writableBytes, size, mustGrow, prependableBytes
<1>2. /\ c.buffer_ = resize(b.buffer_, b.writerIndex_ + len)
      /\ c.readerIndex_ = b.readerIndex_
      /\ c.writerIndex_ = b.writerIndex_
  BY DEF grow, Buffer_
<1>3. /\ c.buffer_ \in Seq(Bytes)
      /\ Len(c.buffer_) = b.writerIndex_ + len
      /\ \A i \in 1 .. Len(b.buffer_) : c.buffer_[i] = b.buffer_[i]
  BY <1>1, <1>2, ResizeProperties, SMTT(30)
<1>4. c \in Buffers
  BY <1>1, <1>2, <1>3 DEF grow, Buffer_, Buffers
<1> HIDE DEF c
<1>5. Good(c)
  BY <1>1, <1>2, <1>3, <1>4 DEF Good, size
<1>6. readableBytes(c) = readableBytes(b)
  BY <1>2 DEF readableBytes
<1>7. Content(c) = Content(b)
  <2>1. \A i \in 1 .. readableBytes(b) : b.readerIndex_ + i \in 1 .. Len(b.buffer_)
    BY <1>1, SMTT(30) DEF readableBytes
  <2>2. \A i \in 1 .. readableBytes(b) :
          c.buffer_[c.readerIndex_ + i] = b.buffer_[b.readerIndex_ + i]
    BY <1>2, <1>3, <2>1
  <2> QED BY <1>5, <1>6, <2>2, SameContent
<1>8. len <= writableBytes(c)
  BY <1>1, <1>2, <1>3 DEF writableBytes, size
<1>9. size(c) <= kCheapPrepend + readableBytes(b) + 2 * len
  BY <1>1, <1>3, SMTT(30) DEF size, readableBytes
<1> QED
  BY <1>5, <1>6, <1>7, <1>8, <1>9 DEF c

\* std::copy in makeSpace makes room in the same vector and keeps the content.
LEMMA MoveCorrect ==
  ASSUME NEW b, Good(b), NEW len \in Nat, ~mustGrow(b, len)
  PROVE  /\ Good(moveToFront(b))
         /\ Content(moveToFront(b)) = Content(b)
         /\ readableBytes(moveToFront(b)) = readableBytes(b)
         /\ len <= writableBytes(moveToFront(b))
         /\ size(moveToFront(b)) = size(b)
<1> DEFINE c == moveToFront(b)
<1>1. /\ b.buffer_ \in Seq(Bytes) /\ b.readerIndex_ \in Nat /\ b.writerIndex_ \in Nat
      /\ Len(b.buffer_) \in Nat
      /\ b.writerIndex_ <= Len(b.buffer_)
      /\ b.readerIndex_ <= b.writerIndex_
      /\ kCheapPrepend <= b.readerIndex_
      /\ kCheapPrepend \in Nat
      /\ readableBytes(b) = b.writerIndex_ - b.readerIndex_
      /\ Len(b.buffer_) - b.writerIndex_ + b.readerIndex_ >= len + kCheapPrepend
  BY LenProperties, BufferAssumption
     DEF Good, Buffers, writableBytes, size, mustGrow, prependableBytes, readableBytes
<1>2. /\ c.buffer_ = copyTo(b.buffer_, kCheapPrepend, Content(b))
      /\ c.readerIndex_ = kCheapPrepend
      /\ c.writerIndex_ = kCheapPrepend + readableBytes(b)
  BY DEF moveToFront, Buffer_, Content
<1>3. /\ Content(b) \in Seq(Bytes)
      /\ Len(Content(b)) = readableBytes(b)
      /\ readableBytes(b) \in Nat
      /\ kCheapPrepend + readableBytes(b) <= Len(b.buffer_)
      /\ \A i \in 1 .. readableBytes(b) : Content(b)[i] = b.buffer_[b.readerIndex_ + i]
  BY <1>1, ContentProperties, SMTT(30)
<1>4. /\ c.buffer_ \in Seq(Bytes)
      /\ Len(c.buffer_) = Len(b.buffer_)
      /\ \A i \in 1 .. Len(b.buffer_) : c.buffer_[i] =
           IF kCheapPrepend < i /\ i <= kCheapPrepend + Len(Content(b))
           THEN Content(b)[i - kCheapPrepend] ELSE b.buffer_[i]
  <2>1. kCheapPrepend + Len(Content(b)) <= Len(b.buffer_)
    BY <1>3
  <2>2. /\ copyTo(b.buffer_, kCheapPrepend, Content(b)) \in Seq(Bytes)
        /\ Len(copyTo(b.buffer_, kCheapPrepend, Content(b))) = Len(b.buffer_)
        /\ \A i \in 1 .. Len(b.buffer_) :
             copyTo(b.buffer_, kCheapPrepend, Content(b))[i] =
               IF kCheapPrepend < i /\ i <= kCheapPrepend + Len(Content(b))
               THEN Content(b)[i - kCheapPrepend] ELSE b.buffer_[i]
    BY <1>1, <1>3, <2>1, CopyProperties
  <2> HIDE DEF c
  <2> QED BY <1>2, <2>2
<1>5. c \in Buffers
  <2>1. /\ copyTo(b.buffer_, kCheapPrepend, Content(b)) \in Seq(Bytes)
        /\ kCheapPrepend \in Nat
        /\ kCheapPrepend + readableBytes(b) \in Nat
    BY <1>1, <1>2, <1>3, <1>4
  <2>2. c = Buffer_(copyTo(b.buffer_, kCheapPrepend, Content(b)),
                    kCheapPrepend, kCheapPrepend + readableBytes(b))
    BY DEF moveToFront, Content
  <2> HIDE DEF c
  <2> QED BY <2>1, <2>2, BufferType
<1> HIDE DEF c
<1>6. Good(c) /\ size(c) = size(b)
  BY <1>1, <1>2, <1>3, <1>4, <1>5 DEF Good, size
<1>7. readableBytes(c) = readableBytes(b)
  BY <1>1, <1>2, <1>3 DEF readableBytes
<1>8. ASSUME NEW i \in 1 .. readableBytes(b)
      PROVE  c.buffer_[c.readerIndex_ + i] = b.buffer_[b.readerIndex_ + i]
  <2> DEFINE j == kCheapPrepend + i
  <2>1. /\ j \in 1 .. Len(b.buffer_)
        /\ kCheapPrepend < j
        /\ j <= kCheapPrepend + Len(Content(b))
        /\ j - kCheapPrepend = i
        /\ c.readerIndex_ + i = j
    BY <1>1, <1>2, <1>3, SMTT(30)
  <2> HIDE DEF j
  <2>2. c.buffer_[j] = Content(b)[j - kCheapPrepend]
    BY <1>4, <2>1
  <2> QED BY <1>3, <2>1, <2>2
<1>9. Content(c) = Content(b)
  BY <1>6, <1>7, <1>8, SameContent
<1>10. len <= writableBytes(c)
  BY <1>1, <1>2, <1>4 DEF writableBytes, size
<1> QED
  BY <1>6, <1>7, <1>9, <1>10 DEF c

\* ensureWritableBytes makes room for len bytes and keeps the content.
LEMMA EnsureCorrect ==
  ASSUME NEW b, Good(b), NEW len \in Nat
  PROVE  /\ Good(ensureWritableBytes(b, len))
         /\ Content(ensureWritableBytes(b, len)) = Content(b)
         /\ readableBytes(ensureWritableBytes(b, len)) = readableBytes(b)
         /\ len <= writableBytes(ensureWritableBytes(b, len))
         /\ \/ size(ensureWritableBytes(b, len)) = size(b)
            \/ size(ensureWritableBytes(b, len)) <= kCheapPrepend + readableBytes(b) + 2 * len
<1>1. CASE ~(writableBytes(b) < len)
  BY <1>1, ContentProperties DEF ensureWritableBytes
<1>2. CASE writableBytes(b) < len /\ mustGrow(b, len)
  BY <1>2, GrowCorrect DEF ensureWritableBytes, makeSpace
<1>3. CASE writableBytes(b) < len /\ ~mustGrow(b, len)
  BY <1>3, MoveCorrect DEF ensureWritableBytes, makeSpace
<1> QED
  BY <1>1, <1>2, <1>3

\* append() appends.
LEMMA AppendCorrect ==
  ASSUME NEW b, Good(b), NEW data \in Seq(Bytes)
  PROVE  /\ Good(append(b, data))
         /\ Content(append(b, data)) = Content(b) \o data
         /\ readableBytes(append(b, data)) = readableBytes(b) + Len(data)
         /\ \/ size(append(b, data)) = size(b)
            \/ size(append(b, data)) <= kCheapPrepend + readableBytes(b) + 2 * Len(data)
<1>1. Len(data) \in Nat
  BY LenProperties
<1> DEFINE e == ensureWritableBytes(b, Len(data))
<1>2. /\ Good(e)
      /\ Content(e) = Content(b)
      /\ readableBytes(e) = readableBytes(b)
      /\ Len(data) <= writableBytes(e)
      /\ \/ size(e) = size(b)
         \/ size(e) <= kCheapPrepend + readableBytes(b) + 2 * Len(data)
  BY <1>1, EnsureCorrect
<1>3. append(b, data) = write(e, data)
  BY DEF append
<1> HIDE DEF e
<1> QED
  BY <1>2, <1>3, WriteCorrect

\* The bytes that fill the tail, then those of the stack area: both are appended.
LEMMA SpillCorrect ==
  ASSUME NEW b, Good(b), NEW d1 \in Seq(Bytes), NEW d2 \in Seq(Bytes),
         Len(d1) = writableBytes(b)
  PROVE  /\ Good(append(write(b, d1), d2))
         /\ Content(append(write(b, d1), d2)) = Content(b) \o (d1 \o d2)
         /\ readableBytes(append(write(b, d1), d2)) = readableBytes(b) + (Len(d1) + Len(d2))
         /\ \/ size(append(write(b, d1), d2)) = size(b)
            \/ size(append(write(b, d1), d2))
                 <= kCheapPrepend + readableBytes(b) + 2 * (Len(d1) + Len(d2))
<1> DEFINE m == write(b, d1)
           n == append(m, d2)
<1>1. /\ readableBytes(b) \in Nat /\ Len(d1) \in Nat /\ Len(d2) \in Nat
      /\ kCheapPrepend \in Nat /\ Len(d1) <= writableBytes(b)
  BY ContentProperties, LenProperties, BufferAssumption
<1>2. Content(b) \in Seq(Bytes)
  BY ContentProperties
<1>3. /\ Good(m)
      /\ size(m) = size(b)
      /\ Content(m) = Content(b) \o d1
      /\ readableBytes(m) = readableBytes(b) + Len(d1)
  BY <1>1, WriteCorrect
<1> HIDE DEF m
<1>4. /\ Good(n)
      /\ Content(n) = Content(m) \o d2
      /\ readableBytes(n) = readableBytes(m) + Len(d2)
      /\ \/ size(n) = size(m)
         \/ size(n) <= kCheapPrepend + readableBytes(m) + 2 * Len(d2)
  BY <1>3, AppendCorrect
<1> HIDE DEF n
<1>5. Content(n) = Content(b) \o (d1 \o d2)
  BY <1>2, <1>3, <1>4, ConcatAssociative, SMTT(30)
<1>6. size(n) \in Nat
  BY <1>4, ContentProperties
<1>7. readableBytes(n) = readableBytes(b) + (Len(d1) + Len(d2))
  BY <1>1, <1>3, <1>4
<1>8. \/ size(n) = size(b)
      \/ size(n) <= kCheapPrepend + readableBytes(b) + 2 * (Len(d1) + Len(d2))
  BY <1>1, <1>3, <1>4, <1>6, SMTT(30)
<1> QED
  BY <1>4, <1>5, <1>7, <1>8 DEF n, m

\* readFd appends what readv delivered, through the stack area if need be.
LEMMA ReadFdCorrect ==
  ASSUME NEW b, Good(b), NEW data \in Seq(Bytes)
  PROVE  /\ Good(readFd(b, data))
         /\ Content(readFd(b, data)) = Content(b) \o data
         /\ readableBytes(readFd(b, data)) = readableBytes(b) + Len(data)
         /\ \/ size(readFd(b, data)) = size(b)
            \/ size(readFd(b, data)) <= kCheapPrepend + readableBytes(b) + 2 * Len(data)
<1>1. CASE Len(data) <= writableBytes(b)
  BY <1>1, WriteCorrect DEF readFd
<1>2. CASE ~(Len(data) <= writableBytes(b))
  <2> DEFINE w == writableBytes(b)
             d1 == SubSeq(data, 1, w)
             d2 == SubSeq(data, w + 1, Len(data))
             m == write(b, d1)
  <2>1. /\ w \in Nat /\ Len(data) \in Nat /\ w < Len(data)
        /\ readableBytes(b) \in Nat
        /\ Content(b) \in Seq(Bytes)
        /\ kCheapPrepend \in Nat
    BY <1>2, ContentProperties, LenProperties, BufferAssumption
  <2>2. readFd(b, data) = append(m, d2)
    BY <1>2 DEF readFd
  <2> HIDE DEF w
  <2>3. d1 \in Seq(Bytes) /\ Len(d1) = w
    BY <2>1, ElementOfSeq, SubSeqProperties
  <2>4. d2 \in Seq(Bytes) /\ Len(d2) = Len(data) - w
    <3>1. \A i \in w + 1 .. Len(data) : data[i] \in Bytes
      BY <2>1, ElementOfSeq
    <3>2. Len(data) - (w + 1) + 1 = Len(data) - w /\ w + 1 <= Len(data)
      BY <2>1
    <3> QED BY <2>1, <3>1, <3>2, SubSeqProperties
  <2>5. d1 \o d2 = data
    <3>1. /\ 1 \in 1 .. Len(data) + 1
          /\ w \in 1 - 1 .. Len(data)
          /\ Len(data) \in w .. Len(data)
      BY <2>1
    <3>2. d1 \o d2 = SubSeq(data, 1, Len(data))
      BY <3>1, ConcatAdjacentSubSeq
    <3> QED BY <3>2, SubSeqFull
  <2>6. Len(d1) = writableBytes(b)
    BY <2>3 DEF w
  <2> HIDE DEF d1, d2, m
  <2>7. Len(d1) + Len(d2) = Len(data)
    BY <2>3, <2>4, <2>5, ConcatProperties
  <2>8. /\ Good(append(write(b, d1), d2))
        /\ Content(append(write(b, d1), d2)) = Content(b) \o (d1 \o d2)
        /\ readableBytes(append(write(b, d1), d2)) = readableBytes(b) + (Len(d1) + Len(d2))
        /\ \/ size(append(write(b, d1), d2)) = size(b)
           \/ size(append(write(b, d1), d2))
                <= kCheapPrepend + readableBytes(b) + 2 * (Len(d1) + Len(d2))
    BY <2>3, <2>4, <2>6, SpillCorrect
  <2> QED
    BY <2>2, <2>5, <2>7, <2>8 DEF m
<1> QED
  BY <1>1, <1>2

\* retrieve() drops bytes from the front, all of them when asked for too many.
LEMMA RetrieveCorrect ==
  ASSUME NEW b, Good(b), NEW len \in Nat
  PROVE  /\ Good(retrieve(b, len))
         /\ size(retrieve(b, len)) = size(b)
         /\ readableBytes(retrieve(b, len)) <= readableBytes(b)
         /\ Content(retrieve(b, len)) = SubSeq(Content(b), len + 1, Len(Content(b)))
<1> DEFINE c == retrieve(b, len)
<1>1. /\ b.buffer_ \in Seq(Bytes) /\ b.readerIndex_ \in Nat /\ b.writerIndex_ \in Nat
      /\ Len(b.buffer_) \in Nat
      /\ b.writerIndex_ <= Len(b.buffer_)
      /\ b.readerIndex_ <= b.writerIndex_
      /\ kCheapPrepend <= b.readerIndex_
      /\ kCheapPrepend \in Nat
      /\ readableBytes(b) = b.writerIndex_ - b.readerIndex_
      /\ readableBytes(b) \in Nat
  BY LenProperties, BufferAssumption DEF Good, Buffers, size, readableBytes
<1>2. /\ Content(b) \in Seq(Bytes) /\ Len(Content(b)) = readableBytes(b)
      /\ \A i \in 1 .. readableBytes(b) : Content(b)[i] = b.buffer_[b.readerIndex_ + i]
  BY ContentProperties
<1>3. CASE len < readableBytes(b)
  <2>1. /\ c.buffer_ = b.buffer_
        /\ c.readerIndex_ = b.readerIndex_ + len
        /\ c.writerIndex_ = b.writerIndex_
    BY <1>3 DEF retrieve, Buffer_
  <2>2. c \in Buffers
    BY <1>1, <1>3 DEF retrieve, Buffer_, Buffers
  <2> HIDE DEF c
  <2>3. /\ Good(c) /\ size(c) = size(b)
        /\ readableBytes(c) = readableBytes(b) - len
    BY <1>1, <1>3, <2>1, <2>2 DEF Good, size, readableBytes
  <2>4. /\ Content(c) \in Seq(Bytes)
        /\ Len(Content(c)) = readableBytes(b) - len
        /\ \A i \in 1 .. readableBytes(b) - len :
             Content(c)[i] = b.buffer_[b.readerIndex_ + len + i]
    BY <2>1, <2>3, ContentProperties
  <2> DEFINE lo == len + 1
             hi == Len(Content(b))
             r == SubSeq(Content(b), lo, hi)
  <2>5. /\ lo \in Int /\ hi \in Int /\ lo <= hi
        /\ hi - lo + 1 = readableBytes(b) - len
        /\ \A i \in lo .. hi : i \in 1 .. readableBytes(b)
        /\ \A i \in 1 .. readableBytes(b) - len :
             lo + i - 1 = len + i /\ len + i \in 1 .. readableBytes(b)
    BY <1>1, <1>2, <1>3
  <2>6. \A i \in lo .. hi : Content(b)[i] \in Bytes
    BY <1>2, <2>5, ElementOfSeq
  <2> HIDE DEF lo, hi
  <2>7. /\ r \in Seq(Bytes)
        /\ Len(r) = IF lo <= hi THEN hi - lo + 1 ELSE 0
        /\ \A i \in 1 .. hi - lo + 1 : r[i] = Content(b)[lo + i - 1]
    BY <2>5, <2>6, SubSeqProperties
  <2> HIDE DEF r
  <2>8. ASSUME NEW i \in 1 .. readableBytes(b) - len
        PROVE  Content(c)[i] = r[i]
    <3>1. r[i] = Content(b)[len + i]
      BY <2>5, <2>7
    <3>2. Content(b)[len + i] = b.buffer_[b.readerIndex_ + (len + i)]
      BY <1>2, <2>5
    <3>3. b.readerIndex_ + (len + i) = b.readerIndex_ + len + i
      BY <1>1
    <3> QED BY <2>4, <3>1, <3>2, <3>3
  <2>9. Content(c) = r
    BY <2>4, <2>5, <2>7, <2>8, SeqEqual
  <2> QED
    BY <1>1, <2>3, <2>9 DEF c, r, lo, hi
<1>4. CASE ~(len < readableBytes(b))
  <2>1. /\ c.buffer_ = b.buffer_
        /\ c.readerIndex_ = kCheapPrepend
        /\ c.writerIndex_ = kCheapPrepend
    BY <1>4 DEF retrieve, retrieveAll, Buffer_
  <2>2. c \in Buffers
    BY <1>1, <1>4 DEF retrieve, retrieveAll, Buffer_, Buffers
  <2> HIDE DEF c
  <2>3. /\ Good(c) /\ size(c) = size(b) /\ readableBytes(c) = 0
    BY <1>1, <2>1, <2>2 DEF Good, size, readableBytes
  <2>4. Content(c) = <<>>
    BY <2>3, ContentProperties, EmptySeq
  <2>5. SubSeq(Content(b), len + 1, Len(Content(b))) = <<>>
    <3>1. /\ len + 1 \in Int /\ Len(Content(b)) \in Int
          /\ Len(Content(b)) < len + 1
      BY <1>1, <1>2, <1>4
    <3> QED BY <3>1, SubSeqEmpty
  <2>6. readableBytes(c) <= readableBytes(b)
    BY <1>1, <2>3
  <2>7. /\ Good(c) /\ size(c) = size(b)
        /\ Content(c) = SubSeq(Content(b), len + 1, Len(Content(b)))
    BY <2>3, <2>4, <2>5
  <2> QED
    BY <2>6, <2>7 DEF c
<1> QED
  BY <1>3, <1>4
-----------------------------------------------------------------------------
(* The Buffer under any sequence of calls.                                 *)

\* The inductive invariant: what is readable never passes the bound of the caller,
\* so a vector that grows never passes twice that bound.
BufferInv ==
  /\ Good(buf)
  /\ seen \in Seq(Bytes)
  /\ readableBytes(buf) <= MaxReadable
  /\ SpaceBounded

\* A read of n bytes: the peeked string is the head of the content.
LEMMA PeekIsHead ==
  ASSUME NEW b, Good(b), NEW n \in 0 .. readableBytes(b)
  PROVE  peek(b, n) = SubSeq(Content(b), 1, n)
<1>1. /\ Content(b) \in Seq(Bytes) /\ Len(Content(b)) = readableBytes(b)
      /\ readableBytes(b) \in Nat
      /\ \A i \in 1 .. readableBytes(b) : Content(b)[i] = b.buffer_[b.readerIndex_ + i]
  BY ContentProperties
<1>2. /\ peek(b, n) \in Seq(Bytes) /\ Len(peek(b, n)) = n
      /\ \A i \in 1 .. n : peek(b, n)[i] = b.buffer_[b.readerIndex_ + i]
  BY PeekProperties
<1>3. /\ n \in Nat /\ n <= readableBytes(b)
      /\ \A i \in 1 .. n : i \in 1 .. readableBytes(b)
  BY <1>1
<1> DEFINE r == SubSeq(Content(b), 1, n)
<1>4. r \in Seq(Bytes) /\ Len(r) = n /\ \A i \in 1 .. n : r[i] = Content(b)[i]
  <2>1. \A i \in 1 .. n : Content(b)[i] \in Bytes
    BY <1>1, <1>3, ElementOfSeq
  <2>2. /\ r \in Seq(Bytes)
        /\ Len(r) = IF 1 <= n THEN n - 1 + 1 ELSE 0
        /\ \A i \in 1 .. n - 1 + 1 : r[i] = Content(b)[1 + i - 1]
    BY <1>3, <2>1, SubSeqProperties
  <2>3. /\ n - 1 + 1 = n
        /\ (IF 1 <= n THEN n - 1 + 1 ELSE 0) = n
        /\ \A i \in 1 .. n : 1 + i - 1 = i
    BY <1>3
  <2> HIDE DEF r
  <2> QED BY <2>2, <2>3
<1> HIDE DEF r
<1>5. \A i \in 1 .. n : peek(b, n)[i] = r[i]
  BY <1>1, <1>2, <1>3, <1>4
<1>6. peek(b, n) = r
  BY <1>2, <1>4, <1>5, SeqEqual
<1> QED BY <1>6 DEF r

\* Dropping as many bytes as there are is retrieveAll.
LEMMA RetrieveAllIsRetrieve ==
  ASSUME NEW b, Good(b)
  PROVE  retrieveAll(b) = retrieve(b, readableBytes(b))
BY ContentProperties DEF retrieve

\* What a growing step costs, given the bound on the readable bytes.
LEMMA GrowthBounded ==
  ASSUME NEW b, Good(b), NEW c, Good(c), NEW len \in Nat,
         readableBytes(b) + len <= MaxReadable,
         \/ size(c) = size(b)
         \/ size(c) <= kCheapPrepend + readableBytes(b) + 2 * len,
         size(b) <= kInitalSize \/ size(b) <= kCheapPrepend + 2 * MaxReadable
  PROVE  size(c) <= kInitalSize \/ size(c) <= kCheapPrepend + 2 * MaxReadable
<1>1. /\ readableBytes(b) \in Nat /\ size(b) \in Nat /\ size(c) \in Nat
      /\ MaxReadable \in Nat /\ kCheapPrepend \in Nat
  BY ContentProperties, BufferAssumption
<1>2. kCheapPrepend + readableBytes(b) + 2 * len <= kCheapPrepend + 2 * MaxReadable
  BY <1>1
<1> QED
  BY <1>1, <1>2

\* Each operation keeps the invariant and is an operation of the byte queue.
LEMMA BufferStep ==
  ASSUME BufferInv, [Next]_vars
  PROVE  BufferInv' /\ [BQ!Next]_<<content, seen>>
<1> DEFINE n == readableBytes(buf)
<1>1. /\ Good(buf) /\ seen \in Seq(Bytes) /\ n <= MaxReadable
      /\ size(buf) <= kInitalSize \/ size(buf) <= kCheapPrepend + 2 * MaxReadable
  BY DEF BufferInv, SpaceBounded
<1>2. /\ n \in Nat /\ size(buf) \in Nat /\ MaxReadable \in Nat /\ kCheapPrepend \in Nat
      /\ Content(buf) \in Seq(Bytes) /\ Len(Content(buf)) = n
  BY <1>1, ContentProperties, BufferAssumption
<1>3. content = Content(buf) /\ content' = Content(buf')
  BY DEF content, Content
<1> HIDE DEF n
<1>4. ASSUME Good(buf'), seen' \in Seq(Bytes), readableBytes(buf') <= MaxReadable,
             size(buf') <= kInitalSize \/ size(buf') <= kCheapPrepend + 2 * MaxReadable
      PROVE  BufferInv'
  <2>1. /\ Good(buf)' <=> Good(buf')
        /\ readableBytes(buf)' = readableBytes(buf')
        /\ size(buf)' = size(buf')
    BY DEF Good, readableBytes, size
  <2> QED
    BY <1>4, <2>1 DEF BufferInv, SpaceBounded
<1>5. ASSUME NEW data \in Strings, Append_(data) \/ ReadFd(data)
      PROVE  BufferInv' /\ BQ!Put(data)
  <2>1. data \in Seq(Bytes) /\ Len(data) \in Nat
    BY BufferAssumption, LenProperties
  <2>2. n + Len(data) <= MaxReadable /\ seen' = seen
    BY <1>5 DEF Append_, ReadFd, Fits, n
  <2>3. /\ Good(buf')
        /\ Content(buf') = Content(buf) \o data
        /\ readableBytes(buf') = n + Len(data)
        /\ \/ size(buf') = size(buf)
           \/ size(buf') <= kCheapPrepend + n + 2 * Len(data)
    BY <1>1, <1>5, <2>1, AppendCorrect, ReadFdCorrect DEF Append_, ReadFd, n
  <2>4. size(buf') <= kInitalSize \/ size(buf') <= kCheapPrepend + 2 * MaxReadable
    BY <1>1, <2>1, <2>2, <2>3, GrowthBounded DEF n
  <2>5. BufferInv'
    BY <1>1, <1>4, <2>2, <2>3, <2>4
  <2>6. BQ!Put(data)
    BY <1>3, <2>2, <2>3 DEF BQ!Put
  <2> QED BY <2>5, <2>6
<1>6. ASSUME NEW len \in Lengths, EnsureWritable(len)
      PROVE  BufferInv' /\ content' = content /\ seen' = seen
  <2>1. len \in Nat
    BY BufferAssumption
  <2>2. n + len <= MaxReadable /\ seen' = seen
    BY <1>6 DEF EnsureWritable, Fits, n
  <2>3. /\ Good(buf')
        /\ Content(buf') = Content(buf)
        /\ readableBytes(buf') = n
        /\ \/ size(buf') = size(buf)
           \/ size(buf') <= kCheapPrepend + n + 2 * len
    BY <1>1, <1>6, <2>1, EnsureCorrect DEF EnsureWritable, n
  <2>4. size(buf') <= kInitalSize \/ size(buf') <= kCheapPrepend + 2 * MaxReadable
    BY <1>1, <2>1, <2>2, <2>3, GrowthBounded DEF n
  <2>5. BufferInv'
    BY <1>1, <1>4, <2>2, <2>3, <2>4
  <2> QED BY <1>3, <2>2, <2>3, <2>5
<1>7. ASSUME NEW len \in Nat, buf' = retrieve(buf, len)
      PROVE  /\ seen' \in Seq(Bytes) => BufferInv'
             /\ content' = BQ!Rest(len)
  <2>1. /\ Good(buf')
        /\ size(buf') = size(buf)
        /\ readableBytes(buf') <= n
        /\ Content(buf') = SubSeq(Content(buf), len + 1, Len(Content(buf)))
    BY <1>1, <1>7, RetrieveCorrect DEF n
  <2>2. readableBytes(buf') \in Nat
    BY <2>1, ContentProperties
  <2>3. readableBytes(buf') <= MaxReadable
    BY <1>1, <1>2, <2>1, <2>2
  <2>4. seen' \in Seq(Bytes) => BufferInv'
    BY <1>1, <1>4, <2>1, <2>3
  <2>5. content' = BQ!Rest(len)
    BY <1>3, <2>1 DEF BQ!Rest
  <2> QED BY <2>4, <2>5
<1>8. ASSUME NEW len \in Nat, len <= n
      PROVE  /\ peek(buf, len) \in Seq(Bytes)
             /\ peek(buf, len) = SubSeq(content, 1, len)
             /\ len <= Len(content)
  <2>1. len \in 0 .. readableBytes(buf)
    BY <1>2, <1>8 DEF n
  <2> QED
    BY <1>1, <1>2, <1>3, <1>8, <2>1, PeekProperties, PeekIsHead
<1>9. ASSUME NEW len \in Nat, RetrieveAsString(len)
      PROVE  BufferInv' /\ BQ!Take(len)
  <2>1. len <= n /\ seen' = peek(buf, len) /\ buf' = retrieve(buf, len)
    BY <1>9 DEF RetrieveAsString, n
  <2> QED
    BY <1>7, <1>8, <2>1 DEF BQ!Take
<1>10. ASSUME NEW len \in Nat, WriteFd(len)
       PROVE  BufferInv' /\ BQ!Look(len)
  <2>1. len <= n /\ seen' = peek(buf, len) /\ buf' = buf
    BY <1>10 DEF WriteFd, n
  <2>2. BufferInv'
    BY <1>1, <1>4, <1>8, <2>1 DEF n
  <2>3. content' = content
    BY <1>3, <2>1
  <2> QED
    BY <1>8, <2>1, <2>2, <2>3 DEF BQ!Look
<1>11. ASSUME NEW len \in Nat, Retrieve(len)
       PROVE  BufferInv' /\ BQ!Drop(len)
  BY <1>1, <1>7, <1>11 DEF Retrieve, BQ!Drop
<1>12. CASE RetrieveAll
  <2>1. Retrieve(n)
    BY <1>1, <1>12, RetrieveAllIsRetrieve DEF RetrieveAll, Retrieve, n
  <2>2. BufferInv' /\ BQ!Drop(n) /\ n = Len(content)
    BY <1>2, <1>3, <1>11, <2>1
  <2> QED BY <2>2 DEF BQ!Next
<1>13. CASE RetrieveAllAsString
  <2>1. RetrieveAsString(n)
    BY <1>13 DEF RetrieveAllAsString, n
  <2>2. BufferInv' /\ BQ!Take(n) /\ n = Len(content)
    BY <1>2, <1>3, <1>9, <2>1
  <2> QED BY <2>2 DEF BQ!Next
<1>14. CASE UNCHANGED vars
  <2>1. buf' = buf /\ seen' = seen
    BY <1>14 DEF vars
  <2>2. BufferInv'
    BY <1>1, <1>4, <2>1 DEF n
  <2> QED BY <1>3, <2>1, <2>2
<1>15. ASSUME NEW len \in Lengths,
              Retrieve(len) \/ RetrieveAsString(len) \/ WriteFd(len)
       PROVE  BufferInv' /\ BQ!Next
  <2>1. len \in Nat
    BY BufferAssumption
  <2>2. BufferInv' /\ (BQ!Drop(len) \/ BQ!Look(len) \/ BQ!Take(len))
    BY <1>9, <1>10, <1>11, <1>15, <2>1
  <2> QED BY <2>2 DEF BQ!Next
<1>16. ASSUME NEW data \in Strings, Append_(data) \/ ReadFd(data)
       PROVE  BufferInv' /\ BQ!Next
  BY <1>5, <1>16 DEF BQ!Next
<1> QED
  BY <1>6, <1>12, <1>13, <1>14, <1>15, <1>16 DEF Next

\* The initial Buffer satisfies the invariant and is the empty queue.
LEMMA BufferInit == Init => BufferInv /\ BQ!Init
<1> SUFFICES ASSUME Init PROVE BufferInv /\ BQ!Init
  OBVIOUS
<1>1. buf = NewBuffer /\ seen = <<>>
  BY DEF Init
<1>2. Good(buf) /\ readableBytes(buf) = 0 /\ size(buf) = kInitalSize
  BY <1>1, NewBufferGood
<1>3. BufferInv
  BY <1>1, <1>2, BufferAssumption DEF BufferInv, SpaceBounded
<1>4. content = <<>>
  BY <1>2, ContentProperties, EmptySeq DEF content, Content
<1> QED
  BY <1>1, <1>3, <1>4 DEF BQ!Init

\* The invariant, in every reachable state.
THEOREM BufferInvariant == Spec => []BufferInv
<1>1. Init => BufferInv
  BY BufferInit
<1>2. BufferInv /\ [Next]_vars => BufferInv'
  BY BufferStep
<1> QED
  BY <1>1, <1>2, PTL DEF Spec

\* Type correctness: the members always hold a vector of bytes and two naturals.
THEOREM TypeCorrect == Spec => []TypeOK
<1>1. BufferInv => TypeOK
  BY DEF BufferInv, Good, TypeOK
<1> QED
  BY <1>1, BufferInvariant, PTL

\* prepend area <= readerIndex_ <= writerIndex_ <= size, whatever the calls.
THEOREM IndicesAlwaysOrdered == Spec => []IndicesOrdered
<1>1. BufferInv => IndicesOrdered
  BY DEF BufferInv, Good, IndicesOrdered
<1> QED
  BY <1>1, BufferInvariant, PTL

\* A caller that keeps the readable bytes bounded gets a bounded vector.
THEOREM SpaceAlwaysBounded == Spec => []SpaceBounded
<1>1. BufferInv => SpaceBounded
  BY DEF BufferInv
<1> QED
  BY <1>1, BufferInvariant, PTL

\* makeSpace never copies the readable bytes onto themselves.
THEOREM AlwaysMovesForward == Spec => []MovesForward
<1>1. BufferInv => MovesForward
  <2> SUFFICES ASSUME BufferInv, NEW len \in Lengths,
                      writableBytes(buf) < len, ~mustGrow(buf, len)
               PROVE  buf.readerIndex_ > kCheapPrepend
    BY DEF MovesForward
  <2>1. /\ buf.readerIndex_ \in Nat /\ writableBytes(buf) \in Nat
        /\ len \in Nat /\ kCheapPrepend \in Nat
    BY ContentProperties, BufferAssumption DEF BufferInv, Good, Buffers
  <2> QED
    BY <2>1 DEF mustGrow, prependableBytes
<1> QED
  BY <1>1, BufferInvariant, PTL

\* The Buffer implements the byte queue: every call is one of its operations, or
\* changes nothing a reader can see.
THEOREM BufferRefinesByteQueue == Spec => ImplementsByteQueue
<1>1. Init => BQ!Init
  BY BufferInit
<1>2. BufferInv /\ [Next]_vars => [BQ!Next]_<<content, seen>>
  BY BufferStep
<1> QED
  BY <1>1, <1>2, BufferInvariant, PTL DEF Spec, ImplementsByteQueue, BQ!Spec
=============================================================================
