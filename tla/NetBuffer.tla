----------------------------- MODULE NetBuffer ------------------------------
(***************************************************************************)
(* muduo/net/Buffer.h and Buffer.cc: a byte queue in a vector, with room   *)
(* in front for headers, integers in network order, line ends found in     *)
(* place and bytes taken back from the end.  A cell of the vector is a     *)
(* digit of base NbBase; the character '\r' is 1 and '\n' is 2.            *)
(***************************************************************************)
EXTENDS Integers, Sequences, FiniteSetsExt

CONSTANTS NbCheap, NbInitial,   \* kCheapPrepend, kInitialSize
          NbExtra,              \* the size of extrabuf
          NbMost,               \* bound: readable bytes
          NbCalls               \* bound: calls

NbBase == 4
NbTexts == {<<1>>, <<2, 1>>, <<3, 1, 2>>}   \* what is appended, read and prepended

(* v, r, w: buffer_ and its indices; fault: a failed assertion; got: the   *)
(* last value read, and what it should be.  History: ref, the bytes that   *)
(* were put in and not taken out; n, the number of calls.                  *)
VARIABLE nb

NbNew == [v |-> [i \in 1..(NbCheap + NbInitial) |-> 0], r |-> NbCheap, w |-> NbCheap, fault |-> FALSE]
NbInit == nb = [b |-> NbNew, ref |-> <<>>, got |-> <<0, 0>>, n |-> 0]

NbReadable(b) == b.w - b.r
NbWritable(b) == Len(b.v) - b.w
NbPeek(b, len) == SubSeq(b.v, b.r + 1, b.r + len)
NbAssert(b, ok) == [b EXCEPT !.fault = @ \/ ~ok]
NbCopy(v, at, data) == [i \in DOMAIN v |-> IF i \in (at + 1)..(at + Len(data)) THEN data[i - at] ELSE v[i]]

(* retrieveAll and retrieve *)
NbRetrieveAll(b) == [b EXCEPT !.r = NbCheap, !.w = NbCheap]
NbRetrieve(b, len) ==
  IF len < NbReadable(b) THEN [b EXCEPT !.r = @ + len]
  ELSE NbRetrieveAll(NbAssert(b, len = NbReadable(b)))

NbMakeSpace_NoReserve(b, len) ==
  IF NbWritable(b) + b.r < len
  THEN [b EXCEPT !.v = [i \in 1..(b.w + len) |-> IF i <= Len(b.v) THEN b.v[i] ELSE 0]]
  ELSE [NbAssert(b, NbCheap < b.r) EXCEPT !.v = NbCopy(b.v, NbCheap, NbPeek(b, NbReadable(b))),
                                          !.r = NbCheap, !.w = NbCheap + NbReadable(b)]

(* makeSpace: grow, or move what is readable to the front.                 *)
NbMakeSpace(b, len) ==
  IF NbWritable(b) + b.r < len + NbCheap
  THEN [b EXCEPT !.v = [i \in 1..(b.w + len) |-> IF i <= Len(b.v) THEN b.v[i] ELSE 0]]
  ELSE [NbAssert(b, NbCheap < b.r) EXCEPT !.v = NbCopy(b.v, NbCheap, NbPeek(b, NbReadable(b))),
                                          !.r = NbCheap, !.w = NbCheap + NbReadable(b)]

(* ensureWritableBytes, hasWritten and append *)
NbEnsure(b, len) ==
  LET c == IF NbWritable(b) < len THEN NbMakeSpace(b, len) ELSE b IN NbAssert(c, NbWritable(c) >= len)
NbHasWritten(b, len) == [NbAssert(b, len <= NbWritable(b)) EXCEPT !.w = @ + len]
NbAppend(b, data) ==
  LET c == NbEnsure(b, Len(data))
  IN NbHasWritten([c EXCEPT !.v = NbCopy(@, c.w, data)], Len(data))

(* unwrite and prepend *)
NbUnwrite(b, len) == [NbAssert(b, len <= NbReadable(b)) EXCEPT !.w = @ - len]
NbPrepend(b, data) ==
  LET c == [NbAssert(b, Len(data) <= b.r) EXCEPT !.r = @ - Len(data)]
  IN [c EXCEPT !.v = NbCopy(@, c.r, data)]

NbShrink_ForgetsRest(b, reserve) == NbAppend(NbNew, NbPeek(b, Min({NbReadable(b), NbInitial})))
(* shrink: a new Buffer with what is readable, and swap.                   *)
NbShrink(b, reserve) ==
  [NbAppend(NbEnsure(NbNew, NbReadable(b) + reserve), NbPeek(b, NbReadable(b))) EXCEPT !.fault = @ \/ b.fault]

(* readFd, when readv delivers data: the tail first, then extrabuf.        *)
NbReadFd(b, data) ==
  LET writable == NbWritable(b)
  IN IF Len(data) <= writable THEN [b EXCEPT !.v = NbCopy(@, b.w, data), !.w = @ + Len(data)]
     ELSE NbAppend([b EXCEPT !.v = NbCopy(@, b.w, SubSeq(data, 1, writable)), !.w = Len(b.v)],
                   SubSeq(data, writable + 1, Len(data)))

-----------------------------------------------------------------------------
(* findCRLF and findEOL from a place of what is readable: the offset, or   *)
(* -1 for NULL.                                                            *)
NbFindCRLF(b, start) ==
  LET at == {i \in (b.r + start)..(b.w - 2) : b.v[i + 1] = 1 /\ b.v[i + 2] = 2}
  IN IF at = {} THEN -1 ELSE Min(at) - b.r
NbFindEOL(b, start) ==
  LET at == {i \in (b.r + start)..(b.w - 1) : b.v[i + 1] = 2}
  IN IF at = {} THEN -1 ELSE Min(at) - b.r

(* hostToNetwork of a signed integer of 1 or 2 cells, and back.            *)
NbEncode(x, size) == [k \in 1..size |-> ((x % (NbBase ^ size)) \div (NbBase ^ (size - k))) % NbBase]
NbDecode_Host(s) ==
  LET u == IF Len(s) = 1 THEN s[1] ELSE NbBase * s[2] + s[1]
  IN IF 2 * u >= NbBase ^ Len(s) THEN u - NbBase ^ Len(s) ELSE u
NbDecode(s) ==
  LET u == IF Len(s) = 1 THEN s[1] ELSE NbBase * s[1] + s[2]
  IN IF 2 * u >= NbBase ^ Len(s) THEN u - NbBase ^ Len(s) ELSE u

(* appendInt, peekInt, readInt, prependInt, of each size.                  *)
NbAppendInt(b, x, size) == NbAppend(b, NbEncode(x, size))
NbPeekInt(b, size) == NbDecode(NbPeek(b, size))
NbReadInt(b, size) == NbRetrieve(NbAssert(b, NbReadable(b) >= size), size)
NbPrependInt(b, x, size) == NbPrepend(b, NbEncode(x, size))

-----------------------------------------------------------------------------
(* The calls of a caller that keeps the class's preconditions.             *)
NbDo(b, ref, got) == /\ nb.n < NbCalls /\ Len(ref) <= NbMost
                     /\ nb' = [b |-> b, ref |-> ref, got |-> got, n |-> nb.n + 1]
NbLen == Len(nb.ref)
NbFrom(k) == SubSeq(nb.ref, k + 1, NbLen)

NbPut == \E data \in NbTexts :
  \/ NbDo(NbAppend(nb.b, data), nb.ref \o data, nb.got)
  \/ /\ Len(data) <= NbWritable(nb.b) + (IF NbWritable(nb.b) < NbExtra THEN NbExtra ELSE 0)
     /\ NbDo(NbReadFd(nb.b, data), nb.ref \o data, nb.got)
  \/ Len(data) <= nb.b.r /\ NbDo(NbPrepend(nb.b, data), data \o nb.ref, nb.got)
NbTake == \E k \in 0..NbLen :
  \/ NbDo(NbRetrieve(nb.b, k), NbFrom(k), <<NbPeek(nb.b, k), SubSeq(nb.ref, 1, k)>>)
  \/ NbDo(NbUnwrite(nb.b, k), SubSeq(nb.ref, 1, NbLen - k), nb.got)
NbEdges(size) == LET half == (NbBase ^ size) \div 2 IN {-half, -1, 1, half - 1}
NbIntegers == \E size \in 1..2 : \E x \in NbEdges(size) :
  \/ NbDo(NbReadInt(NbAppendInt(NbRetrieveAll(nb.b), x, size), size), <<>>,
          <<NbPeekInt(NbAppendInt(NbRetrieveAll(nb.b), x, size), size), x>>)
  \/ size <= nb.b.r /\ NbDo(NbReadInt(NbPrependInt(nb.b, x, size), size), nb.ref,
                            <<NbPeekInt(NbPrependInt(nb.b, x, size), size), x>>)
NbRoom == \E k \in 0..2 : \/ NbDo(NbEnsure(nb.b, k), nb.ref, nb.got)
                          \/ NbDo(NbShrink(nb.b, k), nb.ref, nb.got)
NbLine == \E k \in {k \in 0..NbLen : NbFindEOL(nb.b, k) >= 0} :
  LET end == NbFindEOL(nb.b, k) + 1
  IN NbDo(NbRetrieve(nb.b, end), NbFrom(end), <<NbPeek(nb.b, end), SubSeq(nb.ref, 1, end)>>)

NbNext == NbPut \/ NbTake \/ NbIntegers \/ NbRoom \/ NbLine

-----------------------------------------------------------------------------
(* A line end is found at the first place from the start it has in what    *)
(* was put in, however the bytes lie in the vector.                        *)
NbFound == \A k \in 0..NbLen :
  /\ LET at == {i \in k..(NbLen - 1) : nb.ref[i + 1] = 2}
     IN NbFindEOL(nb.b, k) = IF at = {} THEN -1 ELSE Min(at)
  /\ LET at == {i \in k..(NbLen - 2) : nb.ref[i + 1] = 1 /\ nb.ref[i + 2] = 2}
     IN NbFindCRLF(nb.b, k) = IF at = {} THEN -1 ELSE Min(at)

(* Whatever the order of calls, the bytes between the indices are those    *)
(* that were put in, in order; integers and strings come out as they went  *)
(* in; line ends are found where they are; no assertion of the class fails *)
(* and the indices stay in order and inside the vector.                    *)
NetBufferSound == /\ ~nb.b.fault
                  /\ NbPeek(nb.b, NbReadable(nb.b)) = nb.ref
                  /\ nb.got[1] = nb.got[2]
                  /\ nb.b.r \in 0..nb.b.w /\ nb.b.w <= Len(nb.b.v)
                  /\ NbFound
=============================================================================
