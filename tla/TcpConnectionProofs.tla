------------------------- MODULE TcpConnectionProofs -------------------------
(***************************************************************************)
(* For any sizes, any number of other threads and any peer: what a         *)
(* TcpConnection writes and buffers is what send() was given, in order; a  *)
(* shutdown cuts nothing off; buffered bytes are watched; and the          *)
(* connection is announced up once and down at most once.                  *)
(***************************************************************************)
EXTENDS TcpConnection, SequenceTheorems, TLAPS

-----------------------------------------------------------------------------
(* Sequences.                                                              *)

\* A write of n bytes splits the data into what is written and what is left.
LEMMA WriteSplits ==
  ASSUME NEW S, NEW d \in Seq(S), NEW n \in 0 .. Len(d)
  PROVE  /\ SubSeq(d, 1, n) \in Seq(S)
         /\ SubSeq(d, n + 1, Len(d)) \in Seq(S)
         /\ SubSeq(d, 1, n) \o SubSeq(d, n + 1, Len(d)) = d
         /\ SubSeq(d, n + 1, Len(d)) = <<>> <=> n = Len(d)
<1>1. Len(d) \in Nat /\ \A i \in 1 .. Len(d) : d[i] \in S
  BY LenProperties, ElementOfSeq
<1>2. /\ SubSeq(d, 1, n) \in Seq(S)
      /\ SubSeq(d, n + 1, Len(d)) \in Seq(S)
      /\ Len(SubSeq(d, n + 1, Len(d))) = IF n + 1 <= Len(d) THEN Len(d) - (n + 1) + 1 ELSE 0
  BY <1>1, SubSeqProperties
<1>3. SubSeq(d, 1, n) \o SubSeq(d, n + 1, Len(d)) = SubSeq(d, 1, Len(d))
  <2>1. 1 \in 1 .. Len(d) + 1 /\ n \in 1 - 1 .. Len(d) /\ Len(d) \in n .. Len(d)
    BY <1>1
  <2> QED
    BY <2>1, ConcatAdjacentSubSeq, Zenon
<1>4. SubSeq(d, 1, Len(d)) = d
  BY SubSeqFull
<1>5. SubSeq(d, n + 1, Len(d)) = <<>> <=> n = Len(d)
  <2> DEFINE rest == SubSeq(d, n + 1, Len(d))
  <2>1. rest = <<>> <=> Len(rest) = 0
    BY <1>2, EmptySeq, Zenon
  <2>2. Len(rest) = 0 <=> n = Len(d)
    BY <1>1, <1>2
  <2> QED
    BY <2>1, <2>2
<1> QED
  BY <1>2, <1>3, <1>4, <1>5, Zenon

\* What send() is given.
LEMMA MessageType ==
  ASSUME TypeOK, NEW len \in Sizes
  PROVE  Message(len) \in Seq(Bytes) /\ Len(Message(len)) = len /\ len > 0
<1>1. len \in Nat /\ len > 0 /\ msgs + 1 \in Nat
  BY ConnectionAssumption DEF TypeOK
<1>2. Message(len) \in [1 .. len -> Bytes]
  BY <1>1 DEF Message, Bytes
<1>3. Message(len) \in Seq(Bytes)
  BY <1>1, <1>2, SeqDef
<1> QED
  BY <1>1, <1>2, <1>3, LenProperties

\* Len of a write is never more than the room or the data.
LEMMA SmallerOf ==
  ASSUME NEW a \in Nat, NEW b \in Nat
  PROVE  /\ Smaller(a, b) \in 0 .. a
         /\ Smaller(a, b) \in 0 .. b
         /\ Smaller(a, b) \in {a, b}
  BY DEF Smaller

\* Short lists.
LEMMA OneOf == ASSUME NEW S, NEW a \in S
               PROVE  <<a>> \in Seq(S) /\ Len(<<a>>) = 1
  OBVIOUS

\* Two functors in a row are a list of functors.
LEMMA TwoOf == ASSUME NEW S, NEW a \in S, NEW b \in S
               PROVE  <<a, b>> \in Seq(S) /\ Len(<<a, b>>) = 2
  OBVIOUS

-----------------------------------------------------------------------------
(* Types.                                                                  *)

\* The constructor leaves every field with a value of its type.
LEMMA InitTypeOK == Init => TypeOK
<1> SUFFICES ASSUME Init PROVE TypeOK
  OBVIOUS
<1>1. outputBuffer_ \in Seq(Bytes) /\ sent \in Seq(Bytes) /\ wire \in Seq(Bytes)
  BY EmptySeq DEF Init
<1>2. todo \in Seq(Ops) /\ pendingFunctors_ \in Seq(Ops)
  <2>1. <<"connectEstablished">> \in Seq(Ops)
    BY OneOf DEF Ops
  <2> QED
    BY <2>1, EmptySeq DEF Init
<1>3. inFlight \in [Workers \cup {IOThread} -> Seq(Bytes)]
  BY EmptySeq DEF Init
<1>4. room \in 0 .. SndBuf /\ msgs \in Nat /\ ups \in Nat /\ downs \in Nat
  BY ConnectionAssumption DEF Init
<1>5. wpc \in [Workers -> {"idle", "setState", "queue"}]
  BY DEF Init
<1>6. exited \in Exits \cup {"no"}
  BY DEF Init
<1> QED
  BY <1>1, <1>2, <1>3, <1>4, <1>5, <1>6, Zenon DEF Init, TypeOK, States

\* Taking the head of a list, and putting another operation or two in its place.
LEMMA Drop ==
  ASSUME NEW S, NEW s \in Seq(S), s # <<>>, NEW t, t = <<>> \o Tail(s)
  PROVE  /\ t \in Seq(S) /\ Len(t) = Len(s) - 1
         /\ \A i \in DOMAIN t : i \in Nat \ {0} /\ i + 1 \in DOMAIN s /\ t[i] = s[i + 1]
<1>1. Tail(s) \in Seq(S) /\ Len(Tail(s)) = Len(s) - 1
      /\ \A i \in 1 .. Len(Tail(s)) : Tail(s)[i] = s[i + 1]
  BY HeadTailProperties
<1>2. t = Tail(s)
  BY <1>1, ConcatEmptySeq
<1> QED
  BY <1>1, <1>2, LenProperties

\* Replacing the first of a list keeps the rest at their places.
LEMMA Replace ==
  ASSUME NEW S, NEW s \in Seq(S), s # <<>>, NEW a \in S, NEW t, t = <<a>> \o Tail(s)
  PROVE  /\ t \in Seq(S) /\ Len(t) = Len(s) /\ t[1] = a
         /\ \A i \in DOMAIN t : i \in Nat \ {0} /\ i \in DOMAIN s /\ (i # 1 => t[i] = s[i])
<1>1. Tail(s) \in Seq(S) /\ Len(Tail(s)) = Len(s) - 1
      /\ \A i \in 1 .. Len(Tail(s)) : Tail(s)[i] = s[i + 1]
  BY HeadTailProperties
<1>2. <<a>> \in Seq(S) /\ Len(<<a>>) = 1 /\ <<a>>[1] = a
  BY OneOf
<1>3. t \in Seq(S) /\ Len(t) = 1 + Len(Tail(s))
      /\ \A i \in 1 .. 1 + Len(Tail(s)) : t[i] = IF i <= 1 THEN <<a>>[i] ELSE Tail(s)[i - 1]
  BY <1>1, <1>2, ConcatProperties
<1> QED
  BY <1>1, <1>2, <1>3, LenProperties

\* Replacing the first of a list by two moves the rest one place up.
LEMMA Replace2 ==
  ASSUME NEW S, NEW s \in Seq(S), s # <<>>, NEW a \in S, NEW b \in S,
         NEW t, t = <<a, b>> \o Tail(s)
  PROVE  /\ t \in Seq(S) /\ Len(t) = Len(s) + 1 /\ t[1] = a /\ t[2] = b
         /\ \A i \in DOMAIN t : /\ i \in Nat \ {0}
                                /\ i \notin {1, 2} => i - 1 \in DOMAIN s /\ i - 1 # 1 /\ t[i] = s[i - 1]
<1>1. Tail(s) \in Seq(S) /\ Len(Tail(s)) = Len(s) - 1
      /\ \A i \in 1 .. Len(Tail(s)) : Tail(s)[i] = s[i + 1]
  BY HeadTailProperties
<1>2. <<a, b>> \in Seq(S) /\ Len(<<a, b>>) = 2 /\ <<a, b>>[1] = a /\ <<a, b>>[2] = b
  BY TwoOf
<1>3. t \in Seq(S) /\ Len(t) = 2 + Len(Tail(s))
      /\ \A i \in 1 .. 2 + Len(Tail(s)) : t[i] = IF i <= 2 THEN <<a, b>>[i] ELSE Tail(s)[i - 2]
  BY <1>1, <1>2, ConcatProperties
<1> QED
  BY <1>1, <1>2, <1>3, LenProperties

\* A new first moves the rest one place up.
LEMMA Push ==
  ASSUME NEW S, NEW s \in Seq(S), NEW a \in S, NEW t, t = <<a>> \o s
  PROVE  /\ t \in Seq(S) /\ Len(t) = Len(s) + 1 /\ t[1] = a
         /\ \A i \in DOMAIN t : i \in Nat \ {0} /\ (i # 1 => i - 1 \in DOMAIN s /\ t[i] = s[i - 1])
<1>2. <<a>> \in Seq(S) /\ Len(<<a>>) = 1 /\ <<a>>[1] = a
  BY OneOf
<1>3. t \in Seq(S) /\ Len(t) = 1 + Len(s)
      /\ \A i \in 1 .. 1 + Len(s) : t[i] = IF i <= 1 THEN <<a>>[i] ELSE s[i - 1]
  BY <1>2, ConcatProperties
<1> QED
  BY <1>2, <1>3, LenProperties

\* Queueing a functor.
LEMMA Queue ==
  ASSUME NEW S, NEW s \in Seq(S), NEW a \in S, NEW t, t = s \o <<a>>
  PROVE  /\ t \in Seq(S) /\ Len(t) = Len(s) + 1
         /\ \A i \in DOMAIN t : i \in Nat \ {0} /\ (IF i \in DOMAIN s THEN t[i] = s[i] ELSE t[i] = a)
<1>2. <<a>> \in Seq(S) /\ Len(<<a>>) = 1 /\ <<a>>[1] = a
  BY OneOf
<1>3. t \in Seq(S) /\ Len(t) = Len(s) + 1
      /\ \A i \in 1 .. Len(s) + 1 : t[i] = IF i <= Len(s) THEN s[i] ELSE <<a>>[i - Len(s)]
  BY <1>2, ConcatProperties
<1> QED
  BY <1>2, <1>3, LenProperties

\* sendInLoop in the loop's thread writes a part of the data, all of it in order, and
\* leaves the rest in flight; it writes only when nothing is buffered or watched.
LEMMA SendEffect ==
  ASSUME TypeOK, NEW len \in Sizes, send(len)
  PROVE  /\ wire' \in Seq(Bytes) /\ sent' \in Seq(Bytes) /\ room' \in 0 .. SndBuf
         /\ inFlight' \in [Workers \cup {IOThread} -> Seq(Bytes)]
         /\ sent' = sent \o Message(len)
         /\ \E pre \in Seq(Bytes) : /\ Message(len) = pre \o inFlight'[IOThread]
                                    /\ wire' = wire \o pre
                                    /\ outputBuffer_ = <<>> \/ pre = <<>>
         /\ isWriting => inFlight'[IOThread] # <<>>
         /\ todo' = todo \/ todo' = <<"append">> \o todo
         /\ todo' = todo <=> inFlight'[IOThread] = <<>>
         /\ pendingFunctors_' = pendingFunctors_
              \/ pendingFunctors_' = pendingFunctors_ \o <<"writeCompleteCallback_">>
<1> DEFINE data == Message(len)
           direct == ~isWriting /\ outputBuffer_ = <<>>
           n == IF direct THEN Smaller(Len(data), room) ELSE 0
           pre == SubSeq(data, 1, n)
           rest == SubSeq(data, n + 1, Len(data))
<1>1. data \in Seq(Bytes) /\ Len(data) = len /\ len > 0 /\ len \in Nat
  BY MessageType, ConnectionAssumption
<1>2. n \in 0 .. Len(data) /\ room - n \in 0 .. SndBuf
  <2>1. Len(data) \in Nat /\ room \in Nat /\ room <= SndBuf /\ SndBuf \in Nat
    BY <1>1, ConnectionAssumption DEF TypeOK
  <2>2. Smaller(Len(data), room) \in 0 .. Len(data) /\ Smaller(Len(data), room) \in 0 .. room
    BY <2>1, SmallerOf
  <2> HIDE DEF data
  <2> QED
    BY <2>1, <2>2
<1> HIDE DEF data
<1>3. /\ pre \in Seq(Bytes) /\ rest \in Seq(Bytes) /\ pre \o rest = data
      /\ rest = <<>> <=> n = Len(data)
  BY <1>1, <1>2, WriteSplits, Zenon
<1>4. ~direct => pre = <<>> /\ rest # <<>>
  <2> SUFFICES ASSUME ~direct PROVE pre = <<>> /\ rest # <<>>
    OBVIOUS
  <2>1. n = 0
    OBVIOUS
  <2>2. Len(SubSeq(data, 1, 0)) = 0
    BY <1>1, SubSeqProperties
  <2> QED
    BY <1>1, <1>3, <2>1, <2>2, EmptySeq
<1>5. /\ wire' = wire \o pre /\ room' = room - n /\ sent' = sent \o data
      /\ inFlight' = [inFlight EXCEPT ![IOThread] = rest]
      /\ pendingFunctors_' = pendingFunctors_ \o (IF direct /\ n = Len(data) THEN <<"writeCompleteCallback_">> ELSE <<>>)
      /\ todo' = IF inFlight'[IOThread] = <<>> THEN todo ELSE <<"append">> \o todo
  BY DEF send, sendInLoop, queueInLoop, data
<1> HIDE DEF n
<1>6. inFlight' \in [Workers \cup {IOThread} -> Seq(Bytes)] /\ inFlight'[IOThread] = rest
  BY <1>3, <1>5, Zenon DEF TypeOK
<1>7. wire' \in Seq(Bytes) /\ sent' \in Seq(Bytes)
  BY <1>1, <1>3, <1>5, ConcatProperties DEF TypeOK
<1>8. pendingFunctors_ \o <<>> = pendingFunctors_
  BY ConcatEmptySeq DEF TypeOK
<1>9. <<"append">> \o todo # todo
  BY Push DEF TypeOK, Ops
<1> QED
  BY <1>2, <1>3, <1>4, <1>5, <1>6, <1>7, <1>8, <1>9, Zenon DEF data

\* What Channel::handleEventWithGuard puts in hand: closing first and only for a
\* hang-up without input, then the error, then one read, then the write.
LEMMA EventList ==
  ASSUME NEW revents, NEW l, l = handleEventWithGuard(revents)
  PROVE  /\ l \in Seq(Ops)
         /\ \A i \in DOMAIN l :
              /\ i \in Nat \ {0} /\ revents # {}
              /\ l[i] \in {"handleClose", "handleError", "handleRead", "handleWrite"}
              /\ l[i] = "handleClose" => i = 1 /\ "HUP" \in revents /\ "IN" \notin revents
              /\ l[i] = "handleRead" =>
                   /\ revents \cap {"IN", "PRI"} # {}
                   /\ \A j \in 1 .. i - 1 : l[j] \in {"handleClose", "handleError"}
                   /\ \A j \in DOMAIN l : l[j] = "handleRead" => j = i
<1> DEFINE a == "HUP" \in revents /\ "IN" \notin revents
           b == "ERR" \in revents
           c == revents \cap {"IN", "PRI"} # {}
           d == "OUT" \in revents
           A == IF a THEN <<"handleClose">> ELSE <<>>
           B == IF b THEN <<"handleError">> ELSE <<>>
           C == IF c THEN <<"handleRead">> ELSE <<>>
           D == IF d THEN <<"handleWrite">> ELSE <<>>
<1>1. /\ A \in Seq(Ops) /\ Len(A) = (IF a THEN 1 ELSE 0) /\ (a => A[1] = "handleClose")
      /\ B \in Seq(Ops) /\ Len(B) = (IF b THEN 1 ELSE 0) /\ (b => B[1] = "handleError")
      /\ C \in Seq(Ops) /\ Len(C) = (IF c THEN 1 ELSE 0) /\ (c => C[1] = "handleRead")
      /\ D \in Seq(Ops) /\ Len(D) = (IF d THEN 1 ELSE 0) /\ (d => D[1] = "handleWrite")
  <2> HIDE DEF a, b, c, d
  <2> QED
    BY EmptySeq, OneOf, Zenon DEF Ops
<1>2. l = ((A \o B) \o C) \o D
  BY DEF handleEventWithGuard
<1> HIDE DEF A, B, C, D
<1>3. /\ A \o B \in Seq(Ops) /\ Len(A \o B) = Len(A) + Len(B)
      /\ \A i \in 1 .. Len(A) + Len(B) : (A \o B)[i] = IF i <= Len(A) THEN A[i] ELSE B[i - Len(A)]
  BY <1>1, ConcatProperties, SMTT(40)
<1> DEFINE AB == A \o B
<1> HIDE DEF AB
<1>4. /\ AB \o C \in Seq(Ops) /\ Len(AB \o C) = Len(AB) + Len(C)
      /\ \A i \in 1 .. Len(AB) + Len(C) : (AB \o C)[i] = IF i <= Len(AB) THEN AB[i] ELSE C[i - Len(AB)]
  <2>1. AB \in Seq(Ops) /\ C \in Seq(Ops)
    BY <1>1, <1>3, Zenon DEF AB
  <2> QED
    BY <2>1, ConcatProperties
<1> DEFINE ABC == AB \o C
<1> HIDE DEF ABC
<1>5. /\ l \in Seq(Ops) /\ Len(l) = Len(ABC) + Len(D)
      /\ \A i \in 1 .. Len(ABC) + Len(D) : l[i] = IF i <= Len(ABC) THEN ABC[i] ELSE D[i - Len(ABC)]
  <2>1. ABC \in Seq(Ops) /\ l = ABC \o D
    BY <1>2, <1>4 DEF ABC, AB
  <2>2. D \in Seq(Ops)
    BY <1>1
  <2> QED
    BY <2>1, <2>2, ConcatProperties
<1>6. DOMAIN l = 1 .. Len(l) /\ Len(l) \in Nat
  BY <1>5, LenProperties
<1>7. \A i \in DOMAIN l :
        \/ i = 1 /\ a /\ l[i] = "handleClose"
        \/ i = Len(A) + 1 /\ b /\ l[i] = "handleError"
        \/ i = Len(A) + Len(B) + 1 /\ c /\ l[i] = "handleRead"
        \/ i = Len(A) + Len(B) + Len(C) + 1 /\ d /\ l[i] = "handleWrite"
  <2> HIDE DEF a, b, c, d
  <2>1. Len(AB) = Len(A) + Len(B) /\ Len(ABC) = Len(A) + Len(B) + Len(C)
    BY <1>1, <1>3, <1>4 DEF ABC, AB
  <2>2. \A i \in 1 .. Len(A) + Len(B) :
          \/ i = 1 /\ a /\ AB[i] = "handleClose"
          \/ i = Len(A) + 1 /\ b /\ AB[i] = "handleError"
    BY <1>1, <1>3 DEF AB
  <2>3. \A i \in 1 .. Len(ABC) :
          \/ i \in 1 .. Len(A) + Len(B) /\ ABC[i] = AB[i]
          \/ i = Len(A) + Len(B) + 1 /\ c /\ ABC[i] = "handleRead"
    <3>1. /\ Len(A) \in Nat /\ Len(B) \in Nat /\ Len(C) = (IF c THEN 1 ELSE 0) /\ (c => C[1] = "handleRead")
          /\ Len(ABC) = Len(AB) + Len(C) /\ Len(AB) = Len(A) + Len(B)
          /\ \A i \in 1 .. Len(AB) + Len(C) : ABC[i] = IF i <= Len(AB) THEN AB[i] ELSE C[i - Len(AB)]
      BY <1>1, <1>4, <2>1, LenProperties, Zenon DEF ABC
    <3> QED
      BY <3>1
  <2>4. \A i \in 1 .. Len(l) :
          \/ i \in 1 .. Len(ABC) /\ l[i] = ABC[i]
          \/ i = Len(A) + Len(B) + Len(C) + 1 /\ d /\ l[i] = "handleWrite"
    BY <1>1, <1>5, <2>1, SMTT(40)
  <2> QED
    BY <1>6, <2>2, <2>3, <2>4
<1>8. Len(A) \in {0, 1} /\ Len(B) \in {0, 1} /\ Len(C) \in {0, 1} /\ (c => Len(C) = 1)
  BY <1>1
<1>9. /\ a <=> "HUP" \in revents /\ "IN" \notin revents
      /\ c <=> revents \cap {"IN", "PRI"} # {}
      /\ a \/ b \/ c \/ d => revents # {}
  OBVIOUS
<1> HIDE DEF a, b, c, d
<1> SUFFICES ASSUME NEW i \in DOMAIN l
             PROVE  /\ i \in Nat \ {0} /\ (a \/ b \/ c \/ d)
                    /\ l[i] \in {"handleClose", "handleError", "handleRead", "handleWrite"}
                    /\ l[i] = "handleClose" => i = 1 /\ a
                    /\ l[i] = "handleRead" =>
                         /\ c
                         /\ \A j \in 1 .. i - 1 : l[j] \in {"handleClose", "handleError"}
                         /\ \A j \in DOMAIN l : l[j] = "handleRead" => j = i
  BY <1>5, <1>9
<1>10. \A j \in 1 .. i - 1 : j \in DOMAIN l
  BY <1>6
<1> QED
  BY <1>6, <1>7, <1>8, <1>10

\* The names of the operations, and the lists of them.
LEMMA Named ==
  /\ "connectEstablished" \in Ops /\ "connectDestroyed" \in Ops /\ "remove" \in Ops
  /\ "shutdownInLoop" \in Ops /\ "append" \in Ops /\ "closeCallback_" \in Ops /\ "app" \in Ops
  /\ "messageCallback_" \in Ops /\ "writeCompleteCallback_" \in Ops
  /\ "highWaterMarkCallback_" \in Ops
  BY DEF Ops

\* What the loop has in hand and what is queued are lists of functors.
LEMMA Lists == TypeOK => todo \in Seq(Ops) /\ pendingFunctors_ \in Seq(Ops)
  BY DEF TypeOK

\* A process that ends leaves everything else as it was.
LEMMA ExitTypeOK == ASSUME TypeOK, NEW why \in Exits, exit(why) PROVE TypeOK'
<1>1. exited' \in Exits \cup {"no"}
  BY DEF exit
<1>2. UNCHANGED <<state_, outputBuffer_, events_, index_, phase, todo, pendingFunctors_, room, rcv,
                  urgent, peerFin, wrShut, reset, sockErr, inFlight, msgs, rude, sent, wire, ups,
                  downs, lastRead, wpc, server>>
  BY DEF exit, connVars, loopVars, sockVars, sendVars, seenVars
<1> QED
  BY <1>1, <1>2 DEF TypeOK

\* Every step keeps the types.
LEMMA NextTypeOK == TypeOK /\ [Next]_vars => TypeOK'
<1> SUFFICES ASSUME TypeOK, [Next]_vars PROVE TypeOK'
  OBVIOUS
<1> USE DEF At
<1>1. CASE handleRead
  <2>1. CASE readFd = "eof"
    <3>1. todo' \in Seq(Ops)
      BY <1>1, <2>1, Lists, Named, Replace2, SMTT(40) DEF handleRead, goDown, Then
    <3>2. sockErr' \in BOOLEAN /\ rcv' \in BOOLEAN /\ lastRead' \in {"none", "data", "eof", "error"}
      BY <1>1, <2>1, Zenon DEF handleRead
    <3>3. state_' \in States /\ events_' = {} /\ index_' \in {"kNew", "kAdded", "kDeleted"} /\ downs' \in Nat
      BY <1>1, <2>1 DEF handleRead, goDown, disableAll, update, TypeOK, States
    <3>4. UNCHANGED <<outputBuffer_, phase, pendingFunctors_, inFlight, msgs, rude, sent, wire, ups,
                      wpc, server, exited, room, urgent, peerFin, wrShut, reset>>
      BY <1>1, <2>1 DEF handleRead, goDown, sendVars
    <3> QED
      BY <3>1, <3>2, <3>3, <3>4 DEF TypeOK
  <2>2. CASE readFd # "eof"
    <3>1. todo' \in Seq(Ops)
      BY <1>1, <2>2, Lists, Named, Replace DEF handleRead, Then
    <3> QED
      BY <1>1, <2>2, <3>1, ZenonT(40) DEF handleRead, readFd, TypeOK, connVars, sendVars
  <2> QED
    BY <2>1, <2>2
<1>2. CASE handleWriteFlush
  <2>1. todo' \in Seq(Ops) /\ pendingFunctors_' \in Seq(Ops)
    BY <1>2, Drop, Queue DEF handleWriteFlush, Then, queueInLoop, TypeOK, Ops
  <2>2. wire' \in Seq(Bytes) /\ outputBuffer_' \in Seq(Bytes)
    BY <1>2, ConcatProperties, EmptySeq DEF handleWriteFlush, TypeOK
  <2>3. room' \in 0 .. SndBuf
    <3>1. Len(outputBuffer_) \in Nat /\ room \in Nat /\ room <= SndBuf /\ SndBuf \in Nat
      BY LenProperties, ConnectionAssumption DEF TypeOK
    <3>2. Smaller(Len(outputBuffer_), room) \in 0 .. room
      BY <3>1, SmallerOf
    <3>3. room' = room - Smaller(Len(outputBuffer_), room)
      BY <1>2 DEF handleWriteFlush
    <3> QED
      BY <3>1, <3>2, <3>3
  <2>4. wrShut' \in BOOLEAN /\ exited' \in Exits \cup {"no"}
    BY <1>2, Zenon DEF handleWriteFlush, shutdownWrite, TypeOK, Exits
  <2> QED
    BY <1>2, <2>1, <2>2, <2>3, <2>4, SMTT(40)
    DEF handleWriteFlush, disableWriting, update, TypeOK, seenVars, kRead, kWrite
<1>3. CASE handleWriteNothing
  <2>1. todo' \in Seq(Ops)
    BY <1>3, Drop DEF handleWriteNothing, Then, TypeOK
  <2>2. UNCHANGED <<connVars, phase, pendingFunctors_, room, rcv, urgent, peerFin, wrShut, reset,
                    sendVars, seenVars, wpc, server, exited>>
    BY <1>3, Zenon DEF handleWriteNothing
  <2>3. sockErr' \in BOOLEAN
    BY <1>3, Zenon DEF handleWriteNothing
  <2> QED
    BY <2>1, <2>2, <2>3 DEF TypeOK, connVars, sendVars, seenVars
<1>4. CASE handleWriteExits
  BY <1>4, ExitTypeOK, Zenon DEF handleWriteExits, Exits
<1>5. CASE handleClose
  <2>1. todo' \in Seq(Ops)
    BY <1>5, Replace2 DEF handleClose, goDown, Then, TypeOK, Ops
  <2> QED
    BY <1>5, <2>1 DEF handleClose, goDown, disableAll, update, TypeOK, States, sendVars, sockVars
<1>6. CASE handleError
  BY <1>6, ExitTypeOK DEF handleError, Exits
<1>7. CASE closeCallback_
  <2>1. todo' \in Seq(Ops)
    BY <1>7, Drop DEF closeCallback_, Then, TypeOK
  <2> QED
    BY <1>7, <2>1 DEF closeCallback_, TypeOK, connVars, sockVars, sendVars, seenVars
<1>8. CASE closeCallbackDangles
  BY <1>8, ExitTypeOK, Zenon DEF closeCallbackDangles, Exits
<1>9. CASE connectEstablished
  <2>1. todo' \in Seq(Ops)
    BY <1>9, Replace DEF connectEstablished, Then, TypeOK, Ops
  <2> QED
    BY <1>9, <2>1
    DEF connectEstablished, enableReading, update, TypeOK, States, sockVars, sendVars, kRead, kWrite
<1>10. CASE connectDestroyed
  <2>1. todo' \in Seq(Ops)
    <3>1. CASE state_ = "kConnected"
      BY <1>10, <3>1, Lists, Named, Replace2, SMTT(40) DEF connectDestroyed, Then
    <3>2. CASE state_ # "kConnected"
      BY <1>10, <3>2, Lists, Named, Replace, Zenon DEF connectDestroyed, Then
    <3> QED
      BY <3>1, <3>2
  <2> QED
    BY <1>10, <2>1, SMTT(40) DEF connectDestroyed, disableAll, update, TypeOK, States, sockVars, sendVars
<1>11. CASE remove
  <2>1. todo' \in Seq(Ops)
    BY <1>11, Drop DEF remove, Then, TypeOK
  <2> QED
    BY <1>11, <2>1 DEF remove, TypeOK, sockVars, sendVars, seenVars
<1>12. CASE shutdownFunctor
  <2>1. todo' \in Seq(Ops)
    BY <1>12, Drop DEF shutdownFunctor, Then, TypeOK
  <2>2. wrShut' \in BOOLEAN /\ exited' \in Exits \cup {"no"}
    BY <1>12, Zenon DEF shutdownFunctor, shutdownWrite, TypeOK, Exits
  <2> QED
    BY <1>12, <2>1, <2>2, SMTT(40) DEF shutdownFunctor, TypeOK, connVars, sendVars, seenVars
<1>13. CASE append
  <2>1. todo' \in Seq(Ops)
    BY <1>13, Drop DEF append, Then, TypeOK
  <2>2. pendingFunctors_' \in Seq(Ops)
    <3>1. \/ pendingFunctors_' = pendingFunctors_ \o <<"highWaterMarkCallback_">>
          \/ pendingFunctors_' = pendingFunctors_ \o <<>>
      BY <1>13, Zenon DEF append, sendInLoopAppend, queueInLoop
    <3> QED
      BY <3>1, Lists, Named, Queue, ConcatEmptySeq
  <2>3. outputBuffer_' \in Seq(Bytes) /\ inFlight' \in [Workers \cup {IOThread} -> Seq(Bytes)]
    BY <1>13, ConcatProperties, EmptySeq DEF append, sendInLoopAppend, TypeOK
  <2>4. events_' \subseteq {kRead, kWrite} /\ index_' \in {"kNew", "kAdded", "kDeleted"}
    BY <1>13, Zenon DEF append, sendInLoopAppend, enableWriting, update, TypeOK, kRead, kWrite
  <2>5. UNCHANGED <<state_, phase, sockVars, msgs, rude, sent, wire, seenVars, wpc, server, exited>>
    BY <1>13 DEF append
  <2> QED
    BY <2>1, <2>2, <2>3, <2>4, <2>5, SMTT(40) DEF TypeOK, sockVars, seenVars
<1>14. CASE userFunctor
  <2>1. todo' \in Seq(Ops)
    BY <1>14, Replace, SMTT(40) DEF userFunctor, Then, TypeOK, Ops
  <2> QED
    BY <1>14, <2>1 DEF userFunctor, TypeOK, connVars, sockVars, sendVars, seenVars
<1>15. CASE poll
  <2>1. todo' \in Seq(Ops)
    BY <1>15, EventList DEF poll
  <2> QED
    BY <1>15, <2>1 DEF poll, TypeOK, connVars, sockVars, sendVars, seenVars
<1>16. CASE doPendingFunctors
  BY <1>16, EmptySeq, SMTT(40) DEF doPendingFunctors, TypeOK, connVars, sockVars, sendVars, seenVars
<1>17. CASE nextIteration
  BY <1>17, SMTT(40) DEF nextIteration, TypeOK, connVars, sockVars, sendVars, seenVars
<1>18. CASE callbackReturns
  <2>1. todo' \in Seq(Ops)
    BY <1>18, Drop, SMTT(40) DEF callbackReturns, InCallback, Then, TypeOK
  <2> QED
    BY <1>18, <2>1 DEF callbackReturns, TypeOK, connVars, sockVars, sendVars, seenVars
<1>19. ASSUME NEW len \in Sizes, send(len) PROVE TypeOK'
  <2>1. todo' \in Seq(Ops) /\ pendingFunctors_' \in Seq(Ops)
    <3>1. todo' = todo \/ todo' = <<"append">> \o todo
      BY <1>19, SendEffect
    <3>2. \/ pendingFunctors_' = pendingFunctors_
          \/ pendingFunctors_' = pendingFunctors_ \o <<"writeCompleteCallback_">>
      BY <1>19, SendEffect, SMTT(40)
    <3> QED
      BY <3>1, <3>2, Lists, Named, Push, Queue, ZenonT(40)
  <2>2. msgs' \in Nat /\ rude' \in BOOLEAN
    BY <1>19, SMTT(40) DEF send, TypeOK
  <2>3. UNCHANGED <<connVars, phase, rcv, urgent, peerFin, wrShut, reset, sockErr, seenVars, wpc,
                    server, exited>>
    BY <1>19, Zenon DEF send
  <2>4. /\ wire' \in Seq(Bytes) /\ sent' \in Seq(Bytes) /\ room' \in 0 .. SndBuf
        /\ inFlight' \in [Workers \cup {IOThread} -> Seq(Bytes)]
    BY <1>19, SendEffect, Zenon
  <2> QED
    BY <2>1, <2>2, <2>3, <2>4 DEF TypeOK, connVars, seenVars
<1>20. CASE sendExits
  BY <1>20, ExitTypeOK, Zenon DEF sendExits, sendInLoopExits, Exits
<1>21. CASE shutdown
  <2>1. wrShut' \in BOOLEAN /\ exited' \in Exits \cup {"no"}
    BY <1>21, Zenon DEF shutdown, shutdownWrite, TypeOK, Exits
  <2> QED
    BY <1>21, <2>1, SMTT(40) DEF shutdown, TypeOK, States, loopVars, sendVars, seenVars
<1>22. ASSUME NEW w \in Workers, Worker(w) \/ workerShutdown(w) PROVE TypeOK'
  <2>1. CASE workerSetState(w)
    BY <2>1, SMTT(40) DEF workerSetState, TypeOK, States, loopVars, sockVars, sendVars, seenVars
  <2>2. CASE workerQueues(w)
    <3>1. pendingFunctors_' \in Seq(Ops)
      BY <2>2, Queue, SMTT(40) DEF workerQueues, queueInLoop, TypeOK, Ops
    <3> QED
      BY <2>2, <3>1, SMTT(40) DEF workerQueues, TypeOK, connVars, sockVars, sendVars, seenVars
  <2>3. CASE workerShutdown(w)
    BY <2>3, SMTT(40) DEF workerShutdown, TypeOK, connVars, loopVars, sockVars, sendVars, seenVars
  <2> QED
    BY <1>22, <2>1, <2>2, <2>3, SMTT(40) DEF Worker
<1>23. CASE removeConnectionInLoop
  <2>1. pendingFunctors_' \in Seq(Ops)
    BY <1>23, Queue, Zenon DEF removeConnectionInLoop, queueInLoop, TypeOK, Ops
  <2> QED
    BY <1>23, <2>1, SMTT(40) DEF removeConnectionInLoop, TypeOK, connVars, sockVars, sendVars, seenVars
<1>24. CASE serverDestroyed
  <2>1. pendingFunctors_' \in Seq(Ops)
    BY <1>24, Queue, Zenon DEF serverDestroyed, queueInLoop, TypeOK, Ops
  <2> QED
    BY <1>24, <2>1, SMTT(40) DEF serverDestroyed, TypeOK, connVars, sockVars, sendVars, seenVars
<1>25. CASE peerReads
  BY <1>25, ConnectionAssumption, SMTT(40)
  DEF peerReads, othersUnchanged, TypeOK, connVars, loopVars, sendVars, seenVars
<1>26. CASE peerSends \/ peerCloses \/ peerResets
  <2>1. UNCHANGED <<othersUnchanged, room, wrShut>>
    BY <1>26 DEF peerSends, peerCloses, peerResets
  <2>2. rcv' \in BOOLEAN /\ urgent' \in BOOLEAN /\ peerFin' \in BOOLEAN
        /\ reset' \in BOOLEAN /\ sockErr' \in BOOLEAN
    BY <1>26, Zenon DEF peerSends, peerCloses, peerResets, TypeOK
  <2> QED
    BY <2>1, <2>2, SMTT(40) DEF othersUnchanged, TypeOK, connVars, loopVars, sendVars, seenVars
<1>27. CASE UNCHANGED vars
  BY <1>27 DEF vars, TypeOK, connVars, loopVars, sockVars, sendVars, seenVars
<1> QED
  BY <1>1, <1>2, <1>3, <1>4, <1>5, <1>6, <1>7, <1>8, <1>9, <1>10, <1>11, <1>12, <1>13, <1>14,
     <1>15, <1>16, <1>17, <1>18, <1>19, <1>20, <1>21, <1>22, <1>23, <1>24, <1>25, <1>26, <1>27, SMTT(40)
  DEF Next, IOLoop, Handler

-----------------------------------------------------------------------------
(* The stream.                                                             *)

\* The operation in hand is the first of the list.
LEMMA InHand ==
  ASSUME TypeOK, NEW op, At(op)
  PROVE  todo # <<>> /\ 1 \in DOMAIN todo /\ todo[1] = op /\ exited = "no"
<1>1. Len(todo) # 0
  BY EmptySeq DEF TypeOK, At
<1> QED
  BY <1>1, LenProperties, HeadTailProperties DEF TypeOK, At

\* While another operation is in hand no bytes are in flight.
LEMMA NotAppending ==
  ASSUME TypeOK, StreamInv, NEW op, At(op), op # "append"
  PROVE  /\ inFlight[IOThread] = <<>>
         /\ \A i \in DOMAIN todo : todo[i] # "append"
         /\ phase # "poll"
  BY InHand DEF StreamInv

\* A step that moves no bytes keeps StreamInv when it puts no append in hand.
LEMMA StreamKept ==
  ASSUME StreamInv, UNCHANGED <<sent, wire, outputBuffer_, inFlight>>,
         inFlight[IOThread] = <<>>,
         phase' = "poll" => todo' = <<>>,
         \A i \in DOMAIN todo' : todo'[i] # "append",
         \A i \in DOMAIN pendingFunctors_' : pendingFunctors_'[i] # "append"
  PROVE  StreamInv'
  BY DEF StreamInv

\* The same for a step that leaves the list alone.
LEMMA StreamAside ==
  ASSUME TypeOK, StreamInv, UNCHANGED <<sent, wire, outputBuffer_, inFlight, phase, todo>>,
         \/ UNCHANGED pendingFunctors_
         \/ \E op \in Ops \ {"append"} : pendingFunctors_' = pendingFunctors_ \o <<op>>
  PROVE  StreamInv'
<1>1. \A i \in DOMAIN pendingFunctors_' : pendingFunctors_'[i] # "append"
  <2>1. CASE UNCHANGED pendingFunctors_
    BY <2>1, SMTT(40) DEF StreamInv
  <2>2. ASSUME NEW op \in Ops \ {"append"}, pendingFunctors_' = pendingFunctors_ \o <<op>>
        PROVE  \A i \in DOMAIN pendingFunctors_' : pendingFunctors_'[i] # "append"
    BY <2>2, Lists, Queue DEF StreamInv
  <2> QED
    BY <2>1, <2>2, Zenon
<1> QED
  BY <1>1 DEF StreamInv

\* At the start there are no bytes.
LEMMA InitStream == Init => StreamInv
<1> SUFFICES ASSUME Init PROVE StreamInv
  OBVIOUS
<1>1. inFlight[IOThread] = <<>> /\ outputBuffer_ = <<>> /\ wire = <<>> /\ sent = <<>>
  BY DEF Init
<1>2. (<<>> \o <<>>) \o <<>> = <<>>
  BY EmptySeq, ConcatEmptySeq
<1>3. pendingFunctors_[1] # "append" /\ DOMAIN pendingFunctors_ = {1}
  BY DEF Init
<1>4. sent = (wire \o outputBuffer_) \o inFlight[IOThread]
  BY <1>1, <1>2, SMTT(40)
<1> QED
  BY <1>1, <1>3, <1>4 DEF Init, StreamInv

\* send() puts the message behind what is buffered: it writes past the buffer only
\* when that is empty.
LEMMA SendStream ==
  ASSUME TypeOK, TypeOK', StreamInv, NEW len \in Sizes, send(len)
  PROVE  StreamInv'
<1> DEFINE rest == inFlight'[IOThread]
<1>1. PICK op \in {"app", "messageCallback_"} : At(op)
  BY Zenon DEF send, InCallback
<1>2. /\ inFlight[IOThread] = <<>> /\ phase # "poll"
      /\ \A i \in DOMAIN todo : todo[i] # "append"
  BY <1>1, NotAppending, SMTT(40)
<1>3. sent = wire \o outputBuffer_
  BY <1>2, ConcatEmptySeq, ConcatProperties DEF StreamInv, TypeOK
<1>4. PICK pre \in Seq(Bytes) : /\ Message(len) = pre \o rest
                                /\ wire' = wire \o pre
                                /\ outputBuffer_ = <<>> \/ pre = <<>>
  BY SendEffect, Zenon
<1>5. /\ wire \in Seq(Bytes) /\ outputBuffer_ \in Seq(Bytes) /\ rest \in Seq(Bytes)
      /\ outputBuffer_' = outputBuffer_ /\ phase' = phase
  BY Zenon DEF send, connVars, TypeOK
<1>6. sent' = (wire \o outputBuffer_) \o (pre \o rest)
  BY <1>3, <1>4, SendEffect, Zenon
<1> HIDE DEF rest
<1>7. (wire \o outputBuffer_) \o (pre \o rest) = ((wire \o pre) \o outputBuffer_) \o rest
  <2>1. CASE outputBuffer_ = <<>>
    <3>1. wire \o outputBuffer_ = wire /\ (wire \o pre) \o outputBuffer_ = wire \o pre
      BY <1>5, <2>1, ConcatEmptySeq, ConcatProperties, Zenon
    <3>2. (wire \o pre) \o rest = wire \o (pre \o rest)
      BY <1>5, ConcatAssociative, SMTT(40)
    <3> QED
      BY <3>1, <3>2, SMTT(40)
  <2>2. CASE pre = <<>>
    BY <1>5, <2>2, ConcatEmptySeq
  <2> QED
    BY <1>4, <2>1, <2>2, Zenon
<1>8. sent' = (wire' \o outputBuffer_') \o rest
  BY <1>4, <1>5, <1>6, <1>7
<1>9. \A i \in DOMAIN pendingFunctors_' : pendingFunctors_'[i] # "append"
  <2>1. \/ pendingFunctors_' = pendingFunctors_
        \/ pendingFunctors_' = pendingFunctors_ \o <<"writeCompleteCallback_">>
    BY SendEffect, Zenon
  <2>2. \A i \in DOMAIN pendingFunctors_ : pendingFunctors_[i] # "append"
    BY DEF StreamInv
  <2> QED
    BY <2>1, <2>2, Lists, Named, Queue, SMTT(40)
<1>10. todo' # <<>> /\ \A i \in DOMAIN todo' : todo'[i] = "append" <=> i = 1 /\ rest # <<>>
  <2>1. todo' = todo <=> rest = <<>>
    BY SendEffect DEF rest
  <2>2. todo' = todo \/ todo' = <<"append">> \o todo
    BY SendEffect
  <2>3. CASE todo' = todo
    BY <1>1, <1>2, <2>1, <2>3, InHand
  <2>4. CASE todo' # todo
    <3>1. /\ Len(todo') = Len(todo) + 1 /\ todo'[1] = "append"
          /\ \A i \in DOMAIN todo' : i \in Nat \ {0} /\ (i # 1 => i - 1 \in DOMAIN todo /\ todo'[i] = todo[i - 1])
      <4>1. todo \in Seq(Ops) /\ "append" \in Ops /\ todo' = <<"append">> \o todo
        BY <2>2, <2>4, Lists, Named
      <4> QED
        BY <4>1, Push
    <3>2. todo' # <<>>
      <4>1. Len(todo) \in Nat
        BY Lists, LenProperties, SMTT(40)
      <4> QED
        BY <3>1, <4>1, EmptySeq
    <3> QED
      BY <1>2, <2>1, <2>4, <3>1, <3>2, SMTT(40)
  <2> QED
    BY <2>3, <2>4
<1> QED
  BY <1>2, <1>5, <1>8, <1>9, <1>10, SMTT(40) DEF StreamInv, rest

\* A handler that moves no bytes: it gives way to nothing, to one operation or to two.
LEMMA HandlerStream ==
  ASSUME TypeOK, StreamInv, NEW op, op # "append", At(op),
         UNCHANGED <<sent, wire, outputBuffer_, inFlight, phase, pendingFunctors_>>,
         \/ Then(<<>>)
         \/ \E a \in Ops \ {"append"} : Then(<<a>>)
         \/ \E a, b \in Ops \ {"append"} : Then(<<a, b>>)
  PROVE  StreamInv'
<1>1. /\ inFlight[IOThread] = <<>> /\ phase # "poll" /\ todo # <<>> /\ todo \in Seq(Ops)
      /\ \A i \in DOMAIN todo : todo[i] # "append"
  BY NotAppending, InHand, Lists
<1>2. \A i \in DOMAIN todo' : todo'[i] # "append"
  <2>1. CASE Then(<<>>)
    BY <1>1, <2>1, Drop, SMTT(40) DEF Then
  <2>2. ASSUME NEW a \in Ops \ {"append"}, Then(<<a>>)
        PROVE  \A i \in DOMAIN todo' : todo'[i] # "append"
    BY <1>1, <2>2, Replace, SMTT(40) DEF Then
  <2>3. ASSUME NEW a \in Ops \ {"append"}, NEW b \in Ops \ {"append"}, Then(<<a, b>>)
        PROVE  \A i \in DOMAIN todo' : todo'[i] # "append"
    BY <1>1, <2>3, Replace2, SMTT(40) DEF Then
  <2> QED
    BY <2>1, <2>2, <2>3, Zenon
<1>3. \A i \in DOMAIN pendingFunctors_' : pendingFunctors_'[i] # "append"
  BY SMTT(40) DEF StreamInv
<1> QED
  BY <1>1, <1>2, <1>3, StreamKept, SMTT(40)

\* The append takes the bytes in flight to the end of the buffer.
LEMMA AppendStream == ASSUME TypeOK, StreamInv, append PROVE StreamInv'
<1>1. todo \in Seq(Ops) /\ todo # <<>> /\ 1 \in DOMAIN todo /\ todo[1] = "append"
  BY InHand, Lists, SMTT(40) DEF append
<1>2. phase' # "poll"
  BY <1>1, SMTT(40) DEF append, StreamInv
<1>3. /\ outputBuffer_' = outputBuffer_ \o inFlight[IOThread]
      /\ inFlight'[IOThread] = <<>>
      /\ sent' = sent /\ wire' = wire
  BY SMTT(40) DEF append, sendInLoopAppend, TypeOK
<1>4. sent' = (wire' \o outputBuffer_') \o inFlight'[IOThread]
  <2> DEFINE f == inFlight[IOThread]
  <2>1. wire \in Seq(Bytes) /\ outputBuffer_ \in Seq(Bytes) /\ f \in Seq(Bytes)
    BY DEF TypeOK
  <2> HIDE DEF f
  <2>2. (wire \o outputBuffer_) \o f = wire \o (outputBuffer_ \o f)
    BY <2>1, ConcatAssociative, SMTT(40)
  <2>3. wire \o (outputBuffer_ \o f) \in Seq(Bytes)
    BY <2>1, ConcatProperties
  <2>4. (wire \o (outputBuffer_ \o f)) \o <<>> = wire \o (outputBuffer_ \o f)
    BY <2>3, ConcatEmptySeq
  <2> QED
    BY <1>3, <2>2, <2>4 DEF f, StreamInv
<1>5. \A i \in DOMAIN todo' : todo'[i] # "append"
  <2>1. \A i \in DOMAIN todo' : i \in Nat \ {0} /\ i + 1 \in DOMAIN todo /\ todo'[i] = todo[i + 1]
    BY <1>1, Drop DEF append, Then
  <2> QED
    BY <2>1 DEF StreamInv
<1>6. \A i \in DOMAIN pendingFunctors_' : pendingFunctors_'[i] # "append"
  <2>1. \/ pendingFunctors_' = pendingFunctors_ \o <<"highWaterMarkCallback_">>
        \/ pendingFunctors_' = pendingFunctors_ \o <<>>
    BY Zenon DEF append, sendInLoopAppend, queueInLoop
  <2>2. \A i \in DOMAIN pendingFunctors_ : pendingFunctors_[i] # "append"
    BY DEF StreamInv
  <2> QED
    BY <2>1, <2>2, Lists, Named, Queue, ConcatEmptySeq, SMTT(40)
<1> QED
  BY <1>2, <1>3, <1>4, <1>5, <1>6 DEF StreamInv

\* handleWrite, when it writes everything, moves the buffer behind what is written.
LEMMA FlushStream == ASSUME TypeOK, StreamInv, handleWriteFlush PROVE StreamInv'
<1>1. At("handleWrite")
  BY DEF handleWriteFlush
<1>2. /\ inFlight[IOThread] = <<>> /\ phase # "poll" /\ todo # <<>> /\ todo \in Seq(Ops)
      /\ \A i \in DOMAIN todo : todo[i] # "append"
  BY <1>1, NotAppending, InHand, Lists
<1>3. /\ wire' = wire \o outputBuffer_ /\ outputBuffer_' = <<>> /\ sent' = sent
      /\ inFlight' = inFlight /\ phase' = phase
  BY DEF handleWriteFlush
<1>4. sent' = (wire' \o outputBuffer_') \o inFlight'[IOThread]
  <2>1. wire \o outputBuffer_ \in Seq(Bytes)
    BY ConcatProperties DEF TypeOK
  <2>2. (wire \o outputBuffer_) \o <<>> = wire \o outputBuffer_
    BY <2>1, ConcatEmptySeq
  <2> QED
    BY <1>2, <1>3, <2>2, SMTT(40) DEF StreamInv
<1>5. \A i \in DOMAIN todo' : todo'[i] # "append"
  <2>1. todo' = <<>> \o Tail(todo)
    BY DEF handleWriteFlush, Then
  <2> QED
    BY <1>2, <2>1, Drop
<1>6. \A i \in DOMAIN pendingFunctors_' : pendingFunctors_'[i] # "append"
  <2>1. pendingFunctors_' = pendingFunctors_ \o <<"writeCompleteCallback_">>
    BY SMTT(40) DEF handleWriteFlush, queueInLoop
  <2>2. \A i \in DOMAIN pendingFunctors_ : pendingFunctors_[i] # "append"
    BY DEF StreamInv
  <2> QED
    BY <2>1, <2>2, Lists, Named, Queue
<1> QED
  BY <1>2, <1>3, <1>4, <1>5, <1>6, Zenon DEF StreamInv

\* Every step keeps StreamInv.
LEMMA NextStream == TypeOK /\ TypeOK' /\ StreamInv /\ [Next]_vars => StreamInv'
<1> SUFFICES ASSUME TypeOK, TypeOK', StreamInv, [Next]_vars PROVE StreamInv'
  OBVIOUS
<1>1. CASE handleRead \/ handleClose
  <2>1. PICK op \in {"handleRead", "handleClose"} : At(op)
    BY <1>1, SMTT(40) DEF handleRead, handleClose
  <2>2. UNCHANGED <<sent, wire, outputBuffer_, inFlight, phase, pendingFunctors_>>
    BY <1>1, Zenon DEF handleRead, handleClose, goDown, connVars, sendVars
  <2>3. Then(<<"messageCallback_">>) \/ Then(<<"app", "closeCallback_">>)
    BY <1>1 DEF handleRead, handleClose, goDown
  <2> QED
    BY <2>1, <2>2, <2>3, HandlerStream, Named, Zenon
<1>2. CASE handleWriteFlush
  BY <1>2, FlushStream, SMTT(40)
<1>3. CASE handleWriteNothing
  <2>1. UNCHANGED <<sent, wire, outputBuffer_, inFlight, phase, pendingFunctors_>>
    BY <1>3, Zenon DEF handleWriteNothing, connVars, sendVars
  <2> QED
    BY <1>3, <2>1, HandlerStream DEF handleWriteNothing
<1>4. CASE handleWriteExits \/ handleError \/ closeCallbackDangles \/ sendExits
  <2>1. UNCHANGED <<sent, wire, outputBuffer_, inFlight, phase, todo, pendingFunctors_>>
    BY <1>4, Zenon
    DEF handleWriteExits, handleError, closeCallbackDangles, sendExits, sendInLoopExits, exit,
        connVars, loopVars, sendVars
  <2> QED
    BY <2>1, StreamAside, SMTT(40)
<1>5. CASE closeCallback_
  BY <1>5, HandlerStream DEF closeCallback_, connVars, sendVars
<1>6. CASE connectEstablished
  BY <1>6, HandlerStream, Named, Zenon DEF connectEstablished, sendVars
<1>7. CASE connectDestroyed
  <2>1. UNCHANGED <<sent, wire, outputBuffer_, inFlight, phase, pendingFunctors_>>
        /\ At("connectDestroyed") /\ (Then(<<"app", "remove">>) \/ Then(<<"remove">>))
    BY <1>7 DEF connectDestroyed, sendVars
  <2> QED
    BY <2>1, HandlerStream, Named, Zenon
<1>8. CASE remove
  BY <1>8, HandlerStream DEF remove, sendVars
<1>9. CASE shutdownFunctor
  BY <1>9, HandlerStream, SMTT(40) DEF shutdownFunctor, connVars, sendVars
<1>10. CASE append
  BY <1>10, AppendStream
<1>11. CASE userFunctor
  <2>1. PICK op \in {"writeCompleteCallback_", "highWaterMarkCallback_"} : At(op)
    BY <1>11 DEF userFunctor
  <2> QED
    BY <1>11, <2>1, HandlerStream, Named, Zenon DEF userFunctor, connVars, sendVars
<1>12. CASE poll
  <2>1. todo = <<>> /\ inFlight[IOThread] = <<>>
    BY <1>12, Zenon DEF poll, StreamInv
  <2>2. \A i \in DOMAIN todo' : todo'[i] # "append"
    BY <1>12, EventList, SMTT(40) DEF poll
  <2> QED
    BY <1>12, <2>1, <2>2, StreamKept, Zenon DEF poll, connVars, sendVars, StreamInv
<1>13. CASE doPendingFunctors
  BY <1>13, StreamKept, Zenon DEF doPendingFunctors, connVars, sendVars, StreamInv
<1>14. CASE nextIteration
  BY <1>14, StreamKept, Zenon DEF nextIteration, connVars, sendVars, StreamInv
<1>15. CASE callbackReturns
  <2>1. PICK op \in {"app", "messageCallback_"} : At(op)
    BY <1>15 DEF callbackReturns, InCallback
  <2> QED
    BY <1>15, <2>1, HandlerStream DEF callbackReturns, connVars, sendVars
<1>16. ASSUME NEW len \in Sizes, send(len) PROVE StreamInv'
  BY <1>16, SendStream
<1>17. CASE shutdown
  BY <1>17, StreamAside DEF shutdown, loopVars, sendVars
<1>18. ASSUME NEW w \in Workers, Worker(w) \/ workerShutdown(w) PROVE StreamInv'
  <2>1. CASE workerSetState(w) \/ workerShutdown(w)
    BY <2>1, StreamAside DEF workerSetState, workerShutdown, connVars, loopVars, sendVars
  <2>2. CASE workerQueues(w)
    BY <2>2, StreamAside, Named DEF workerQueues, queueInLoop, connVars, sendVars
  <2> QED
    BY <1>18, <2>1, <2>2, SMTT(40) DEF Worker
<1>19. CASE removeConnectionInLoop \/ serverDestroyed
  BY <1>19, StreamAside, Named, Zenon
  DEF removeConnectionInLoop, serverDestroyed, queueInLoop, connVars, sendVars
<1>20. CASE peerReads \/ peerSends \/ peerCloses \/ peerResets
  <2>1. UNCHANGED othersUnchanged
    BY <1>20 DEF peerReads, peerSends, peerCloses, peerResets
  <2> QED
    BY <2>1, StreamAside DEF othersUnchanged, connVars, loopVars, sendVars
<1>21. CASE UNCHANGED vars
  BY <1>21, StreamAside DEF vars, connVars, loopVars, sendVars
<1> QED
  BY <1>1, <1>2, <1>3, <1>4, <1>5, <1>6, <1>7, <1>8, <1>9, <1>10, <1>11, <1>12, <1>13, <1>14,
     <1>15, <1>16, <1>17, <1>18, <1>19, <1>20, <1>21, SMTT(40)
  DEF Next, IOLoop, Handler

-----------------------------------------------------------------------------
(* Buffered bytes are watched, and the write side is closed only after them. *)

\* What is not in hand comes there only from the operations that a handler gives way to,
\* and what is not queued only from the functor that is queued.
LEMMA ListKeeps ==
  ASSUME TypeOK, NEW op, At(op), NEW X, \A i \in DOMAIN todo : todo[i] \notin X,
         \/ Then(<<>>)
         \/ \E a \in Ops \ X : Then(<<a>>)
         \/ \E a, b \in Ops \ X : Then(<<a, b>>)
  PROVE  \A i \in DOMAIN todo' : todo'[i] \notin X
<1>1. todo # <<>> /\ todo \in Seq(Ops)
  BY InHand, Lists
<1>2. CASE Then(<<>>)
  BY <1>1, <1>2, Drop DEF Then
<1>3. ASSUME NEW a \in Ops \ X, Then(<<a>>)
      PROVE  \A i \in DOMAIN todo' : todo'[i] \notin X
  BY <1>1, <1>3, Replace, SMTT(40) DEF Then
<1>4. ASSUME NEW a \in Ops \ X, NEW b \in Ops \ X, Then(<<a, b>>)
      PROVE  \A i \in DOMAIN todo' : todo'[i] \notin X
  BY <1>1, <1>4, Replace2 DEF Then
<1> QED
  BY <1>2, <1>3, <1>4, Zenon

\* A step that queues nothing of X leaves nothing of X queued.
LEMMA PendingKeeps ==
  ASSUME TypeOK, NEW X, \A i \in DOMAIN pendingFunctors_ : pendingFunctors_[i] \notin X,
         \/ UNCHANGED pendingFunctors_
         \/ \E a \in Ops \ X : pendingFunctors_' = pendingFunctors_ \o <<a>>
  PROVE  \A i \in DOMAIN pendingFunctors_' : pendingFunctors_'[i] \notin X
<1>1. CASE UNCHANGED pendingFunctors_
  BY <1>1, SMTT(40)
<1>2. ASSUME NEW a \in Ops \ X, pendingFunctors_' = pendingFunctors_ \o <<a>>
      PROVE  \A i \in DOMAIN pendingFunctors_' : pendingFunctors_'[i] \notin X
  BY <1>2, Lists, Queue
<1> QED
  BY <1>1, <1>2, Zenon

\* No part of the destruction of the connection is in hand or queued.
NotDestroying ==
  /\ \A i \in DOMAIN todo : todo[i] \notin {"connectDestroyed", "remove"}
  /\ \A i \in DOMAIN pendingFunctors_ : pendingFunctors_[i] \notin {"connectDestroyed", "remove"}

\* The conjuncts of WatchInv that say what is watched.
Watched ==
  /\ outputBuffer_ # <<>> /\ downs = 0 => isWriting
  /\ wrShut /\ downs = 0 => ~isWriting /\ outputBuffer_ = <<>> /\ inFlight[IOThread] = <<>>
  /\ server = "alive" => (events_ # {} /\ downs = 0 => index_ = "kAdded")

\* WatchInv apart: what is watched, and that nothing is being destroyed.
LEMMA WatchParts == WatchInv <=> Watched /\ (server = "alive" => NotDestroying)
  BY DEF WatchInv, Watched, NotDestroying

\* A handler that is no part of the destruction puts no part of it in hand.
LEMMA NotDestroyingKept ==
  ASSUME TypeOK, NotDestroying,
         \/ UNCHANGED todo
         \/ \E op \in Ops : /\ At(op)
                            /\ \/ Then(<<>>)
                               \/ \E a \in Ops \ {"connectDestroyed", "remove"} : Then(<<a>>)
                               \/ \E a, b \in Ops \ {"connectDestroyed", "remove"} : Then(<<a, b>>),
         \/ UNCHANGED pendingFunctors_
         \/ \E a \in Ops \ {"connectDestroyed", "remove"} : pendingFunctors_' = pendingFunctors_ \o <<a>>
  PROVE  NotDestroying'
<1>1. \A i \in DOMAIN todo' : todo'[i] \notin {"connectDestroyed", "remove"}
  <2>1. CASE UNCHANGED todo
    BY <2>1 DEF NotDestroying
  <2>2. ASSUME NEW op \in Ops, At(op),
               \/ Then(<<>>)
               \/ \E a \in Ops \ {"connectDestroyed", "remove"} : Then(<<a>>)
               \/ \E a, b \in Ops \ {"connectDestroyed", "remove"} : Then(<<a, b>>)
        PROVE  \A i \in DOMAIN todo' : todo'[i] \notin {"connectDestroyed", "remove"}
    BY <2>2, ListKeeps, Zenon DEF NotDestroying
  <2> QED
    BY <2>1, <2>2, Zenon
<1>2. \A i \in DOMAIN pendingFunctors_' : pendingFunctors_'[i] \notin {"connectDestroyed", "remove"}
  BY PendingKeeps, Zenon DEF NotDestroying
<1> QED
  BY <1>1, <1>2 DEF NotDestroying

\* Every step keeps the destruction away while the server keeps the connection.
LEMMA NextNotDestroying ==
  ASSUME TypeOK, StreamInv, server = "alive" => NotDestroying, [Next]_vars, server' = "alive"
  PROVE  NotDestroying'
<1>0. server = "alive" /\ NotDestroying
  <2>1. server' = "alive" => server = "alive"
    BY Zenon DEF Next, IOLoop, Handler, Worker, handleRead, handleWriteFlush, handleWriteNothing,
           handleWriteExits, handleClose, handleError, closeCallback_, closeCallbackDangles,
           connectEstablished, connectDestroyed, remove, shutdownFunctor, append, userFunctor,
           poll, doPendingFunctors, nextIteration, callbackReturns, send, sendExits,
           sendInLoopExits, shutdown, workerShutdown, workerSetState, workerQueues,
           removeConnectionInLoop, serverDestroyed, peerReads, peerSends, peerCloses, peerResets,
           goDown, exit, othersUnchanged, vars
  <2> QED
    BY <2>1
<1>1. CASE handleRead \/ handleClose
  <2>1. PICK op \in {"handleRead", "handleClose"} : At(op)
    BY <1>1, SMTT(40) DEF handleRead, handleClose
  <2>2. op \in Ops /\ UNCHANGED pendingFunctors_
    BY <1>1, <2>1, Zenon DEF handleRead, handleClose, goDown, Ops
  <2>3. Then(<<"messageCallback_">>) \/ Then(<<"app", "closeCallback_">>)
    BY <1>1, Zenon DEF handleRead, handleClose, goDown
  <2> QED
    BY <1>0, <2>1, <2>2, <2>3, NotDestroyingKept, Named, Zenon
<1>2. CASE handleWriteFlush
  <2>1. "handleWrite" \in Ops /\ At("handleWrite") /\ Then(<<>>)
        /\ pendingFunctors_' = pendingFunctors_ \o <<"writeCompleteCallback_">>
    BY <1>2 DEF handleWriteFlush, queueInLoop, Ops
  <2> QED
    BY <1>0, <2>1, NotDestroyingKept, Named, Zenon
<1>3. CASE handleWriteNothing
  <2>1. At("handleWrite") /\ Then(<<>>) /\ UNCHANGED pendingFunctors_
    BY <1>3, Zenon DEF handleWriteNothing
  <2>2. "handleWrite" \in Ops
    BY DEF Ops
  <2> QED
    BY <1>0, <2>1, <2>2, NotDestroyingKept
<1>4. CASE handleWriteExits \/ handleError \/ closeCallbackDangles \/ sendExits
  <2>1. UNCHANGED <<todo, pendingFunctors_>>
    BY <1>4, Zenon
    DEF handleWriteExits, handleError, closeCallbackDangles, sendExits, sendInLoopExits, exit, loopVars
  <2> QED
    BY <1>0, <2>1, NotDestroyingKept, SMTT(40)
<1>5. CASE closeCallback_ \/ shutdownFunctor
  <2>1. PICK op \in {"closeCallback_", "shutdownInLoop"} : At(op)
    BY <1>5 DEF closeCallback_, shutdownFunctor
  <2>2. Then(<<>>) /\ UNCHANGED pendingFunctors_
    BY <1>5, SMTT(40) DEF closeCallback_, shutdownFunctor
  <2> QED
    BY <1>0, <2>1, <2>2, NotDestroyingKept, Named
<1>6. CASE connectEstablished
  BY <1>0, <1>6, NotDestroyingKept, Named DEF connectEstablished
<1>7. CASE connectDestroyed \/ remove
  <2>1. PICK op \in {"connectDestroyed", "remove"} : At(op)
    BY <1>7, SMTT(40) DEF connectDestroyed, remove
  <2> QED
    BY <1>0, <2>1, InHand, SMTT(40) DEF NotDestroying
<1>8. CASE append
  <2>1. \/ pendingFunctors_' = pendingFunctors_ \o <<"highWaterMarkCallback_">>
        \/ pendingFunctors_' = pendingFunctors_ \o <<>>
    BY <1>8, Zenon DEF append, sendInLoopAppend, queueInLoop
  <2>2. \/ pendingFunctors_' = pendingFunctors_ \o <<"highWaterMarkCallback_">>
        \/ UNCHANGED pendingFunctors_
    BY <2>1, Lists, ConcatEmptySeq
  <2> QED
    BY <1>0, <1>8, <2>2, NotDestroyingKept, Named, Zenon DEF append
<1>9. CASE userFunctor \/ callbackReturns
  <2>1. PICK op \in {"writeCompleteCallback_", "highWaterMarkCallback_", "app", "messageCallback_"} :
               At(op)
    BY <1>9 DEF userFunctor, callbackReturns, InCallback
  <2>2. (Then(<<"app">>) \/ Then(<<>>)) /\ UNCHANGED pendingFunctors_
    BY <1>9, SMTT(40) DEF userFunctor, callbackReturns
  <2> QED
    BY <1>0, <2>1, <2>2, NotDestroyingKept, Named
<1>10. CASE poll
  BY <1>0, <1>10, EventList, SMTT(40) DEF poll, NotDestroying
<1>11. CASE doPendingFunctors \/ nextIteration
  BY <1>0, <1>11 DEF doPendingFunctors, nextIteration, NotDestroying
<1>12. ASSUME NEW len \in Sizes, send(len) PROVE NotDestroying'
  <2>1. \/ pendingFunctors_' = pendingFunctors_
        \/ pendingFunctors_' = pendingFunctors_ \o <<"writeCompleteCallback_">>
    BY <1>12, SendEffect, Zenon
  <2>2. \A i \in DOMAIN pendingFunctors_' : pendingFunctors_'[i] \notin {"connectDestroyed", "remove"}
    BY <1>0, <2>1, PendingKeeps, Named, SMTT(40) DEF NotDestroying
  <2>3. todo' = todo \/ todo' = <<"append">> \o todo
    BY <1>12, SendEffect, Zenon
  <2>4. \A i \in DOMAIN todo' : todo'[i] \notin {"connectDestroyed", "remove"}
    <3>1. CASE todo' = todo
      BY <1>0, <3>1 DEF NotDestroying
    <3>2. CASE todo' = <<"append">> \o todo
      <4>1. todo \in Seq(Ops) /\ "append" \in Ops
        BY Lists, Named, SMTT(40)
      <4>2. todo'[1] = "append"
            /\ \A i \in DOMAIN todo' : i # 1 => i - 1 \in DOMAIN todo /\ todo'[i] = todo[i - 1]
        BY <3>2, <4>1, Push, SMTT(40)
      <4> QED
        BY <1>0, <4>2 DEF NotDestroying
    <3> QED
      BY <2>3, <3>1, <3>2
  <2> QED
    BY <2>2, <2>4 DEF NotDestroying
<1>13. CASE shutdown
  BY <1>0, <1>13, NotDestroyingKept DEF shutdown, loopVars
<1>14. ASSUME NEW w \in Workers, Worker(w) \/ workerShutdown(w) PROVE NotDestroying'
  <2>1. UNCHANGED todo /\ (\/ UNCHANGED pendingFunctors_
                           \/ pendingFunctors_' = pendingFunctors_ \o <<"shutdownInLoop">>)
    BY <1>14, Zenon DEF Worker, workerSetState, workerQueues, workerShutdown, queueInLoop, loopVars
  <2> QED
    BY <1>0, <2>1, NotDestroyingKept, Named, Zenon
<1>15. CASE removeConnectionInLoop \/ serverDestroyed
  BY <1>15 DEF removeConnectionInLoop, serverDestroyed
<1>16. CASE peerReads \/ peerSends \/ peerCloses \/ peerResets \/ UNCHANGED vars
  <2>1. UNCHANGED <<todo, pendingFunctors_>>
    BY <1>16, Zenon DEF peerReads, peerSends, peerCloses, peerResets, othersUnchanged, vars, loopVars
  <2> QED
    BY <1>0, <2>1, NotDestroyingKept
<1> QED
  BY <1>1, <1>2, <1>3, <1>4, <1>5, <1>6, <1>7, <1>8, <1>9, <1>10, <1>11, <1>12, <1>13, <1>14,
     <1>15, <1>16, Zenon
  DEF Next, IOLoop, Handler

\* Every step keeps what is watched.
LEMMA NextWatched ==
  ASSUME TypeOK, StreamInv, WatchInv, [Next]_vars
  PROVE  Watched'
<1>0. Watched /\ (server = "alive" => NotDestroying) /\ downs \in Nat
  BY WatchParts DEF TypeOK
<1> USE DEF isWriting, kRead, kWrite
<1>1. CASE handleRead \/ handleClose
  <2>1. CASE readFd # "eof" /\ handleRead
    BY <1>0, <2>1, Zenon DEF handleRead, Watched, connVars, sendVars
  <2>2. CASE goDown
    <3>1. downs' # 0 /\ events_' = {}
      BY <1>0, <2>2, SMTT(40) DEF goDown, disableAll, update
    <3> QED
      BY <3>1 DEF Watched
  <2> QED
    BY <1>1, <2>1, <2>2, ZenonT(40) DEF handleRead, handleClose
<1>2. CASE handleWriteFlush
  <2>1. ~wrShut /\ "write" \in events_
    BY <1>2, SMTT(40) DEF handleWriteFlush, WriteFails
  <2>2. events_' = events_ \cap {"write"} /\ index_' = "kAdded" /\ outputBuffer_' = <<>>
        /\ UNCHANGED <<inFlight, downs, server>>
    BY <1>2, <2>1, Zenon DEF handleWriteFlush, disableWriting, update, seenVars
  <2>3. ~wrShut'
    BY <1>2, <2>1, <2>2, Zenon DEF handleWriteFlush, shutdownWrite, shutdownInLoop
  <2> QED
    BY <2>1, <2>2, <2>3, SMTT(40) DEF Watched
<1>3. CASE handleWriteNothing
  <2>1. UNCHANGED <<outputBuffer_, events_, index_, wrShut, inFlight, downs, server>>
    BY <1>3, ZenonT(40) DEF handleWriteNothing, connVars, sendVars, seenVars
  <2> QED
    BY <1>0, <2>1, ZenonT(40) DEF Watched
<1>4. CASE handleWriteExits \/ handleError \/ closeCallbackDangles \/ sendExits
  <2>1. UNCHANGED <<outputBuffer_, events_, index_, wrShut, inFlight, downs, server>>
    BY <1>4, ZenonT(40)
    DEF handleWriteExits, handleError, closeCallbackDangles, sendExits, sendInLoopExits, exit,
        connVars, sockVars, sendVars, seenVars
  <2> QED
    BY <1>0, <2>1, ZenonT(40) DEF Watched
<1>5. CASE closeCallback_
  BY <1>0, <1>5, Zenon DEF closeCallback_, Watched, connVars, sockVars, sendVars, seenVars
<1>6. CASE connectEstablished
  <2>1. events_' = events_ \cup {"read"} /\ index_' = "kAdded"
        /\ UNCHANGED <<outputBuffer_, wrShut, inFlight, downs, server>>
    BY <1>6, Zenon DEF connectEstablished, enableReading, update, sockVars, sendVars
  <2> QED
    BY <1>0, <2>1, ZenonT(40) DEF Watched
<1>7. CASE connectDestroyed
  <2>1. server # "alive"
    BY <1>0, <1>7, InHand, SMTT(40) DEF connectDestroyed, NotDestroying
  <2>2. UNCHANGED <<outputBuffer_, wrShut, inFlight, server>>
        /\ (downs' = downs + 1 \/ UNCHANGED <<events_, downs>>)
    BY <1>7, SMTT(40) DEF connectDestroyed, sockVars, sendVars
  <2> QED
    BY <1>0, <2>1, <2>2, SMTT(40) DEF Watched
<1>8. CASE remove
  <2>1. server # "alive"
    BY <1>0, <1>8, InHand, SMTT(40) DEF remove, NotDestroying
  <2> QED
    BY <1>0, <1>8, <2>1, Zenon DEF remove, Watched, sockVars, sendVars, seenVars
<1>9. CASE shutdown \/ shutdownFunctor
  <2>1. PICK op \in {"app", "messageCallback_", "shutdownInLoop"} : At(op)
    BY <1>9 DEF shutdown, shutdownFunctor, InCallback
  <2>2. inFlight[IOThread] = <<>>
    BY <2>1, NotAppending, SMTT(40)
  <2>3. UNCHANGED <<outputBuffer_, events_, index_, inFlight, downs, server>>
    BY <1>9, Zenon DEF shutdown, shutdownFunctor, connVars, sendVars, seenVars
  <2>4. wrShut' => wrShut \/ "write" \notin events_
    BY <1>9, Zenon DEF shutdown, shutdownFunctor, shutdownWrite, shutdownInLoop
  <2> QED
    BY <1>0, <2>2, <2>3, <2>4, Zenon DEF Watched
<1>10. CASE append
  <2>1. inFlight[IOThread] # <<>>
    BY <1>10, InHand, Zenon DEF append, StreamInv
  <2>2. "write" \in events_' /\ (UNCHANGED <<events_, index_>> \/ index_' = "kAdded")
        /\ UNCHANGED <<wrShut, downs, server>>
    BY <1>10, Zenon DEF append, sendInLoopAppend, enableWriting, update, sockVars, seenVars
  <2> QED
    BY <1>0, <2>1, <2>2, Zenon DEF Watched
<1>11. CASE userFunctor \/ callbackReturns \/ poll \/ doPendingFunctors \/ nextIteration
  <2>1. UNCHANGED <<outputBuffer_, events_, index_, wrShut, inFlight, downs, server>>
    BY <1>11, ZenonT(40)
    DEF userFunctor, callbackReturns, poll, doPendingFunctors, nextIteration, connVars, sockVars,
        sendVars, seenVars
  <2> QED
    BY <1>0, <2>1, ZenonT(40) DEF Watched
<1>12. ASSUME NEW len \in Sizes, send(len) PROVE Watched'
  <2>1. UNCHANGED <<outputBuffer_, events_, index_, wrShut, downs, server>>
    BY <1>12, ZenonT(40) DEF send, connVars, seenVars
  <2>2. wrShut => "write" \in events_ \/ outputBuffer_ # <<>>
    BY <1>12, ZenonT(40) DEF send, sendInLoopGoesOn, WriteFails
  <2> QED
    BY <1>0, <2>1, <2>2, ZenonT(40) DEF Watched
<1>13. ASSUME NEW w \in Workers, Worker(w) \/ workerShutdown(w) PROVE Watched'
  <2>1. UNCHANGED <<outputBuffer_, events_, index_, wrShut, inFlight, downs, server>>
    BY <1>13, ZenonT(40)
    DEF Worker, workerSetState, workerQueues, workerShutdown, connVars, sockVars, sendVars, seenVars
  <2> QED
    BY <1>0, <2>1, ZenonT(40) DEF Watched
<1>14. CASE removeConnectionInLoop \/ serverDestroyed
  <2>1. UNCHANGED <<outputBuffer_, events_, index_, wrShut, inFlight, downs>> /\ server' # "alive"
    BY <1>14, ZenonT(40) DEF removeConnectionInLoop, serverDestroyed, connVars, sockVars, sendVars, seenVars
  <2> QED
    BY <1>0, <2>1, ZenonT(40) DEF Watched
<1>15. CASE peerReads \/ peerSends \/ peerCloses \/ peerResets \/ UNCHANGED vars
  <2>1. UNCHANGED <<outputBuffer_, events_, index_, wrShut, inFlight, downs, server>>
    BY <1>15, ZenonT(40)
    DEF peerReads, peerSends, peerCloses, peerResets, othersUnchanged, vars, connVars, sockVars,
        sendVars, seenVars
  <2> QED
    BY <1>0, <2>1, ZenonT(40) DEF Watched
<1> QED
  BY <1>1, <1>2, <1>3, <1>4, <1>5, <1>6, <1>7, <1>8, <1>9, <1>10, <1>11, <1>12, <1>13, <1>14,
     <1>15, Zenon
  DEF Next, IOLoop, Handler

\* At the start nothing is buffered and the server keeps the connection.
LEMMA InitWatch == Init => WatchInv
<1> SUFFICES ASSUME Init PROVE WatchInv
  OBVIOUS
<1>1. DOMAIN pendingFunctors_ = {1} /\ pendingFunctors_[1] = "connectEstablished"
  BY DEF Init
<1> QED
  BY <1>1 DEF Init, WatchInv

\* Every step keeps WatchInv.
LEMMA NextWatch == ASSUME TypeOK, StreamInv, WatchInv, [Next]_vars PROVE WatchInv'
<1>1. Watched'
  BY NextWatched
<1>2. server' = "alive" => NotDestroying'
  BY WatchParts, NextNotDestroying, SMTT(40)
<1>3. WatchInv' <=> Watched' /\ (server' = "alive" => NotDestroying')
  BY Zenon DEF WatchInv, Watched, NotDestroying
<1> QED
  BY <1>1, <1>2, <1>3

-----------------------------------------------------------------------------
(* Up once, down at most once.                                             *)

\* UpThenDown, part by part.
LifeCount == downs <= ups /\ ups <= 1 /\ (state_ = "kConnecting" <=> ups = 0)
LifeFirst ==
  ups = 0 => /\ index_ = "kNew"
             /\ IF todo = <<>>
                THEN pendingFunctors_ # <<>> /\ pendingFunctors_[1] = "connectEstablished"
                ELSE todo[1] = "connectEstablished" /\ \A i \in DOMAIN todo : todo[i] # "remove"
LifeOnce ==
  /\ \A i \in DOMAIN todo : todo[i] = "connectEstablished" => i = 1 /\ ups = 0
  /\ \A i \in DOMAIN pendingFunctors_ :
       pendingFunctors_[i] = "connectEstablished" => i = 1 /\ ups = 0 /\ todo = <<>>
LifeUp ==
  state_ = "kConnected" => /\ downs = 0 /\ index_ = "kAdded"
                           /\ \A i \in DOMAIN todo : todo[i] # "remove"
LifeDown == downs > 0 => index_ # "kAdded" /\ events_ = {}
LifeReading ==
  \A i \in DOMAIN todo :
    /\ todo[i] \in Reading \cup {"append"} => ups = 1 /\ downs = 0 /\ index_ = "kAdded"
    /\ todo[i] \in Reading =>
         /\ \A j \in 1 .. i - 1 : todo[j] \in {"append", "handleError"}
         /\ \A j \in DOMAIN todo : todo[j] \in Reading => j = i
LifePending == \A i \in DOMAIN pendingFunctors_ : pendingFunctors_[i] \notin Reading \cup {"remove"}
LifeParts == LifeCount /\ LifeFirst /\ LifeOnce /\ LifeUp /\ LifeDown /\ LifeReading /\ LifePending

\* The parts are UpThenDown, before a step and after it.
LEMMA LifeSplit == (UpThenDown <=> LifeParts) /\ (UpThenDown' <=> LifeParts')
<1>1. UpThenDown <=> LifeParts
  BY Zenon DEF UpThenDown, LifeParts, LifeCount, LifeFirst, LifeOnce, LifeUp, LifeDown, LifeReading, LifePending
<1>2. UpThenDown' <=> LifeParts'
  BY Zenon DEF UpThenDown, LifeParts, LifeCount, LifeFirst, LifeOnce, LifeUp, LifeDown, LifeReading, LifePending
<1> QED
  BY <1>1, <1>2

\* What the counts and the state say of each other.
LEMMA LifeCounts ==
  ASSUME TypeOK, UpThenDown
  PROVE  /\ ups \in Nat /\ downs \in Nat /\ downs <= ups /\ ups <= 1 /\ downs <= 1
         /\ state_ = "kConnecting" <=> ups = 0
         /\ downs > 0 => index_ # "kAdded" /\ events_ = {}
         /\ index_ = "kAdded" => downs = 0
         /\ state_ = "kConnected" =>
              ups = 1 /\ downs = 0 /\ index_ = "kAdded" /\ \A i \in DOMAIN todo : todo[i] # "remove"
         /\ \A i \in DOMAIN todo : todo[i] = "remove" => state_ # "kConnected"
<1>1. ups \in Nat /\ downs \in Nat
  BY Zenon DEF TypeOK
<1>2. LifeCount /\ LifeUp /\ LifeDown
  BY LifeSplit, Zenon DEF LifeParts
<1> QED
  BY <1>1, <1>2 DEF LifeCount, LifeUp, LifeDown

\* With anything but connectEstablished in hand the connection has been up, and only
\* behind an append or an error is there still something to read.
LEMMA HasBeenUp ==
  ASSUME TypeOK, UpThenDown, NEW op, At(op), op # "connectEstablished"
  PROVE  /\ ups = 1 /\ state_ # "kConnecting"
         /\ \A i \in DOMAIN todo : todo[i] # "connectEstablished"
         /\ \A i \in DOMAIN pendingFunctors_ : pendingFunctors_[i] # "connectEstablished"
         /\ op \notin {"append", "handleError"} =>
              \A i \in DOMAIN todo : todo[i] \in Reading => i = 1
<1>1. todo # <<>> /\ 1 \in DOMAIN todo /\ todo[1] = op /\ ups \in Nat /\ todo \in Seq(Ops)
  BY InHand, Lists, LifeCounts, Zenon
<1>2. ups = 1 /\ state_ # "kConnecting"
  <2>1. LifeFirst
    BY LifeSplit, Zenon DEF LifeParts
  <2>2. ups # 0
    BY <1>1, <2>1, Zenon DEF LifeFirst
  <2> QED
    BY <1>1, <2>2, LifeCounts
<1>3. /\ \A i \in DOMAIN todo : todo[i] # "connectEstablished"
      /\ \A i \in DOMAIN pendingFunctors_ : pendingFunctors_[i] # "connectEstablished"
  <2>1. LifeOnce
    BY LifeSplit, Zenon DEF LifeParts
  <2> QED
    BY <1>2, <2>1 DEF LifeOnce
<1>4. ASSUME op \notin {"append", "handleError"}, NEW i \in DOMAIN todo, todo[i] \in Reading
      PROVE  i = 1
  <2>1. i \in Nat \ {0}
    BY <1>1, LenProperties
  <2>2. i # 1 => 1 \in 1 .. i - 1
    BY <2>1, SMTT(40)
  <2>3. \A j \in 1 .. i - 1 : todo[j] \in {"append", "handleError"}
    BY <1>4, LifeSplit, Zenon DEF LifeParts, LifeReading
  <2> QED
    BY <1>1, <1>4, <2>2, <2>3
<1> QED
  BY <1>2, <1>3, <1>4, Zenon

\* What a handler may put in hand or in the queue without a care.
Harmless == Ops \ (Reading \cup {"append", "connectEstablished"})

\* A handler that leaves nothing to read in hand keeps UpThenDown when the fields of
\* the connection fit together after it.
LEMMA QuietHandler ==
  ASSUME TypeOK, StreamInv, UpThenDown,
         NEW op, At(op), op \notin {"append", "handleError", "connectEstablished"},
         \/ Then(<<>>)
         \/ \E a \in Harmless : Then(<<a>>) /\ (a = "remove" => state_' # "kConnected")
         \/ \E a, b \in Harmless : Then(<<a, b>>) /\ ("remove" \in {a, b} => state_' # "kConnected"),
         \/ UNCHANGED pendingFunctors_
         \/ \E a \in Harmless \ {"remove"} : pendingFunctors_' = pendingFunctors_ \o <<a>>,
         ups' = ups, state_' # "kConnecting", downs' <= 1,
         downs' > 0 => index_' # "kAdded" /\ events_' = {},
         state_' = "kConnected" => state_ = "kConnected" /\ downs' = 0 /\ index_' = "kAdded"
  PROVE  UpThenDown'
<1>1. /\ ups = 1 /\ todo # <<>> /\ todo \in Seq(Ops)
      /\ \A i \in DOMAIN todo : todo[i] # "connectEstablished" /\ (todo[i] \in Reading => i = 1)
      /\ \A i \in DOMAIN pendingFunctors_ : pendingFunctors_[i] # "connectEstablished"
      /\ \A i \in DOMAIN todo : todo[i] # "append"
  BY HasBeenUp, InHand, Lists, NotAppending, Zenon
<1> DEFINE Fine == \A i \in DOMAIN todo' :
                     /\ todo'[i] \notin Reading \cup {"append", "connectEstablished"}
                     /\ state_' = "kConnected" => todo'[i] # "remove"
<1>2. Fine
  <2>0. state_' = "kConnected" => \A i \in DOMAIN todo : todo[i] # "remove"
    BY LifeCounts, Zenon
  <2>1. CASE Then(<<>>)
    <3>1. \A i \in DOMAIN todo' : i \in Nat \ {0} /\ i + 1 \in DOMAIN todo /\ todo'[i] = todo[i + 1]
      BY <1>1, <2>1, Drop, SMTT(40) DEF Then
    <3> QED
      BY <1>1, <2>0, <3>1, SMTT(40)
  <2>2. ASSUME NEW a \in Harmless, Then(<<a>>), a = "remove" => state_' # "kConnected"
        PROVE  Fine
    <3>1. todo'[1] = a /\ \A i \in DOMAIN todo' : i \in DOMAIN todo /\ (i # 1 => todo'[i] = todo[i])
      BY <1>1, <2>2, Replace, SMTT(40) DEF Then, Harmless
    <3> QED
      BY <1>1, <2>0, <2>2, <3>1, Zenon DEF Harmless
  <2>3. ASSUME NEW a \in Harmless, NEW b \in Harmless, Then(<<a, b>>),
               "remove" \in {a, b} => state_' # "kConnected"
        PROVE  Fine
    <3>0. a \in Ops /\ b \in Ops
      BY <1>1, <2>3, Zenon DEF Harmless
    <3>1. /\ todo'[1] = a /\ todo'[2] = b
          /\ \A i \in DOMAIN todo' :
               i \notin {1, 2} => i - 1 \in DOMAIN todo /\ i - 1 # 1 /\ todo'[i] = todo[i - 1]
      BY <1>1, <2>3, <3>0, Replace2 DEF Then
    <3> QED
      BY <1>1, <2>0, <2>3, <3>1, Zenon DEF Harmless
  <2> QED
    BY <2>1, <2>2, <2>3, Zenon
<1>3. \A i \in DOMAIN pendingFunctors_' :
        pendingFunctors_'[i] \notin Reading \cup {"remove", "connectEstablished"}
  <2>1. \A i \in DOMAIN pendingFunctors_ :
          pendingFunctors_[i] \notin Reading \cup {"remove", "connectEstablished"}
    BY <1>1, LifeSplit, Zenon DEF LifeParts, LifePending
  <2> QED
    BY <2>1, PendingKeeps, Zenon DEF Harmless
<1>4. downs' <= ups' /\ ups' <= 1 /\ (state_' = "kConnecting" <=> ups' = 0) /\ ups' # 0
  BY <1>1, SMTT(40)
<1> QED
  <2>1. LifeCount' /\ LifeFirst' /\ LifeUp' /\ LifeDown'
    BY <1>2, <1>4, Zenon DEF LifeCount, LifeFirst, LifeUp, LifeDown
  <2>2. LifeOnce' /\ LifeReading' /\ LifePending'
    BY <1>2, <1>3, Zenon DEF LifeOnce, LifeReading, LifePending
  <2> QED
    BY <2>1, <2>2, LifeSplit, Zenon DEF LifeParts

\* A step aside of the loop's list: it may queue a functor, or set the state to
\* kDisconnecting once the connection has been up.
LEMMA LifeAside ==
  ASSUME TypeOK, UpThenDown, UNCHANGED <<todo, ups, downs, events_, index_>>,
         \/ UNCHANGED pendingFunctors_
         \/ \E a \in Harmless \ {"remove"} : pendingFunctors_' = pendingFunctors_ \o <<a>>,
         state_' = state_ \/ (state_' = "kDisconnecting" /\ ups > 0)
  PROVE  UpThenDown'
<1> DEFINE Kept ==
      /\ pendingFunctors_ # <<>> => pendingFunctors_' # <<>> /\ pendingFunctors_'[1] = pendingFunctors_[1]
      /\ \A i \in DOMAIN pendingFunctors_' :
           \/ i \in DOMAIN pendingFunctors_ /\ pendingFunctors_'[i] = pendingFunctors_[i]
           \/ pendingFunctors_'[i] \notin Reading \cup {"remove", "connectEstablished"}
<1>1. Kept
  <2>1. CASE UNCHANGED pendingFunctors_
    BY <2>1, SMTT(40)
  <2>2. ASSUME NEW a \in Harmless \ {"remove"}, pendingFunctors_' = pendingFunctors_ \o <<a>>
        PROVE  Kept
    <3>1. pendingFunctors_ \in Seq(Ops) /\ a \in Ops /\ a \notin Reading \cup {"remove", "connectEstablished"}
      BY Lists, SMTT(40) DEF Harmless
    <3>2. /\ pendingFunctors_' \in Seq(Ops) /\ Len(pendingFunctors_') = Len(pendingFunctors_) + 1
          /\ \A i \in DOMAIN pendingFunctors_' :
               IF i \in DOMAIN pendingFunctors_ THEN pendingFunctors_'[i] = pendingFunctors_[i]
                                                ELSE pendingFunctors_'[i] = a
      BY <2>2, <3>1, Queue, SMTT(40)
    <3>3. /\ Len(pendingFunctors_) \in Nat /\ DOMAIN pendingFunctors_ = 1 .. Len(pendingFunctors_)
          /\ DOMAIN pendingFunctors_' = 1 .. Len(pendingFunctors_')
      BY <3>1, <3>2, LenProperties
    <3>4. pendingFunctors_ # <<>> => Len(pendingFunctors_) # 0
      BY <3>1, EmptySeq
    <3>5. pendingFunctors_' # <<>>
      BY <3>2, <3>3, EmptySeq, SMTT(40)
    <3> QED
      BY <3>1, <3>2, <3>3, <3>4, <3>5, SMTT(40)
  <2> QED
    BY <2>1, <2>2, Zenon
<1>2. LifeParts
  BY LifeSplit, Zenon
<1>3. LifeCount' /\ LifeDown'
  BY <1>2, LifeCounts DEF LifeParts, LifeCount, LifeDown
<1>4. LifeFirst' /\ LifeUp'
  BY <1>1, <1>2, Zenon DEF LifeParts, LifeFirst, LifeUp
<1>5. LifeReading'
  BY <1>2, Zenon DEF LifeParts, LifeReading
<1>6. LifeOnce' /\ LifePending'
  BY <1>1, <1>2, Zenon DEF LifeParts, LifeOnce, LifePending
<1> QED
  BY <1>3, <1>4, <1>5, <1>6, LifeSplit, Zenon DEF LifeParts

\* A read that is not the end of the stream gives way to messageCallback_.
LEMMA ReadLife ==
  ASSUME TypeOK, StreamInv, UpThenDown, handleRead, readFd # "eof"
  PROVE  UpThenDown'
<1>1. /\ todo # <<>> /\ todo \in Seq(Ops) /\ 1 \in DOMAIN todo /\ todo[1] = "handleRead"
      /\ ups = 1 /\ \A i \in DOMAIN todo : todo[i] \in Reading => i = 1
  BY InHand, Lists, HasBeenUp, SMTT(40) DEF handleRead
<1>2. UNCHANGED <<state_, events_, index_, ups, downs, pendingFunctors_>>
      /\ todo' = <<"messageCallback_">> \o Tail(todo)
  BY Zenon DEF handleRead, Then, connVars
<1>3. /\ todo' \in Seq(Ops) /\ todo'[1] = "messageCallback_"
      /\ \A i \in DOMAIN todo' : i \in Nat \ {0} /\ i \in DOMAIN todo /\ (i # 1 => todo'[i] = todo[i])
  BY <1>1, <1>2, Replace, Named, SMTT(40)
<1>4. downs = 0 /\ index_ = "kAdded"
  <2>1. LifeReading /\ "handleRead" \in Reading \cup {"append"}
    BY LifeSplit, Zenon DEF LifeParts, Reading
  <2> QED
    BY <1>1, <2>1, Zenon DEF LifeReading
<1>5. \A i \in DOMAIN todo' : todo'[i] \in Reading => i = 1
  BY <1>1, <1>3, SMTT(40)
<1>6. \A i \in DOMAIN todo' : i # 1 => todo'[i] # "connectEstablished"
  <2>1. LifeOnce
    BY LifeSplit, Zenon DEF LifeParts
  <2> QED
    BY <1>3, <2>1, Zenon DEF LifeOnce
<1>7. state_ = "kConnected" => \A i \in DOMAIN todo' : todo'[i] # "remove"
  <2>1. state_ = "kConnected" => \A i \in DOMAIN todo : todo[i] # "remove"
    BY LifeCounts, Zenon
  <2> QED
    BY <1>3, <2>1
<1>8. \A i \in DOMAIN pendingFunctors_ :
        pendingFunctors_[i] \notin Reading \cup {"remove", "connectEstablished"}
  <2>1. LifeOnce /\ LifePending
    BY LifeSplit, Zenon DEF LifeParts
  <2> QED
    BY <1>1, <2>1, Zenon DEF LifeOnce, LifePending
<1>9. state_ # "kConnecting"
  BY <1>1, LifeCounts
<1> QED
  <2>1. LifeCount' /\ LifeFirst' /\ LifeUp' /\ LifeDown'
    BY <1>1, <1>2, <1>4, <1>7, <1>9 DEF LifeCount, LifeFirst, LifeUp, LifeDown
  <2>2. LifeOnce' /\ LifePending'
    BY <1>2, <1>3, <1>6, <1>8, Zenon DEF LifeOnce, LifePending
  <2>3. LifeReading'
    BY <1>1, <1>2, <1>3, <1>4, <1>5 DEF LifeReading
  <2> QED
    BY <2>1, <2>2, <2>3, LifeSplit, Zenon DEF LifeParts

\* connectEstablished brings the connection up, with nothing to read in hand.
LEMMA EstablishLife ==
  ASSUME TypeOK, StreamInv, UpThenDown, connectEstablished
  PROVE  UpThenDown'
<1>1. /\ todo # <<>> /\ todo \in Seq(Ops) /\ 1 \in DOMAIN todo /\ todo[1] = "connectEstablished"
      /\ downs \in Nat
  BY InHand, Lists, LifeCounts, Zenon DEF connectEstablished
<1>2. ups = 0 /\ downs = 0 /\ index_ = "kNew" /\ \A i \in DOMAIN todo : todo[i] # "remove"
  <2>1. LifeOnce /\ LifeFirst
    BY LifeSplit, Zenon DEF LifeParts
  <2>2. ups = 0
    BY <1>1, <2>1, Zenon DEF LifeOnce
  <2>3. downs = 0
    BY <2>2, LifeCounts
  <2> QED
    BY <1>1, <2>1, <2>2, <2>3, Zenon DEF LifeFirst
<1>3. /\ state_' = "kConnected" /\ index_' = "kAdded" /\ ups' = 1 /\ downs' = 0
      /\ pendingFunctors_' = pendingFunctors_ /\ todo' = <<"app">> \o Tail(todo)
  BY <1>2, SMTT(40) DEF connectEstablished, enableReading, update, Then
<1>4. /\ todo'[1] = "app"
      /\ \A i \in DOMAIN todo' : i \in Nat \ {0} /\ i \in DOMAIN todo /\ (i # 1 => todo'[i] = todo[i])
  BY <1>1, <1>3, Replace, Named
<1>5. \A i \in DOMAIN todo : i \in Nat \ {0} /\ todo[i] \notin Reading
  <2> SUFFICES ASSUME NEW i \in DOMAIN todo PROVE i \in Nat \ {0} /\ todo[i] \notin Reading
    OBVIOUS
  <2>1. i \in Nat \ {0}
    BY <1>1, LenProperties
  <2>2. i # 1 => 1 \in 1 .. i - 1
    BY <2>1, SMTT(40)
  <2>3. todo[i] \in Reading => \A j \in 1 .. i - 1 : todo[j] \in {"append", "handleError"}
    BY LifeSplit, Zenon DEF LifeParts, LifeReading
  <2>4. todo[1] \notin Reading
    BY <1>1, SMTT(40) DEF Reading
  <2> QED
    BY <1>1, <2>1, <2>2, <2>3, <2>4
<1>6. \A i \in DOMAIN todo' : todo'[i] \notin Reading \cup {"remove", "connectEstablished"}
  <2>1. LifeOnce
    BY LifeSplit, Zenon DEF LifeParts
  <2>2. \A i \in DOMAIN todo : todo[i] = "connectEstablished" => i = 1
    BY <2>1, Zenon DEF LifeOnce
  <2> QED
    BY <1>2, <1>4, <1>5, <2>2 DEF Reading
<1>7. \A i \in DOMAIN pendingFunctors_ :
        pendingFunctors_[i] \notin Reading \cup {"remove", "connectEstablished"}
  <2>1. LifeOnce /\ LifePending
    BY LifeSplit, Zenon DEF LifeParts
  <2> QED
    BY <1>1, <2>1, Zenon DEF LifeOnce, LifePending
<1>8. LifeCount' /\ LifeFirst' /\ LifeUp' /\ LifeDown' /\ LifeOnce' /\ LifePending'
  BY <1>3, <1>6, <1>7 DEF LifeCount, LifeFirst, LifeUp, LifeDown, LifeOnce, LifePending
<1>9. LifeReading'
  BY <1>3, <1>6, Zenon DEF LifeReading
<1> QED
  BY <1>8, <1>9, LifeSplit, Zenon DEF LifeParts

\* The append of a connection that is up.
LEMMA AppendLife ==
  ASSUME TypeOK, StreamInv, UpThenDown, append
  PROVE  UpThenDown'
<1>1. /\ todo # <<>> /\ todo \in Seq(Ops) /\ 1 \in DOMAIN todo /\ todo[1] = "append"
      /\ At("append")
  BY InHand, Lists, SMTT(40) DEF append
<1>2. ups = 1 /\ downs = 0 /\ index_ = "kAdded" /\ state_ # "kConnecting"
  <2>1. LifeReading /\ "append" \in Reading \cup {"append"}
    BY LifeSplit, Zenon DEF LifeParts
  <2>2. ups = 1 /\ downs = 0 /\ index_ = "kAdded"
    BY <1>1, <2>1, Zenon DEF LifeReading
  <2> QED
    BY <2>2, LifeCounts
<1>3. UNCHANGED <<state_, ups, downs>> /\ index_' = "kAdded" /\ todo' = <<>> \o Tail(todo)
  BY <1>2, Zenon DEF append, sendInLoopAppend, enableWriting, update, Then, seenVars
<1>4. \A i \in DOMAIN todo' : i \in Nat \ {0} /\ i + 1 \in DOMAIN todo /\ todo'[i] = todo[i + 1]
  BY <1>1, <1>3, Drop
<1>5. \/ pendingFunctors_' = pendingFunctors_ \o <<"highWaterMarkCallback_">>
      \/ UNCHANGED pendingFunctors_
  <2>1. \/ pendingFunctors_' = pendingFunctors_ \o <<"highWaterMarkCallback_">>
        \/ pendingFunctors_' = pendingFunctors_ \o <<>>
    BY Zenon DEF append, sendInLoopAppend, queueInLoop
  <2> QED
    BY <2>1, Lists, ConcatEmptySeq
<1>6. \A i \in DOMAIN pendingFunctors_' :
        pendingFunctors_'[i] \notin Reading \cup {"remove", "connectEstablished"}
  <2>1. \A i \in DOMAIN pendingFunctors_ :
          pendingFunctors_[i] \notin Reading \cup {"remove", "connectEstablished"}
    <3>1. LifeOnce /\ LifePending
      BY LifeSplit, Zenon DEF LifeParts
    <3> QED
      BY <1>2, <3>1 DEF LifeOnce, LifePending
  <2>2. "highWaterMarkCallback_" \in Ops \ (Reading \cup {"remove", "connectEstablished"})
    BY Named, SMTT(40) DEF Reading
  <2> QED
    BY <1>5, <2>1, <2>2, PendingKeeps, SMTT(40)
<1>7. \A i \in DOMAIN todo' :
        /\ todo'[i] # "connectEstablished"
        /\ state_ = "kConnected" => todo'[i] # "remove"
  <2>1. LifeOnce /\ LifeUp
    BY LifeSplit, Zenon DEF LifeParts
  <2> QED
    BY <1>2, <1>4, <2>1 DEF LifeOnce, LifeUp
<1>8. ASSUME NEW i \in DOMAIN todo', todo'[i] \in Reading
      PROVE  /\ \A j \in 1 .. i - 1 : todo'[j] \in {"append", "handleError"}
             /\ \A j \in DOMAIN todo' : todo'[j] \in Reading => j = i
  <2>1. /\ \A j \in 1 .. (i + 1) - 1 : todo[j] \in {"append", "handleError"}
        /\ \A j \in DOMAIN todo : todo[j] \in Reading => j = i + 1
    <3>1. LifeReading
      BY LifeSplit, Zenon DEF LifeParts
    <3> QED
      BY <1>4, <1>8, <3>1, Zenon DEF LifeReading
  <2>2. \A j \in 1 .. i - 1 : j \in DOMAIN todo' /\ j + 1 \in 1 .. (i + 1) - 1
    <3>1. todo' \in Seq(Ops) /\ i \in Nat
      BY <1>1, <1>3, <1>4, <1>8, Drop, Zenon
    <3> QED
      BY <1>8, <3>1, LenProperties, SMTT(40)
  <2>3. \A j \in 1 .. i - 1 : todo'[j] \in {"append", "handleError"}
    BY <1>4, <2>1, <2>2
  <2>4. \A j \in DOMAIN todo' : todo'[j] \in Reading => j = i
    <3> SUFFICES ASSUME NEW j \in DOMAIN todo', todo'[j] \in Reading PROVE j = i
      OBVIOUS
    <3>1. j + 1 = i + 1 /\ j \in Nat /\ i \in Nat
      BY <1>4, <1>8, <2>1
    <3> QED
      BY <3>1
  <2> QED
    BY <2>3, <2>4, SMTT(40)
<1> QED
  <2>1. LifeCount' /\ LifeFirst' /\ LifeUp' /\ LifeDown' /\ LifeOnce' /\ LifePending'
    BY <1>2, <1>3, <1>6, <1>7 DEF LifeCount, LifeFirst, LifeUp, LifeDown, LifeOnce, LifePending
  <2>2. LifeReading'
    BY <1>2, <1>3, <1>8, Zenon DEF LifeReading
  <2> QED
    BY <2>1, <2>2, LifeSplit, Zenon DEF LifeParts

\* A send while the connection is up puts the append in hand, before what is to be read.
LEMMA SendLife ==
  ASSUME TypeOK, TypeOK', StreamInv, UpThenDown, NEW len \in Sizes, send(len), ~rude'
  PROVE  UpThenDown'
<1>1. state_ = "kConnected" /\ UNCHANGED <<state_, index_, events_, ups, downs>>
  BY ZenonT(40) DEF send, connVars, seenVars, TypeOK
<1>2. ups = 1 /\ downs = 0 /\ index_ = "kAdded" /\ \A i \in DOMAIN todo : todo[i] # "remove"
  BY <1>1, LifeCounts, Zenon
<1>3. PICK op \in {"app", "messageCallback_"} : At(op)
  BY Zenon DEF send, InCallback
<1>4. /\ \A i \in DOMAIN todo : todo[i] # "connectEstablished"
      /\ \A i \in DOMAIN pendingFunctors_ : pendingFunctors_[i] # "connectEstablished"
  BY <1>3, HasBeenUp, SMTT(40)
<1>5. \A i \in DOMAIN pendingFunctors_' :
        pendingFunctors_'[i] \notin Reading \cup {"remove", "connectEstablished"}
  <2>1. \A i \in DOMAIN pendingFunctors_ :
          pendingFunctors_[i] \notin Reading \cup {"remove", "connectEstablished"}
    BY <1>4, LifeSplit, Zenon DEF LifeParts, LifePending
  <2>2. "writeCompleteCallback_" \in Ops \ (Reading \cup {"remove", "connectEstablished"})
    BY Named, SMTT(40) DEF Reading
  <2>3. \/ pendingFunctors_' = pendingFunctors_
        \/ pendingFunctors_' = pendingFunctors_ \o <<"writeCompleteCallback_">>
    BY SendEffect, Zenon
  <2> QED
    BY <2>1, <2>2, <2>3, PendingKeeps, Zenon
<1>6. CASE todo' = todo
  <2>1. LifeCount' /\ LifeFirst' /\ LifeUp' /\ LifeDown' /\ LifeOnce' /\ LifePending'
    BY <1>1, <1>2, <1>4, <1>5, <1>6 DEF LifeCount, LifeFirst, LifeUp, LifeDown, LifeOnce, LifePending
  <2>2. LifeReading
    BY LifeSplit, Zenon DEF LifeParts
  <2>3. LifeReading'
    BY <1>1, <1>2, <1>6, <2>2, Zenon DEF LifeReading
  <2> QED
    BY <2>1, <2>3, LifeSplit, Zenon DEF LifeParts
<1>7. CASE todo' # todo
  <2>1. todo' = <<"append">> \o todo /\ todo \in Seq(Ops) /\ todo' \in Seq(Ops) /\ "append" \in Ops
    BY <1>7, SendEffect, Lists, Named, ZenonT(40) DEF TypeOK
  <2>2. todo'[1] = "append"
        /\ \A i \in DOMAIN todo' : i \in Nat \ {0} /\ (i # 1 => i - 1 \in DOMAIN todo /\ todo'[i] = todo[i - 1])
    BY <2>1, Push, SMTT(40)
  <2>3. \A i \in DOMAIN todo' : todo'[i] # "connectEstablished" /\ todo'[i] # "remove"
    BY <1>2, <1>4, <2>2, Zenon
  <2>4. ASSUME NEW i \in DOMAIN todo', todo'[i] \in Reading
        PROVE  /\ \A j \in 1 .. i - 1 : todo'[j] \in {"append", "handleError"}
               /\ \A j \in DOMAIN todo' : todo'[j] \in Reading => j = i
    <3>1. i \in Nat /\ i # 1 /\ i - 1 \in DOMAIN todo /\ todo[i - 1] \in Reading
      BY <2>2, <2>4, SMTT(40) DEF Reading
    <3>2. /\ \A j \in 1 .. (i - 1) - 1 : todo[j] \in {"append", "handleError"}
          /\ \A j \in DOMAIN todo : todo[j] \in Reading => j = i - 1
      BY <3>1, LifeSplit, Zenon DEF LifeParts, LifeReading
    <3>3. \A j \in 1 .. i - 1 : j \in DOMAIN todo' /\ (j # 1 => j - 1 \in 1 .. (i - 1) - 1)
      BY <2>1, <2>4, <3>1, LenProperties, SMTT(40)
    <3>4. \A j \in 1 .. i - 1 : todo'[j] \in {"append", "handleError"}
      BY <2>2, <3>2, <3>3, Zenon
    <3>5. \A j \in DOMAIN todo' : todo'[j] \in Reading => j = i
      <4> SUFFICES ASSUME NEW j \in DOMAIN todo', todo'[j] \in Reading PROVE j = i
        OBVIOUS
      <4>1. j \in Nat /\ j # 1 /\ j - 1 \in DOMAIN todo /\ todo[j - 1] \in Reading
        BY <2>2 DEF Reading
      <4>2. j - 1 = i - 1
        BY <3>2, <4>1, SMTT(40)
      <4> QED
        BY <3>1, <4>1, <4>2
    <3> QED
      BY <3>4, <3>5, SMTT(40)
  <2> QED
    <3>1. LifeCount' /\ LifeFirst' /\ LifeUp' /\ LifeDown' /\ LifeOnce' /\ LifePending'
      BY <1>1, <1>2, <1>5, <2>3 DEF LifeCount, LifeFirst, LifeUp, LifeDown, LifeOnce, LifePending
    <3>2. LifeReading'
      BY <1>1, <1>2, <2>4, Zenon DEF LifeReading
    <3> QED
      BY <3>1, <3>2, LifeSplit, Zenon DEF LifeParts
<1> QED
  BY <1>6, <1>7, SMTT(40)

\* What the kernel reports is for a connection that is up, and a hang-up is reported
\* without input only when reading is not watched.
LEMMA PollLife ==
  ASSUME TypeOK, StreamInv, UpThenDown, poll
  PROVE  UpThenDown'
<1>1. /\ todo = <<>> /\ UNCHANGED <<state_, index_, events_, ups, downs, pendingFunctors_>>
      /\ todo' = handleEventWithGuard(revents_)
  BY Zenon DEF poll, StreamInv, connVars, seenVars
<1>2. /\ todo' \in Seq(Ops)
      /\ \A i \in DOMAIN todo' :
           /\ i \in Nat \ {0} /\ revents_ # {}
           /\ todo'[i] \in {"handleClose", "handleError", "handleRead", "handleWrite"}
           /\ todo'[i] = "handleClose" => i = 1 /\ "HUP" \in revents_ /\ "IN" \notin revents_
           /\ todo'[i] = "handleRead" =>
                /\ revents_ \cap {"IN", "PRI"} # {}
                /\ \A j \in 1 .. i - 1 : todo'[j] \in {"handleClose", "handleError"}
                /\ \A j \in DOMAIN todo' : todo'[j] = "handleRead" => j = i
  BY <1>1, EventList, SMTT(40)
<1>3. ASSUME NEW i \in DOMAIN todo' PROVE ups = 1 /\ downs = 0 /\ index_ = "kAdded"
  <2>1. index_ = "kAdded"
    BY <1>2, <1>3, Zenon DEF revents_
  <2> QED
    <3>1. LifeFirst
      BY LifeSplit, Zenon DEF LifeParts
    <3>2. ups # 0
      BY <2>1, <3>1 DEF LifeFirst
    <3> QED
      BY <2>1, <3>2, LifeCounts
<1>4. "HUP" \in revents_ /\ "IN" \notin revents_ => revents_ \cap {"IN", "PRI"} = {}
  <2>1. "HUP" \in revents_ => "IN" \in Ready
    BY Zenon DEF revents_, Ready
  <2>2. "HUP" \in revents_ /\ "IN" \notin revents_ => kRead \notin events_
    BY <2>1, Zenon DEF revents_
  <2>3. kRead \notin events_ => revents_ \cap {"IN", "PRI"} = {}
    BY DEF revents_
  <2> QED
    BY <2>2, <2>3, SMTT(40)
<1>5. todo' # <<>> => 1 \in DOMAIN todo'
  BY <1>2, EmptySeq, LenProperties, SMTT(40)
<1>6. ASSUME NEW i \in DOMAIN todo', todo'[i] \in Reading
      PROVE  /\ \A j \in 1 .. i - 1 : todo'[j] \in {"append", "handleError"}
             /\ \A j \in DOMAIN todo' : todo'[j] \in Reading => j = i
  <2>0. \A j \in 1 .. i - 1 : j \in DOMAIN todo'
    BY <1>2, <1>6, LenProperties, SMTT(40)
  <2>1. \A j \in DOMAIN todo' : todo'[j] \in Reading => todo'[j] \in {"handleRead", "handleClose"}
    BY <1>2, Zenon DEF Reading
  <2>2. CASE todo'[i] = "handleClose"
    BY <1>2, <1>4, <1>6, <2>1, <2>2, SMTT(40)
  <2>3. CASE todo'[i] = "handleRead"
    BY <1>2, <1>4, <1>6, <2>0, <2>1, <2>3, Zenon
  <2> QED
    BY <1>6, <2>1, <2>2, <2>3, Zenon
<1>7. \A i \in DOMAIN todo' : todo'[i] \notin {"connectEstablished", "remove"}
  BY <1>2
<1>8. ups = 0 => todo' = <<>>
  BY <1>3, <1>5, SMTT(40)
<1> QED
  <2>1. LifeParts
    BY LifeSplit, Zenon
  <2>2. LifeCount' /\ LifeDown' /\ LifePending'
    BY <1>1, <2>1, Zenon DEF LifeParts, LifeCount, LifeDown, LifePending
  <2>3. LifeFirst' /\ LifeUp'
    BY <1>1, <1>7, <1>8, <2>1, Zenon DEF LifeParts, LifeFirst, LifeUp
  <2>4. LifeOnce'
    BY <1>1, <1>3, <1>7, <1>8, <2>1, Zenon DEF LifeParts, LifeOnce
  <2>5. LifeReading'
    BY <1>1, <1>3, <1>6, Zenon DEF LifeReading
  <2> QED
    BY <2>2, <2>3, <2>4, <2>5, LifeSplit, Zenon DEF LifeParts

\* Every step keeps the life of a connection in order.
LEMMA NextUpThenDown ==
  ASSUME TypeOK, TypeOK', StreamInv, UpThenDown, [Next]_vars, ~rude',
         \A w \in Workers : wpc[w] # "idle" => ups > 0
  PROVE  UpThenDown'
<1>0. /\ "app" \in Harmless \ {"remove"} /\ "closeCallback_" \in Harmless \ {"remove"}
      /\ "remove" \in Harmless /\ "writeCompleteCallback_" \in Harmless \ {"remove"}
      /\ "connectDestroyed" \in Harmless \ {"remove"} /\ "shutdownInLoop" \in Harmless \ {"remove"}
  BY Zenon DEF Harmless, Ops, Reading
<1>1. CASE handleRead /\ readFd # "eof"
  BY <1>1, ReadLife, Zenon
<1>2. CASE goDown /\ (At("handleRead") \/ At("handleClose"))
  <2>1. PICK op \in {"handleRead", "handleClose"} : At(op)
    BY <1>2
  <2>2. /\ todo # <<>> /\ 1 \in DOMAIN todo /\ todo[1] = op
    BY <2>1, InHand
  <2>3. downs = 0 /\ index_ = "kAdded"
    <3>1. LifeReading /\ op \in Reading \cup {"append"}
      BY LifeSplit, Zenon DEF LifeParts, Reading
    <3> QED
      BY <2>2, <3>1, Zenon DEF LifeReading
  <2>4. /\ state_' = "kDisconnected" /\ index_' = "kDeleted" /\ events_' = {} /\ downs' = 1
        /\ Then(<<"app", "closeCallback_">>) /\ UNCHANGED <<pendingFunctors_, ups>>
    BY <1>2, <2>3, SMTT(40) DEF goDown, disableAll, update
  <2> QED
    <3>1. /\ downs' <= 1 /\ state_' # "kConnecting" /\ state_' # "kConnected" /\ index_' # "kAdded"
          /\ op \notin {"append", "handleError", "connectEstablished"}
      BY <2>4
    <3>2. \E a, b \in Harmless : Then(<<a, b>>) /\ ("remove" \in {a, b} => state_' # "kConnected")
      BY <1>0, <2>4, <3>1, Zenon
    <3> QED
      BY <2>1, <2>4, <3>1, <3>2, QuietHandler, Zenon
<1>3. CASE handleWriteFlush
  <2>1. /\ At("handleWrite") /\ UNCHANGED <<state_, ups, downs>> /\ Then(<<>>)
        /\ pendingFunctors_' = pendingFunctors_ \o <<"writeCompleteCallback_">>
        /\ "write" \in events_ /\ index_' = "kAdded"
    BY <1>3, Zenon
    DEF handleWriteFlush, isWriting, kWrite, disableWriting, update, queueInLoop, seenVars
  <2>2. ups = 1 /\ state_ # "kConnecting"
    BY <2>1, HasBeenUp, Zenon
  <2>3. downs = 0
    <3>1. events_ # {}
      BY <2>1
    <3> QED
      BY <3>1, LifeCounts
  <2>4. state_ = "kConnected" => index_ = "kAdded"
    BY LifeCounts, Zenon
  <2>5. downs' <= 1 /\ ~(downs' > 0)
    BY <2>1, <2>3
  <2> QED
    BY <1>0, <2>1, <2>2, <2>3, <2>4, <2>5, QuietHandler, Zenon
<1>4. CASE handleWriteNothing \/ closeCallback_ \/ shutdownFunctor
  <2>1. PICK op \in {"handleWrite", "closeCallback_", "shutdownInLoop"} : At(op)
    BY <1>4, Zenon DEF handleWriteNothing, closeCallback_, shutdownFunctor
  <2>2. UNCHANGED <<state_, events_, index_, ups, downs, pendingFunctors_>> /\ Then(<<>>)
    BY <1>4, Zenon DEF handleWriteNothing, closeCallback_, shutdownFunctor, connVars, seenVars
  <2>3. state_ # "kConnecting"
    BY <2>1, HasBeenUp, Zenon
  <2>4. /\ downs <= 1 /\ (downs > 0 => index_ # "kAdded" /\ events_ = {})
        /\ state_ = "kConnected" => downs = 0 /\ index_ = "kAdded"
    BY LifeCounts, Zenon
  <2> QED
    BY <2>1, <2>2, <2>3, <2>4, QuietHandler, Zenon
<1>5. CASE handleWriteExits \/ handleError \/ closeCallbackDangles \/ sendExits
  <2>1. UNCHANGED <<state_, events_, index_, todo, pendingFunctors_, ups, downs>>
    BY <1>5, Zenon
    DEF handleWriteExits, handleError, closeCallbackDangles, sendExits, sendInLoopExits, exit,
        connVars, loopVars, seenVars
  <2> QED
    BY <2>1, LifeAside, SMTT(40)
<1>6. CASE connectEstablished
  BY <1>6, EstablishLife
<1>7. CASE connectDestroyed
  <2>1. At("connectDestroyed") /\ UNCHANGED <<pendingFunctors_, ups>>
    BY <1>7 DEF connectDestroyed
  <2>2. ups = 1 /\ state_ # "kConnecting"
    BY <2>1, HasBeenUp, Zenon
  <2>3. CASE state_ = "kConnected"
    <3>1. /\ state_' = "kDisconnecting" /\ index_' = "kDeleted" /\ events_' = {} /\ downs' = 1
          /\ Then(<<"app", "remove">>)
      <4>1. downs = 0 /\ index_ = "kAdded"
        BY <2>3, LifeCounts, Zenon
      <4> QED
        BY <1>7, <2>3, <4>1 DEF connectDestroyed, disableAll, update
    <3> QED
      <4>1. downs' <= 1 /\ state_' # "kConnecting" /\ state_' # "kConnected" /\ index_' # "kAdded"
        BY <3>1
      <4>2. \E a, b \in Harmless : Then(<<a, b>>) /\ ("remove" \in {a, b} => state_' # "kConnected")
        BY <1>0, <3>1, <4>1, Zenon
      <4> QED
        BY <2>1, <3>1, <4>1, <4>2, QuietHandler, Zenon
  <2>4. CASE state_ # "kConnected"
    <3>1. UNCHANGED <<state_, events_, index_, downs>> /\ Then(<<"remove">>)
      BY <1>7, <2>4, Zenon DEF connectDestroyed
    <3> QED
      <4>1. downs <= 1 /\ (downs > 0 => index_ # "kAdded" /\ events_ = {})
        BY LifeCounts, Zenon
      <4> QED
        BY <1>0, <2>1, <2>2, <2>4, <3>1, <4>1, QuietHandler, Zenon
  <2> QED
    BY <2>3, <2>4, SMTT(40)
<1>8. CASE remove
  <2>1. /\ At("remove") /\ UNCHANGED <<state_, events_, pendingFunctors_, ups, downs>>
        /\ index_' = "kNew" /\ Then(<<>>)
    BY <1>8, Zenon DEF remove, seenVars
  <2>2. ups = 1 /\ state_ # "kConnecting"
    BY <2>1, HasBeenUp, Zenon
  <2>3. state_ # "kConnected"
    BY <2>1, InHand, LifeCounts, Zenon
  <2>4. downs <= 1 /\ (downs > 0 => events_ = {}) /\ "kNew" # "kAdded"
    BY LifeCounts
  <2> QED
    BY <2>1, <2>2, <2>3, <2>4, QuietHandler, Zenon
<1>9. CASE append
  BY <1>9, AppendLife
<1>10. CASE userFunctor \/ callbackReturns
  <2>1. PICK op \in {"writeCompleteCallback_", "highWaterMarkCallback_", "app", "messageCallback_"} :
               At(op)
    BY <1>10 DEF userFunctor, callbackReturns, InCallback
  <2>2. /\ UNCHANGED <<state_, events_, index_, ups, downs, pendingFunctors_>>
        /\ Then(<<"app">>) \/ Then(<<>>)
    BY <1>10, Zenon DEF userFunctor, callbackReturns, connVars, seenVars
  <2>3. state_ # "kConnecting"
    BY <2>1, HasBeenUp, Zenon
  <2>4. /\ downs <= 1 /\ (downs > 0 => index_ # "kAdded" /\ events_ = {})
        /\ state_ = "kConnected" => downs = 0 /\ index_ = "kAdded"
    BY LifeCounts, Zenon
  <2> QED
    <3>1. op \notin {"append", "handleError", "connectEstablished"} /\ "app" # "remove"
      OBVIOUS
    <3>2. \/ Then(<<>>)
          \/ \E a \in Harmless : Then(<<a>>) /\ (a = "remove" => state_' # "kConnected")
      BY <1>0, <2>2, <3>1, Zenon
    <3> QED
      BY <2>1, <2>2, <2>3, <2>4, <3>1, <3>2, QuietHandler, Zenon
<1>11. CASE poll
  BY <1>11, PollLife
<1>12. CASE doPendingFunctors
  <2>1. /\ todo = <<>> /\ todo' = pendingFunctors_ /\ pendingFunctors_' = <<>>
        /\ UNCHANGED <<state_, events_, index_, ups, downs>>
    BY <1>12, Zenon DEF doPendingFunctors, connVars, seenVars
  <2>2. \A i \in DOMAIN todo' : todo'[i] \notin Reading \cup {"append", "remove"}
    BY <2>1, LifeSplit, Zenon DEF LifeParts, LifePending, StreamInv
  <2>3. LifeParts
    BY LifeSplit, Zenon
  <2>4. LifeCount' /\ LifeDown'
    BY <2>1, <2>3, Zenon DEF LifeParts, LifeCount, LifeDown
  <2>5. LifeFirst' /\ LifeUp'
    BY <2>1, <2>2, <2>3, Zenon DEF LifeParts, LifeFirst, LifeUp
  <2>6. LifeOnce' /\ LifeReading' /\ LifePending'
    BY <2>1, <2>2, <2>3 DEF LifeParts, LifeOnce, LifeReading, LifePending
  <2> QED
    BY <2>4, <2>5, <2>6, LifeSplit, Zenon DEF LifeParts
<1>13. CASE nextIteration
  BY <1>13, LifeAside, Zenon DEF nextIteration, connVars, seenVars
<1>14. ASSUME NEW len \in Sizes, send(len) PROVE UpThenDown'
  BY <1>14, SendLife, Zenon
<1>15. CASE shutdown
  <2>1. /\ state_ = "kConnected" /\ state_' = "kDisconnecting"
        /\ UNCHANGED <<todo, ups, downs, events_, index_, pendingFunctors_>>
    BY <1>15, Zenon DEF shutdown, loopVars, seenVars
  <2>2. ups > 0
    <3>1. ups = 1
      BY <2>1, LifeCounts, Zenon
    <3> QED
      BY <3>1
  <2> QED
    BY <2>1, <2>2, LifeAside, Zenon
<1>16. ASSUME NEW w \in Workers, Worker(w) \/ workerShutdown(w) PROVE UpThenDown'
  <2>1. CASE workerSetState(w)
    BY <2>1, LifeAside, Zenon DEF workerSetState, loopVars, seenVars
  <2>2. CASE workerQueues(w)
    BY <1>0, <2>2, LifeAside, Zenon DEF workerQueues, queueInLoop, connVars, seenVars
  <2>3. CASE workerShutdown(w)
    BY <2>3, LifeAside, Zenon DEF workerShutdown, connVars, loopVars, seenVars
  <2> QED
    BY <1>16, <2>1, <2>2, <2>3, SMTT(40) DEF Worker
<1>17. CASE removeConnectionInLoop \/ serverDestroyed
  BY <1>0, <1>17, LifeAside, Zenon
  DEF removeConnectionInLoop, serverDestroyed, queueInLoop, connVars, seenVars
<1>18. CASE peerReads \/ peerSends \/ peerCloses \/ peerResets \/ UNCHANGED vars
  <2>1. UNCHANGED <<state_, events_, index_, todo, pendingFunctors_, ups, downs>>
    BY <1>18, Zenon
    DEF peerReads, peerSends, peerCloses, peerResets, othersUnchanged, vars, connVars, loopVars, seenVars
  <2> QED
    BY <2>1, LifeAside
<1>19. CASE handleRead \/ handleClose
  BY <1>1, <1>2, <1>19, Zenon DEF handleRead, handleClose
<1> QED
  BY <1>3, <1>4, <1>5, <1>6, <1>7, <1>8, <1>9, <1>10, <1>11, <1>12, <1>13, <1>14, <1>15, <1>16,
     <1>17, <1>18, <1>19, Zenon
  DEF Next, IOLoop, Handler

\* At the start connectEstablished is queued.
LEMMA InitLife == Init => LifeInv
<1> SUFFICES ASSUME Init PROVE LifeInv
  OBVIOUS
<1>1. /\ pendingFunctors_ # <<>> /\ pendingFunctors_[1] = "connectEstablished"
      /\ DOMAIN pendingFunctors_ = {1} /\ DOMAIN todo = {}
  BY SMTT(40) DEF Init
<1>2. \A w \in Workers : wpc[w] = "idle"
  BY SMTT(40) DEF Init
<1>3. UpThenDown
  BY <1>1, SMTT(40) DEF Init, UpThenDown, Reading
<1> QED
  BY <1>2, <1>3, SMTT(40) DEF LifeInv

\* Every step keeps LifeInv: nothing takes an up back, and a send that the application
\* may not make is never forgotten.
LEMMA NextLife == ASSUME TypeOK, TypeOK', StreamInv, LifeInv, [Next]_vars PROVE LifeInv'
<1>1. /\ ~rude' => ~rude
      /\ ups' = ups \/ ups' = ups + 1
      /\ \/ wpc' = wpc
         \/ \E w \in Workers : (ups > 0 \/ wpc[w] # "idle") /\ \E v : wpc' = [wpc EXCEPT ![w] = v]
  <2> USE DEF Next, IOLoop, Handler, Worker, handleRead, handleWriteFlush, handleWriteNothing,
              handleWriteExits, handleClose, handleError, closeCallback_, closeCallbackDangles,
              connectEstablished, connectDestroyed, remove, shutdownFunctor, append, userFunctor,
              poll, doPendingFunctors, nextIteration, callbackReturns, send, sendExits,
              sendInLoopExits, shutdown, workerShutdown, workerSetState, workerQueues,
              removeConnectionInLoop, serverDestroyed, peerReads, peerSends, peerCloses, peerResets,
              goDown, exit, othersUnchanged, vars, sendVars, seenVars
  <2>1. ~rude' => ~rude
    BY ZenonT(40) DEF TypeOK
  <2>2. ups' = ups \/ ups' = ups + 1
    BY ZenonT(40)
  <2>3. \/ wpc' = wpc
        \/ \E w \in Workers : (ups > 0 \/ wpc[w] # "idle") /\ \E v : wpc' = [wpc EXCEPT ![w] = v]
    BY ZenonT(40) DEF Idle
  <2> QED
    BY <2>1, <2>2, <2>3, ZenonT(40)
<1>2. ups \in Nat /\ (ups > 0 => ups' > 0)
  <2>1. ups \in Nat
    BY Zenon DEF TypeOK
  <2> QED
    BY <1>1, <2>1
<1>3. \A w \in Workers : wpc'[w] # "idle" => ups' > 0
  <2>1. CASE wpc' = wpc
    BY <1>2, <2>1 DEF LifeInv
  <2>2. ASSUME NEW w \in Workers, ups > 0 \/ wpc[w] # "idle" PROVE ups' > 0
    BY <1>2, <2>2, SMTT(40) DEF LifeInv
  <2> QED
    BY <1>1, <2>1, <2>2
<1>4. ~rude' => UpThenDown'
  BY <1>1, NextUpThenDown, Zenon DEF LifeInv
<1> QED
  BY <1>3, <1>4, Zenon DEF LifeInv

-----------------------------------------------------------------------------
(* The theorems.                                                           *)

\* TypeOK, StreamInv, WatchInv and LifeInv hold together in every reachable state.
THEOREM ConnInvariant == SafeSpec => []ConnInv
<1>1. Init => ConnInv
  BY InitTypeOK, InitStream, InitWatch, InitLife DEF ConnInv
<1>2. ConnInv /\ [Next]_vars => ConnInv'
  <2> SUFFICES ASSUME ConnInv, [Next]_vars PROVE ConnInv'
    OBVIOUS
  <2>1. TypeOK /\ StreamInv /\ WatchInv /\ LifeInv
    BY DEF ConnInv
  <2>2. TypeOK'
    BY <2>1, NextTypeOK
  <2>3. StreamInv'
    BY <2>1, <2>2, NextStream
  <2>4. WatchInv'
    BY <2>1, NextWatch
  <2>5. LifeInv'
    BY <2>1, <2>2, NextLife
  <2> QED
    BY <2>2, <2>3, <2>4, <2>5 DEF ConnInv
<1> QED
  BY <1>1, <1>2, PTL DEF SafeSpec

\* What is written, then what is buffered, is the front part of what send() was given,
\* whatever the socket takes and whenever the threads run.
THEOREM StreamAlwaysInOrder == SafeSpec => []StreamInOrder
<1>1. ConnInv => StreamInOrder
  <2> SUFFICES ASSUME ConnInv PROVE StreamInOrder
    OBVIOUS
  <2> DEFINE done == wire \o outputBuffer_
             rest == inFlight[IOThread]
  <2>1. done \in Seq(Bytes) /\ rest \in Seq(Bytes)
    <3>1. /\ wire \in Seq(Bytes) /\ outputBuffer_ \in Seq(Bytes)
          /\ inFlight \in [Workers \cup {IOThread} -> Seq(Bytes)]
      BY Zenon DEF ConnInv, TypeOK
    <3> QED
      BY <3>1, ConcatProperties, Zenon
  <2>2. sent = done \o rest
    BY Zenon DEF ConnInv, StreamInv
  <2> HIDE DEF done, rest
  <2>3. /\ Len(sent) = Len(done) + Len(rest) /\ sent \in Seq(Bytes)
        /\ \A i \in 1 .. Len(sent) : sent[i] = IF i <= Len(done) THEN done[i] ELSE rest[i - Len(done)]
        /\ Len(done) \in Nat /\ Len(rest) \in Nat
    BY <2>1, <2>2, ConcatProperties, LenProperties, SMTT(40)
  <2>4. /\ SubSeq(sent, 1, Len(done)) \in Seq(Bytes)
        /\ Len(SubSeq(sent, 1, Len(done))) = Len(done)
        /\ \A i \in 1 .. Len(done) : SubSeq(sent, 1, Len(done))[i] = sent[i]
    <3>1. Len(done) \in 0 .. Len(sent) /\ \A i \in 1 .. Len(done) : sent[i] \in Bytes
      BY <2>3, ElementOfSeq, SMTT(40)
    <3> QED
      BY <2>3, <3>1, SubSeqProperties, SMTT(40)
  <2>5. done = SubSeq(sent, 1, Len(done))
    <3>1. \A i \in 1 .. Len(done) : done[i] = SubSeq(sent, 1, Len(done))[i]
      BY <2>3, <2>4
    <3> QED
      BY <2>1, <2>4, <3>1, SeqEqual, Zenon
  <2> QED
    BY <2>3, <2>5, SMTT(40) DEF StreamInOrder, done
<1> QED
  BY <1>1, ConnInvariant, PTL

\* Nothing that send() was given is cut off by a shutdown.
THEOREM NothingTruncated == SafeSpec => []NoTruncation
<1>1. ConnInv => NoTruncation
  <2> SUFFICES ASSUME ConnInv, wrShut, downs = 0 PROVE wire = sent
    BY DEF NoTruncation
  <2>1. outputBuffer_ = <<>> /\ inFlight[IOThread] = <<>>
    BY Zenon DEF ConnInv, WatchInv
  <2>2. wire \in Seq(Bytes) /\ (wire \o <<>>) \o <<>> = wire
    <3>1. wire \in Seq(Bytes)
      BY Zenon DEF ConnInv, TypeOK
    <3> QED
      BY <3>1, ConcatEmptySeq
  <2> QED
    BY <2>1, <2>2, Zenon DEF ConnInv, StreamInv
<1> QED
  BY <1>1, ConnInvariant, PTL

\* Buffered bytes of a connection that the server keeps are watched.
THEOREM PendingAlwaysWatched == SafeSpec => []PendingIsWatched
<1>1. ConnInv => PendingIsWatched
  BY Zenon DEF ConnInv, WatchInv, PendingIsWatched, isWriting
<1> QED
  BY <1>1, ConnInvariant, PTL

\* The application hears of up once, of down at most once, and of messages in between.
THEOREM CallbacksAlwaysInOrder == SafeSpec => []CallbacksInOrder
<1>1. ConnInv => CallbacksInOrder
  <2>1. ConnInv /\ At("messageCallback_") => 1 \in DOMAIN todo /\ todo[1] = "messageCallback_"
    BY InHand DEF ConnInv
  <2>2. ConnInv /\ ~rude => TypeOK /\ UpThenDown
    BY Zenon DEF ConnInv, LifeInv
  <2>3. TypeOK /\ UpThenDown => LifeReading /\ LifeCount
    BY LifeSplit, Zenon DEF LifeParts
  <2>4. "messageCallback_" \in Reading \cup {"append"}
    BY DEF Reading
  <2> QED
    BY <2>1, <2>2, <2>3, <2>4, Zenon DEF CallbacksInOrder, LifeReading, LifeCount
<1> QED
  BY <1>1, ConnInvariant, PTL
=============================================================================
