------------------------------- MODULE Codec -------------------------------
(***************************************************************************)
(* The codecs that cut a byte stream into messages: ProtobufCodecLite      *)
(* (muduo/net/protobuf), ProtobufCodec with its dispatcher and QueryServer *)
(* (examples/protobuf/codec) and LengthHeaderCodec (examples/asio/chat).   *)
(*                                                                         *)
(* Bytes are cells with values 0..7 and an int32 is two of them, so that a *)
(* read can end inside of a number.  The sender may be another program: a  *)
(* frame with a wrong length, checksum, name, type or content is part of   *)
(* what can arrive.                                                        *)
(***************************************************************************)
EXTENDS Integers, Sequences, SequencesExt

CONSTANT CodecFrames       \* how many frames are sent

(* kind: the codec; conn: the receiving TcpConnection; wire: cells on the  *)
(* way; buf: its input buffer; got: the messages given to the callback;    *)
(* err: the errors reported; out: the answers sent.  History: sent.        *)
VARIABLE cod

CodecHeader == 2                    \* kHeaderLen, kChecksumLen: sizeof(int32_t)
CodecMax == 9                       \* kMaxMessageLen
CodecMin == 2 * CodecHeader + 2     \* kMinMessageLen
CodecTag == <<6>>                   \* tag_
CodecLiteMin == Len(CodecTag) + CodecHeader

(* hostToNetwork32 and asInt32: an int32 in two cells, high cell first.    *)
CodecEncode(n) == <<(n % 64) \div 8, n % 8>>
CodecDecode(s) == LET n == 8 * s[1] + s[2] IN IF n >= 32 THEN n - 64 ELSE n

(* adler32: the sum of the cells and the sum of its running values.        *)
CodecChecksum(s) ==
  LET sums == FoldLeft(LAMBDA p, c : <<(p[1] + c) % 7, (p[2] + p[1] + c) % 7>>, <<1, 0>>, s)
  IN <<sums[2], sums[1]>>

(* The message types: Query, Answer and Empty are in the generated pool,   *)
(* and the QueryServer has callbacks for the first two.                    *)
CodecPool == {<<1>>, <<2>>, <<3>>}
CodecQuery == <<1>>

(* ParseFromArray refuses what is not a message of the type.               *)
CodecParses(data) == data # <<7>>

CodecFramed(body) == CodecEncode(Len(body)) \o body
CodecSummed(body) == CodecFramed(body \o CodecChecksum(body))

(* ProtobufCodec::fillEmptyBuffer, ProtobufCodecLite::fillEmptyBuffer and  *)
(* LengthHeaderCodec::send.                                                *)
CodecFill(name, data) == CodecSummed(CodecEncode(Len(name) + 1) \o name \o <<0>> \o data)
CodecLiteFill_NoTag(data) == CodecSummed(data)
CodecLiteFill(data) == CodecSummed(CodecTag \o data)
CodecStringFill(data) == CodecFramed(data)

CodecUnit(e, m, cells) == [error |-> e, message |-> m, cells |-> cells]

(* What may be sent, with what the receiver should make of it.             *)
CodecMenu(kind) ==
  CASE kind = "proto" ->
         {CodecUnit("", <<n, <<4>>>>, CodecFill(n, <<4>>)) : n \in CodecPool}
         \cup {CodecUnit("length", <<>>, CodecEncode(n) \o <<0, 2, 1, 0, 1, 1>>) : n \in {-1, 5, 10}}
         \cup {CodecUnit("checksum", <<>>, CodecFramed(<<0, 2, 1, 0, 4, 6, 6>>)),
               CodecUnit("name", <<>>, CodecSummed(<<0, 1, 1, 0, 4>>)),
               CodecUnit("name", <<>>, CodecSummed(<<0, 4, 1, 0, 4>>)),
               CodecUnit("type", <<>>, CodecFill(<<5>>, <<4>>)),
               CodecUnit("parse", <<>>, CodecFill(<<1>>, <<7>>))}
    [] kind = "lite" ->
         {CodecUnit("", <<d>>, CodecLiteFill(d)) : d \in {<<>>, <<4>>}}
         \cup {CodecUnit("raw", <<>>, CodecLiteFill(<<5>>)),
               CodecUnit("length", <<>>, CodecEncode(2) \o <<6, 6, 6>>),
               CodecUnit("checksum", <<>>, CodecFramed(<<6, 4, 0, 0>>)),
               CodecUnit("type", <<>>, CodecSummed(<<5, 4>>)),
               CodecUnit("parse", <<>>, CodecLiteFill(<<7>>))}
    [] OTHER ->
         {CodecUnit("", <<d>>, CodecStringFill(d)) : d \in {<<>>, <<4>>, <<4, 4>>}}
         \cup {CodecUnit("length", <<>>, CodecEncode(n)) : n \in {-1, 10}}

CodecKinds == {"proto", "lite", "string"}

CodecInit == \E k \in CodecKinds :
  cod = [kind |-> k, conn |-> "up", wire |-> <<>>, buf |-> <<>>, got |-> <<>>,
         err |-> {}, out |-> 0, sent |-> <<>>]

-----------------------------------------------------------------------------
CodecPart(s, from, n) == SubSeq(s, from + 1, from + n)

(* ProtobufCodecLite::validateChecksum, for a body with its checksum.      *)
CodecValid(body) ==
  LET n == Len(body) - CodecHeader
  IN CodecChecksum(CodecPart(body, 0, n)) = CodecPart(body, n, CodecHeader)

(* ProtobufCodecLite::parse *)
CodecLiteParse(body) ==
  LET tag == Len(CodecTag)
      data == CodecPart(body, tag, Len(body) - tag - CodecHeader)
  IN CASE ~CodecValid(body) -> [error |-> "checksum", message |-> <<>>]
       [] CodecPart(body, 0, tag) # CodecTag -> [error |-> "type", message |-> <<>>]
       [] ~CodecParses(data) -> [error |-> "parse", message |-> <<>>]
       [] OTHER -> [error |-> "", message |-> <<data>>]

(* ProtobufCodec::createMessage *)
CodecKnown(name) == name \in CodecPool

(* ProtobufCodec::parse *)
CodecParse(body) ==
  LET nameLen == CodecDecode(CodecPart(body, 0, CodecHeader))
      name == CodecPart(body, CodecHeader, nameLen - 1)
      data == CodecPart(body, CodecHeader + nameLen, Len(body) - nameLen - 2 * CodecHeader)
  IN IF ~CodecValid(body) THEN [error |-> "checksum", message |-> <<>>]
     ELSE IF nameLen < 2 \/ nameLen > Len(body) - 2 * CodecHeader
       THEN [error |-> "name", message |-> <<>>]
     ELSE IF ~CodecKnown(name) THEN [error |-> "type", message |-> <<>>]
     ELSE IF ~CodecParses(data) THEN [error |-> "parse", message |-> <<>>]
     ELSE [error |-> "", message |-> <<name, data>>]

CodecDefaultError_Stays(c, e) == [c EXCEPT !.err = @ \cup {e}]
(* defaultErrorCallback: what is wrong stays in the buffer.                *)
CodecDefaultError(c, e) == [c EXCEPT !.err = @ \cup {e}, !.conn = "half"]

(* ProtobufDispatcher::onProtobufMessage into the QueryServer's callbacks: *)
(* onQuery answers and shuts down, onAnswer and onUnknownMessage shut down.*)
CodecDispatch(c, m) ==
  [c EXCEPT !.got = Append(@, m), !.conn = "half",
            !.out = IF m[1] = CodecQuery /\ c.conn = "up" THEN @ + 1 ELSE @]

RECURSIVE CodecOnMessage(_)
(* ProtobufCodec::onMessage *)
CodecOnMessage(c) ==
  LET len == CodecDecode(c.buf)
      p == CodecParse(CodecPart(c.buf, CodecHeader, len))
  IN IF Len(c.buf) < CodecMin + CodecHeader THEN c
     ELSE IF len > CodecMax \/ len < CodecMin THEN CodecDefaultError(c, "length")
     ELSE IF Len(c.buf) < len + CodecHeader THEN c
     ELSE IF p.error # "" THEN CodecDefaultError(c, p.error)
     ELSE CodecOnMessage(CodecDispatch([c EXCEPT !.buf = SubSeq(@, CodecHeader + len + 1, Len(@))],
                                       p.message))

(* A raw callback that keeps the frames whose content is <<5>> to itself.  *)
CodecRaw(frame) == CodecPart(frame, CodecHeader + Len(CodecTag), 1) # <<5>>

CodecLiteOnMessage_Stops(c) ==
  LET len == CodecDecode(c.buf)
      p == CodecLiteParse(CodecPart(c.buf, CodecHeader, len))
      rest == [c EXCEPT !.buf = SubSeq(@, CodecHeader + len + 1, Len(@))]
  IN IF Len(c.buf) < CodecLiteMin + CodecHeader THEN c
     ELSE IF len > CodecMax \/ len < CodecLiteMin THEN CodecDefaultError(c, "length")
     ELSE IF Len(c.buf) < len + CodecHeader THEN c
     ELSE IF ~CodecRaw(CodecPart(c.buf, 0, CodecHeader + len)) THEN rest
     ELSE IF p.error # "" THEN CodecDefaultError(c, p.error)
     ELSE [rest EXCEPT !.got = Append(@, p.message)]

RECURSIVE CodecLiteOnMessage(_)
(* ProtobufCodecLite::onMessage *)
CodecLiteOnMessage(c) ==
  LET len == CodecDecode(c.buf)
      p == CodecLiteParse(CodecPart(c.buf, CodecHeader, len))
      rest == [c EXCEPT !.buf = SubSeq(@, CodecHeader + len + 1, Len(@))]
  IN IF Len(c.buf) < CodecLiteMin + CodecHeader THEN c
     ELSE IF len > CodecMax \/ len < CodecLiteMin THEN CodecDefaultError(c, "length")
     ELSE IF Len(c.buf) < len + CodecHeader THEN c
     ELSE IF ~CodecRaw(CodecPart(c.buf, 0, CodecHeader + len)) THEN CodecLiteOnMessage(rest)
     ELSE IF p.error # "" THEN CodecDefaultError(c, p.error)
     ELSE CodecLiteOnMessage([rest EXCEPT !.got = Append(@, p.message)])

RECURSIVE CodecStringOnMessage(_)
(* LengthHeaderCodec::onMessage *)
CodecStringOnMessage(c) ==
  LET len == CodecDecode(c.buf)
  IN IF Len(c.buf) < CodecHeader THEN c
     ELSE IF len > CodecMax \/ len < 0 THEN CodecDefaultError(c, "length")
     ELSE IF Len(c.buf) < len + CodecHeader THEN c
     ELSE CodecStringOnMessage(
            [c EXCEPT !.got = Append(@, <<CodecPart(c.buf, CodecHeader, len)>>),
                      !.buf = SubSeq(@, CodecHeader + len + 1, Len(@))])

-----------------------------------------------------------------------------
CodecSend == \E u \in CodecMenu(cod.kind) :
  /\ Len(cod.sent) < CodecFrames
  /\ cod' = [cod EXCEPT !.sent = Append(@, u), !.wire = @ \o u.cells]

(* A read of any size, and the message callback.                           *)
CodecRead == \E n \in 1..Len(cod.wire) :
  LET c == [cod EXCEPT !.buf = @ \o SubSeq(cod.wire, 1, n), !.wire = SubSeq(@, n + 1, Len(@))]
  IN cod' = CASE cod.kind = "proto" -> CodecOnMessage(c)
              [] cod.kind = "lite" -> CodecLiteOnMessage(c)
              [] OTHER -> CodecStringOnMessage(c)

CodecNext == CodecSend \/ CodecRead

-----------------------------------------------------------------------------
CodecGood(u) == u.error \in {"", "raw"}

(* The cells of the first n frames, and how many cells have been read.     *)
CodecCells(n) == FoldLeft(LAMBDA s, u : s + Len(u.cells), 0, SubSeq(cod.sent, 1, n))
CodecArrived == CodecCells(Len(cod.sent)) - Len(cod.wire)

(* The frames that have been read whole, up to the first faulty one.       *)
CodecWhole == {n \in 0..Len(cod.sent) :
  CodecCells(n) <= CodecArrived /\ \A i \in 1..n : CodecGood(cod.sent[i])}
CodecCount == CHOOSE n \in CodecWhole : \A k \in CodecWhole : k <= n

(* However the stream is cut into reads, the callback has been given       *)
(* exactly the messages of the frames that have arrived whole, once and in *)
(* order, up to the first faulty one; what a codec encodes it decodes.     *)
CodecExact ==
  cod.got = [i \in DOMAIN SelectSeq(SubSeq(cod.sent, 1, CodecCount), LAMBDA u : u.error = "") |->
               SelectSeq(SubSeq(cod.sent, 1, CodecCount), LAMBDA u : u.error = "")[i].message]

(* A faulty frame is reported for what is wrong with it, at the latest when*)
(* it has arrived whole, and a good stream is never refused.               *)
CodecBlames ==
  LET n == CodecCount + 1
      faulty == n <= Len(cod.sent) /\ ~CodecGood(cod.sent[n])
  IN /\ cod.err \subseteq (IF faulty THEN {cod.sent[n].error} ELSE {})
     /\ faulty /\ CodecCells(n) <= CodecArrived => cod.err # {}

(* After an error the connection is being shut down, and nothing is        *)
(* delivered any more: what follows a faulty frame is not a frame.         *)
CodecStops == cod.err # {} => cod.conn = "half"

(* The QueryServer answers at most once, to a Query that was the first     *)
(* message of its connection.                                              *)
CodecOneAnswer == cod.kind = "proto" =>
  /\ cod.got # <<>> => cod.conn = "half"
  /\ cod.out = IF cod.got # <<>> /\ cod.got[1][1] = CodecQuery THEN 1 ELSE 0

(* The codecs, whole.                                                      *)
CodecSound == CodecExact /\ CodecBlames /\ CodecStops /\ CodecOneAnswer
=============================================================================
