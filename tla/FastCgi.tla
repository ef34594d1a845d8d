------------------------------ MODULE FastCgi ------------------------------
(***************************************************************************)
(* examples/fastcgi: FastCgiCodec collects the records of a request from a *)
(* web server and hands it to a callback; respond() frames the answer.     *)
(* Cells have the values 0..7; a length is one cell below 4 or, with the   *)
(* high bit set in the first, two cells.  A record arrives whole or in two *)
(* pieces.                                                                 *)
(***************************************************************************)
EXTENDS Integers, Sequences, SequencesExt, FiniteSets

CONSTANT FcgiRequests      \* how many requests the web server sends

(* conn: the TcpConnection; wire: records on the way; part: the first of   *)
(* them has been read in part; stream, params, stdin, got, keep: the       *)
(* members of the codec.  History: sent, replies, calm.                    *)
VARIABLE fcg

FcgiRecord(t, content) == [type |-> t, content |-> content]

(* Parameters are name-value pairs, each with its two lengths in front.    *)
FcgiA == <<1, 1, 5, 6>>             \* 5 = 6
FcgiB == <<4, 1, 0, 3>>             \* 3 = nothing, with a long length
FcgiBroken == <<2, 3, 5>>           \* lengths that exceed what there is

(* The requests: whether the connection is kept, the records of the        *)
(* parameters (the stream may be cut anywhere) and of the standard input.  *)
FcgiMenu ==
  [keep : BOOLEAN, params : {<<FcgiA>>, <<FcgiA \o FcgiB>>, <<SubSeq(FcgiA, 1, 3), <<6>> \o FcgiB>>,
                             <<FcgiB \o FcgiBroken>>, <<>>},
   stdin : {<<>>, <<<<2>>, <<3>>>>}]

FcgiRecords(r) ==
  <<FcgiRecord("begin", <<IF r.keep THEN 1 ELSE 0>>)>>
  \o [i \in DOMAIN r.params |-> FcgiRecord("params", r.params[i])] \o <<FcgiRecord("params", <<>>)>>
  \o [i \in DOMAIN r.stdin |-> FcgiRecord("stdin", r.stdin[i])] \o <<FcgiRecord("stdin", <<>>)>>

FcgiClear == [stream |-> <<>>, params |-> {}, stdin |-> <<>>, got |-> FALSE]

(* onConnection of fastcgi_test.cc: a codec of its own for the connection. *)
FcgiInit ==
  fcg = [conn |-> "up", wire |-> <<>>, part |-> FALSE, codec |-> FcgiClear, keep |-> FALSE,
         sent |-> <<>>, replies |-> <<>>, calm |-> TRUE]

-----------------------------------------------------------------------------
(* FastCgiCodec::readLen: the length and the cells it took, none if there  *)
(* are too few.                                                            *)
FcgiReadLen(s) ==
  IF s = <<>> THEN [cells |-> 0, len |-> 0]
  ELSE IF s[1] < 4 THEN [cells |-> 1, len |-> s[1]]
  ELSE IF Len(s) >= 2 THEN [cells |-> 2, len |-> 8 * (s[1] - 4) + s[2]]
  ELSE [cells |-> 0, len |-> 0]

FcgiDrop(s, n) == SubSeq(s, n + 1, Len(s))

RECURSIVE FcgiParseAll(_)
(* FastCgiCodec::parseAllParams: it stops at the first pair that is not    *)
(* there in full and leaves the rest in the stream.                        *)
FcgiParseAll(c) ==
  LET n == FcgiReadLen(c.stream)
      v == FcgiReadLen(FcgiDrop(c.stream, n.cells))
      rest == FcgiDrop(c.stream, n.cells + v.cells)
  IN IF c.stream = <<>> \/ n.cells = 0 THEN c
     ELSE IF v.cells = 0 THEN [c EXCEPT !.stream = FcgiDrop(@, n.cells)]
     ELSE IF Len(rest) < n.len + v.len THEN [c EXCEPT !.stream = rest]
     ELSE LET name == SubSeq(rest, 1, n.len)
          IN FcgiParseAll([c EXCEPT !.stream = FcgiDrop(rest, n.len + v.len),
                                    !.params = {p \in @ : p[1] # name}
                                               \cup {<<name, SubSeq(rest, n.len + 1, n.len + v.len)>>}])

(* FastCgiCodec::onParams and onStdin: an empty record ends each stream.   *)
FcgiOnParams(c, content) ==
  IF content # <<>> THEN [c EXCEPT !.stream = @ \o content] ELSE FcgiParseAll(c)
FcgiOnStdin(c, content) ==
  IF content # <<>> THEN [c EXCEPT !.stdin = @ \o content] ELSE [c EXCEPT !.got = TRUE]

(* FastCgiCodec::onBeginRequest, for the responder role.                   *)
FcgiOnBegin(f, content) == [f EXCEPT !.keep = content = <<1>>]

(* FastCgiCodec::parseRequest: every record that is there in full.         *)
FcgiParse(f, records) ==
  FoldLeft(LAMBDA g, r : CASE r.type = "begin" -> FcgiOnBegin(g, r.content)
                           [] r.type = "params" -> [g EXCEPT !.codec = FcgiOnParams(@, r.content)]
                           [] OTHER -> [g EXCEPT !.codec = FcgiOnStdin(@, r.content)],
           f, records)

FcgiFinish_KeepsParams(c) == [FcgiClear EXCEPT !.params = c.params]
(* What onMessage clears behind the callback.                              *)
FcgiFinish(c) == FcgiClear

(* FastCgiCodec::onMessage; onRequest of fastcgi_test.cc answers at once.  *)
FcgiOnMessage(f, records) ==
  LET g == FcgiParse(f, records)
  IN IF ~g.codec.got THEN g
     ELSE [g EXCEPT !.codec = FcgiFinish(@), !.conn = IF g.keep THEN @ ELSE "half",
                    !.replies = IF f.conn = "up"
                      THEN Append(@, [params |-> g.codec.params, stdin |-> g.codec.stdin]) ELSE @]

-----------------------------------------------------------------------------
FcgiSend == \E r \in FcgiMenu :
  /\ Len(fcg.sent) < FcgiRequests
  /\ fcg' = [fcg EXCEPT !.sent = Append(@, r), !.wire = @ \o FcgiRecords(r),
                        !.calm = @ /\ Len(fcg.replies) = Len(fcg.sent)]

FcgiRead == \E n \in 0..Len(fcg.wire), p \in BOOLEAN :
  /\ p => n < Len(fcg.wire)
  /\ n = 0 => p /\ ~fcg.part
  /\ fcg' = FcgiOnMessage([fcg EXCEPT !.wire = FcgiDrop(@, n), !.part = p], SubSeq(fcg.wire, 1, n))

FcgiNext == FcgiSend \/ FcgiRead

-----------------------------------------------------------------------------
(* respond: the length and padding of the record around n bytes of content;*)
(* a content of FcgiLimit (65536) bytes or more is sent without a header.  *)
FcgiLimit == 65536
FcgiRespond(n) == [length |-> n % FcgiLimit, padding |-> (8 - (n % 8)) % 8]

(* The value each name has at the end of the stream, pair by pair.         *)
FcgiMeant(r) ==
  CASE r.params = <<>> -> {}
    [] r.params = <<FcgiA>> -> {<<<<5>>, <<6>>>>}
    [] r.params = <<FcgiB \o FcgiBroken>> -> {<<<<3>>, <<>>>>}
    [] OTHER -> {<<<<5>>, <<6>>>>, <<<<3>>, <<>>>>}

(* A web server that waits for each answer gets each request answered once,*)
(* from that request's own parameters and input, as soon as it is complete,*)
(* however records are cut; nothing of an earlier request is left in the   *)
(* codec.  Two requests in one read are taken for one.                     *)
FcgiExact == fcg.calm =>
  /\ Len(fcg.replies) <= Len(fcg.sent)
  /\ \A i \in DOMAIN fcg.replies :
       /\ fcg.replies[i].params = FcgiMeant(fcg.sent[i])
       /\ fcg.replies[i].stdin = FlattenSeq(fcg.sent[i].stdin)
  /\ fcg.wire = <<>> /\ (\A i \in 1..(Len(fcg.sent) - 1) : fcg.sent[i].keep) =>
       Len(fcg.replies) = Len(fcg.sent)

(* The connection is shut down exactly when the last answered request did  *)
(* not ask to keep it.                                                     *)
FcgiKeeps == fcg.calm =>
  (fcg.conn = "half" <=> \E i \in DOMAIN fcg.replies : ~fcg.sent[i].keep)

(* Between requests the codec is as good as new.                           *)
FcgiFresh == fcg.wire = <<>> => fcg.codec = FcgiClear

(* The record around an answer says how long it is and ends on a multiple  *)
(* of eight bytes, up to the longest content one record can hold.          *)
FcgiAligned == \A n \in (0..20) \cup ((FcgiLimit - 9)..(FcgiLimit - 1)) :
  /\ FcgiRespond(n).length = n
  /\ FcgiRespond(n).padding \in 0..7 /\ (n + FcgiRespond(n).padding) % 8 = 0

(* The FastCGI codec, whole.                                               *)
FastCgiSound == FcgiExact /\ FcgiKeeps /\ FcgiFresh /\ FcgiAligned
=============================================================================
