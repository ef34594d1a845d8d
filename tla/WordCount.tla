------------------------------ MODULE WordCount ------------------------------
(***************************************************************************)
(* examples/wordcount: hashers count the words of their files and send the *)
(* counts, split by word over the receivers; each receiver adds up what it *)
(* is sent and writes its shard when the last hasher has gone.  A hasher's *)
(* main thread is held up while its loop thread has too much to write.     *)
(***************************************************************************)
EXTENDS Integers, Sequences, FiniteSets, FiniteSetsExt, SequencesExt

CONSTANTS WcSenders, WcBuckets,   \* hashers; receivers, 1..n
          WcMaxHash,              \* kMaxHashSize
          WcBatch,                \* g_batchSize, in records
          WcMark,                 \* the high-water mark, in records
          WcRoom                  \* bound: records the network holds

WcWords == 1..3
WcHash(word) == (word % Cardinality(WcBuckets)) + 1
WcFiles(s) == IF s = 1 THEN {<<1, 2, 1, 3, 1>>, <<3>>} ELSE {<<2>>}

(* Per hasher: input, the rest of its file; todo, the records of this      *)
(* round; pc and bye, where the main thread is; funs, the functors of the  *)
(* loop thread.  Per hasher and receiver: the SendThrottler with its       *)
(* buffer, congestion_ and connection: out, what TcpConnection buffers,    *)
(* net, what is under way.  Per receiver: counts, left (senders_), shard.  *)
VARIABLE wc

WcZero == [w \in WcWords |-> 0]
WcLink == [buffer |-> <<>>, congestion |-> FALSE, conn |-> "up", out |-> <<>>, net |-> <<>>, fin |-> FALSE]
WcInit == \E files \in {f \in [WcSenders -> UNION {WcFiles(s) : s \in WcSenders}] : \A s \in WcSenders : f[s] \in WcFiles(s)} :
  wc = [file |-> files, input |-> files, todo |-> [s \in WcSenders |-> <<>>],
        pc |-> [s \in WcSenders |-> "read"], bye |-> [s \in WcSenders |-> 1], funs |-> [s \in WcSenders |-> <<>>],
        link |-> [s \in WcSenders |-> [b \in WcBuckets |-> WcLink]],
        counts |-> [b \in WcBuckets |-> WcZero], left |-> [b \in WcBuckets |-> Cardinality(WcSenders)],
        shard |-> [b \in WcBuckets |-> "none"], broken |-> [b \in WcBuckets |-> FALSE]]

WcPost(x, s, f) == [x EXCEPT !.funs[s] = Append(@, f)]
WcFun(kind, b, data) == [kind |-> kind, b |-> b, data |-> data]

-----------------------------------------------------------------------------
(* WordCountSender::processFile, the inner loop: words are counted until   *)
(* there are more than kMaxHashSize of them.                               *)
RECURSIVE WcCount(_, _)
WcCount(map, in) ==
  IF in = <<>> \/ Cardinality({w \in WcWords : map[w] > 0}) > WcMaxHash THEN <<map, in>>
  ELSE WcCount([map EXCEPT ![Head(in)] = @ + 1], Tail(in))
WcProcessFile_Drops(s) ==
  /\ wc.pc[s] = "read"
  /\ LET r == WcCount(WcZero, wc.input[s])
         words == SetToSortSeq({w \in WcWords : r[1][w] > 0}, LAMBDA a, b : a < b)
     IN wc' = [wc EXCEPT !.input[s] = IF r[2] = <<>> THEN r[2] ELSE Tail(r[2]), !.pc[s] = IF r[2] = <<>> THEN "last" ELSE "send",
                         !.todo[s] = [i \in DOMAIN words |-> <<words[i], r[1][words[i]]>>]]
WcProcessFile(s) ==
  /\ wc.pc[s] = "read"
  /\ LET r == WcCount(WcZero, wc.input[s])
         words == SetToSortSeq({w \in WcWords : r[1][w] > 0}, LAMBDA a, b : a < b)
     IN wc' = [wc EXCEPT !.input[s] = r[2], !.pc[s] = IF r[2] = <<>> THEN "last" ELSE "send",
                         !.todo[s] = [i \in DOMAIN words |-> <<words[i], r[1][words[i]]>>]]
(* Its outer loop: the next part of the file, or disconnectAll.            *)
WcRound(s) == /\ wc.pc[s] \in {"send", "last"} /\ wc.todo[s] = <<>>
              /\ wc' = [wc EXCEPT !.pc[s] = IF @ = "last" THEN "bye" ELSE "read"]

(* SendThrottler::send, up to throttle.                                    *)
WcSend(s) ==
  /\ wc.pc[s] \in {"send", "last"} /\ wc.todo[s] # <<>>
  /\ LET rec == Head(wc.todo[s])
         b == WcHash(rec[1])
         x == [wc EXCEPT !.todo[s] = Tail(@), !.link[s][b].buffer = Append(@, rec)]
         l == x.link[s][b]
     IN IF Len(l.buffer) < WcBatch THEN wc' = x
        ELSE IF l.congestion THEN wc' = [x EXCEPT !.pc[s] = IF @ = "send" THEN "wait" ELSE "waitlast", !.bye[s] = b]
        ELSE IF l.conn = "down" THEN wc' = [x EXCEPT !.pc[s] = "dead"]
        ELSE wc' = [WcPost(x, s, WcFun("send", b, l.buffer)) EXCEPT !.link[s][b].buffer = <<>>]
(* throttle returns: cond_ was notified and congestion_ is false.          *)
WcWake(s) ==
  /\ wc.pc[s] \in {"woken", "wokenlast"}
  /\ LET b == wc.bye[s]
         l == wc.link[s][b]
         waits == IF wc.pc[s] = "woken" THEN "wait" ELSE "waitlast"
     IN IF l.congestion THEN wc' = [wc EXCEPT !.pc[s] = waits]
        ELSE IF l.conn = "down" THEN wc' = [wc EXCEPT !.pc[s] = "dead"]
        ELSE wc' = [WcPost(wc, s, WcFun("send", b, l.buffer)) EXCEPT !.link[s][b].buffer = <<>>, !.bye[s] = 1,
                      !.pc[s] = IF @ = "woken" THEN "send" ELSE "last"]

WcDisconnect_NoFlush(s) ==
  /\ wc.pc[s] = "bye" /\ wc.bye[s] \in WcBuckets
  /\ IF wc.link[s][wc.bye[s]].conn = "down" THEN wc' = [wc EXCEPT !.pc[s] = "dead"]
     ELSE wc' = [WcPost(wc, s, WcFun("shutdown", wc.bye[s], <<>>)) EXCEPT !.link[s][wc.bye[s]].conn = "closing", !.pc[s] = "latch"]
(* SendThrottler::disconnect: what is left is sent, then it waits for the  *)
(* connection's end.  A connection that is gone before is a null conn_.    *)
WcDisconnect(s) ==
  /\ wc.pc[s] = "bye" /\ wc.bye[s] \in WcBuckets
  /\ LET b == wc.bye[s]
         l == wc.link[s][b]
         x == IF l.buffer = <<>> THEN wc
              ELSE [WcPost(wc, s, WcFun("send", b, l.buffer)) EXCEPT !.link[s][b].buffer = <<>>]
     IN IF l.conn = "down" THEN wc' = [wc EXCEPT !.pc[s] = "dead"]
        ELSE wc' = [WcPost(x, s, WcFun("shutdown", b, <<>>)) EXCEPT !.link[s][b].conn = "closing", !.pc[s] = "latch"]
(* disconnectLatch_ was counted down: the next receiver.                   *)
WcDisconnected(s) == /\ wc.pc[s] = "latch" /\ wc.link[s][wc.bye[s]].conn = "down"
                     /\ wc' = [wc EXCEPT !.pc[s] = "bye", !.bye[s] = @ + 1]

-----------------------------------------------------------------------------
(* TcpConnection::sendInLoop and handleWrite: some of it is written, the   *)
(* callbacks of high water and of completion are queued.                   *)
WcWrite(x, s, b, data, n) ==
  LET old == Len(x.link[s][b].out)
      all == x.link[s][b].out \o data
      rest == SubSeq(all, n + 1, Len(all))
      y == [x EXCEPT !.link[s][b].out = rest, !.link[s][b].net = @ \o SubSeq(all, 1, n)]
  IN IF rest = <<>> THEN WcPost(y, s, WcFun("complete", b, <<>>))
     ELSE IF old < WcMark /\ Len(rest) >= WcMark /\ data # <<>> THEN WcPost(y, s, WcFun("high", b, <<>>))
     ELSE y
WcSpace(x, s, b) == WcRoom - Len(x.link[s][b].net)
WcFinish(x, s, b) == IF x.link[s][b].out = <<>> /\ x.link[s][b].conn = "closing"
                     THEN [x EXCEPT !.link[s][b].fin = TRUE] ELSE x

WcOnWriteComplete_Silent(x, s, b) == [x EXCEPT !.link[s][b].congestion = FALSE]
(* SendThrottler::onWriteComplete *)
WcOnWriteComplete(x, s, b) ==
  LET y == [x EXCEPT !.link[s][b].congestion = FALSE]
  IN IF x.link[s][b].congestion /\ x.bye[s] = b
     THEN [y EXCEPT !.pc[s] = CASE @ = "wait" -> "woken" [] @ = "waitlast" -> "wokenlast" [] OTHER -> @] ELSE y

(* One functor of the loop thread; high is SendThrottler::onHighWaterMark. *)
(* shutdown() changes the state in the main thread, so the last write of   *)
(* an earlier batch may end the stream before the last send runs, which    *)
(* then fails.                                                             *)
WcRun(s) ==
  /\ wc.funs[s] # <<>>
  /\ LET f == Head(wc.funs[s])
         x == [wc EXCEPT !.funs[s] = Tail(@)]
         l == x.link[s][f.b]
     IN \/ f.kind = "high" /\ wc' = [x EXCEPT !.link[s][f.b].congestion = TRUE]
        \/ f.kind = "complete" /\ wc' = WcOnWriteComplete(x, s, f.b)
        \/ f.kind = "shutdown" /\ wc' = IF l.conn = "down" THEN x ELSE WcFinish(x, s, f.b)
        \/ f.kind = "send" /\ (l.conn = "down" \/ l.fin) /\ wc' = [x EXCEPT !.broken[f.b] = TRUE]
        \/ /\ f.kind = "send" /\ l.conn # "down" /\ ~l.fin
           /\ \E n \in IF l.out = <<>> THEN 0..Min({Len(f.data), WcSpace(x, s, f.b)}) ELSE {0} :
                wc' = WcWrite(x, s, f.b, f.data, n)
WcWritable(s) == \E b \in WcBuckets :
  /\ wc.link[s][b].conn # "down" /\ wc.link[s][b].out # <<>>
  /\ \E n \in 1..Min({Len(wc.link[s][b].out), WcSpace(wc, s, b)}) :
       wc' = WcFinish(WcWrite(wc, s, b, <<>>, n), s, b)

-----------------------------------------------------------------------------
WcOnMessage_Replaces(counts, rec) == [counts EXCEPT ![rec[1]] = rec[2]]
(* WordCountReceiver::onMessage, one line.                                 *)
WcOnMessage(counts, rec) == [counts EXCEPT ![rec[1]] = @ + rec[2]]
WcReceive(s) == \E b \in WcBuckets : \E n \in 1..Len(wc.link[s][b].net) :
  /\ wc.shard[b] = "none"
  /\ wc' = [wc EXCEPT !.counts[b] = FoldLeft(WcOnMessage, @, SubSeq(wc.link[s][b].net, 1, n)),
                      !.link[s][b].net = SubSeq(@, n + 1, Len(@))]
(* WordCountReceiver::onConnection for a connection that ended; the        *)
(* hasher's side ends with it (SendThrottler::onConnection).               *)
WcOnConnection(x, s, b) ==
  LET y == [x EXCEPT !.link[s][b].conn = "down", !.left[b] = @ - 1]
  IN IF y.left[b] = 0 THEN [y EXCEPT !.shard[b] = "written"] ELSE y
WcEnd(s) == \E b \in WcBuckets :
  /\ wc.link[s][b].fin /\ wc.link[s][b].net = <<>> /\ wc.link[s][b].conn # "down"
  /\ wc' = WcOnConnection(wc, s, b)
(* The connection breaks: what was under way is lost.                      *)
WcBreak(s) == \E b \in WcBuckets :
  /\ wc.link[s][b].conn # "down" /\ ~wc.link[s][b].fin
  /\ wc' = [WcOnConnection(wc, s, b) EXCEPT !.link[s][b].net = <<>>, !.link[s][b].out = <<>>, !.broken[b] = TRUE]

WcNext == \E s \in WcSenders : \/ WcProcessFile(s) \/ WcRound(s) \/ WcSend(s) \/ WcWake(s) \/ WcDisconnect(s) \/ WcDisconnected(s)
                               \/ WcRun(s) \/ WcWritable(s) \/ WcReceive(s) \/ WcEnd(s) \/ WcBreak(s)

-----------------------------------------------------------------------------
WcIn(recs, w) == FoldLeft(LAMBDA n, r : n + (IF r[1] = w THEN r[2] ELSE 0), 0, recs)
WcWhere(s, w) ==
  LET b == WcHash(w)
      l == wc.link[s][b]
      queued == FoldLeft(LAMBDA q, f : IF f.b = b THEN q \o f.data ELSE q, <<>>, wc.funs[s])
  IN Cardinality({i \in DOMAIN wc.input[s] : wc.input[s][i] = w})
     + WcIn(wc.todo[s] \o l.buffer \o queued \o l.out \o l.net, w)

(* A send is queued behind the end of its stream.                          *)
WcCut(b) == \E s \in WcSenders : wc.link[s][b].fin /\ \E i \in DOMAIN wc.funs[s] : wc.funs[s][i].b = b /\ wc.funs[s][i].kind = "send"

(* No count is lost or added twice: what a receiver has counted of a word  *)
(* and what is still on its way to it from every hasher add up to the      *)
(* words of the files, unless a connection to the receiver broke or was    *)
(* shut too early; so a shard is complete when it is written (processFile, *)
(* send, disconnect, WordCountReceiver::onMessage and onConnection).       *)
WcConserved == \A w \in WcWords :
  ~wc.broken[WcHash(w)] =>
     LET total == MapThenSumSet(LAMBDA s : Cardinality({i \in DOMAIN wc.file[s] : wc.file[s][i] = w}), WcSenders)
     IN /\ wc.counts[WcHash(w)][w] + MapThenSumSet(LAMBDA s : WcWhere(s, w), WcSenders) = total
        /\ (wc.shard[WcHash(w)] = "written" /\ ~WcCut(WcHash(w))) => wc.counts[WcHash(w)][w] = total

(* A hasher that waits for its receiver to catch up is woken: there is     *)
(* something to write to a live connection, or a completion is queued; it  *)
(* waits for ever only for a connection that is gone (throttle,            *)
(* onHighWaterMark, onWriteComplete).                                      *)
WcAwake == \A s \in WcSenders :
  wc.pc[s] \in {"wait", "waitlast"} =>
     LET l == wc.link[s][wc.bye[s]]
     IN \/ l.out # <<>> \/ l.conn = "down"
        \/ \E i \in DOMAIN wc.funs[s] : wc.funs[s][i].b = wc.bye[s] /\ wc.funs[s][i].kind = "complete"

(* The words are counted as the comments above WcConserved and WcAwake say.*)
WordCountSound == WcConserved /\ WcAwake
=============================================================================
