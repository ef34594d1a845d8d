---------------------------- MODULE NetConnection ----------------------------
(***************************************************************************)
(* Upstream's TcpConnection and its Channel: the loop's thread, the socket *)
(* and the peer, the server, and one other thread that calls send,         *)
(* shutdown, forceClose, startRead and stopRead.  Bytes are numbered in    *)
(* the order sendInLoop accepts them.                                      *)
(*                                                                         *)
(* at, todo, batch: where loop() is, the handlers and the functors left;   *)
(* pend is pendingFunctors_.  cb: a callback of the application runs.      *)
(* other: what the other thread's call still does.  History: up and down   *)
(* count the connection callbacks; raced: the other thread stored          *)
(* kDisconnecting over a state that handleClose changed after the test     *)
(* (the FIXME on compare and swap); late: startReadInLoop ran after the    *)
(* close; orphan: the server was destroyed first; fault: an assertion of   *)
(* the code failed.                                                        *)
(***************************************************************************)
EXTENDS Integers, Sequences, SequencesExt

CONSTANTS NcSizes,     \* lengths of the messages sent
          NcRoom,      \* send buffer of the kernel, in bytes
          NcMark,      \* highWaterMark_
          NcCalls      \* bound on the application's calls

VARIABLE nc

NcOpen == {"kConnected", "kDisconnecting"}

NcInit == nc = [state |-> "kConnecting", reading |-> TRUE, watch |-> {}, reg |-> "new", at |-> "poll",
                todo |-> << >>, batch |-> << >>, pend |-> << <<"established">> >>, cb |-> FALSE,
                out |-> << >>, wire |-> << >>, accepted |-> 0, room |-> NcRoom, wrShut |-> FALSE,
                peer |-> "open", inbound |-> 0, other |-> << >>, timer |-> FALSE, server |-> "has",
                calls |-> 0, up |-> 0, down |-> 0, raced |-> FALSE, late |-> FALSE, orphan |-> FALSE,
                fault |-> FALSE]

NcQueue(n, f) == [n EXCEPT !.pend = Append(@, f)]
NcFault(n, ok) == [n EXCEPT !.fault = @ \/ ~ok]
NcWatch(n, w) == [n EXCEPT !.watch = w, !.reg = "added"]
NcIds(from, k) == [i \in 1..k |-> from + i]

\* sendInLoop: write at once when nothing is pending, keep the rest, watch for room.
SendInLoop(n, len) ==
  LET direct == "w" \notin n.watch /\ n.out = << >>
      broken == n.wrShut \/ n.peer \in {"reset", "dead"}
      wrote  == IF direct /\ ~broken THEN IF n.room < len THEN n.room ELSE len ELSE 0
      rest   == len - wrote
      kept   == rest > 0 /\ ~(direct /\ broken)
      total  == Len(n.out) + rest
      m == [n EXCEPT !.wire = @ \o NcIds(n.accepted, wrote), !.room = @ - wrote,
                     !.accepted = @ + wrote + (IF kept THEN rest ELSE 0)]
      done == IF direct /\ ~broken /\ rest = 0 THEN NcQueue(m, <<"complete">>) ELSE m
      marked == IF kept /\ total >= NcMark /\ Len(n.out) < NcMark THEN NcQueue(done, <<"mark">>) ELSE done
  IN  CASE n.state = "kDisconnected" -> n
        [] kept -> NcWatch([marked EXCEPT !.out = @ \o NcIds(n.accepted + wrote, rest)], n.watch \cup {"w"})
        [] OTHER -> marked

ShutdownInLoop_Always(n) == [n EXCEPT !.wrShut = TRUE]
ShutdownInLoop(n) == IF "w" \in n.watch THEN n ELSE [n EXCEPT !.wrShut = TRUE]

StartReadInLoop(n) == IF n.reading /\ "r" \in n.watch THEN n
                      ELSE [NcWatch(n, n.watch \cup {"r"}) EXCEPT
                              !.reading = TRUE, !.late = @ \/ n.state = "kDisconnected"]
StopReadInLoop(n) == IF ~n.reading /\ "r" \notin n.watch THEN n
                     ELSE [NcWatch(n, n.watch \ {"r"}) EXCEPT !.reading = FALSE]

\* handleClose up to the connection callback; "closed" is closeCallback_.
HandleClose(n) == [NcWatch(NcFault(n, n.state \in NcOpen), {}) EXCEPT
                     !.state = "kDisconnected", !.down = @ + 1, !.cb = TRUE, !.todo = <<"closed">> \o @]
ForceCloseInLoop_Unchecked(n) == HandleClose(n)
ForceCloseInLoop(n) == IF n.state \in NcOpen THEN HandleClose(n) ELSE n

ConnectEstablished(n) == [NcWatch(NcFault(n, n.state = "kConnecting"), n.watch \cup {"r"}) EXCEPT
                            !.state = "kConnected", !.up = @ + 1, !.cb = TRUE]
RemoveChannel(n) == [NcFault(n, n.watch = {}) EXCEPT !.reg = "removed"]
ConnectDestroyed(n) ==
  IF n.state = "kConnected"
  THEN [NcWatch(n, {}) EXCEPT !.state = "kDisconnected", !.down = @ + 1, !.cb = TRUE, !.todo = <<"remove">> \o @]
  ELSE RemoveChannel(n)

HandleRead(n) ==
  CASE n.inbound > 0      -> [n EXCEPT !.inbound = @ - 1, !.cb = TRUE]
    [] n.inbound = 0 /\ n.peer = "reset" -> [n EXCEPT !.peer = "dead"]
    [] n.inbound = 0 /\ n.peer \in {"closed", "dead"} -> HandleClose(n)
    [] OTHER -> n

NcWritten(n) == IF n.room < Len(n.out) THEN n.room ELSE Len(n.out)
NcWrite(n, k) == [n EXCEPT !.wire = @ \o SubSeq(n.out, 1, k), !.room = @ - k,
                           !.out = SubSeq(n.out, k + 1, Len(n.out))]
HandleWrite_ForgetsShutdown(n) ==
  CASE "w" \notin n.watch \/ n.peer \in {"reset", "dead"} -> n
    [] NcWritten(n) < Len(n.out) -> NcWrite(n, NcWritten(n))
    [] OTHER -> NcQueue(NcWatch(NcWrite(n, NcWritten(n)), n.watch \ {"w"}), <<"complete">>)
HandleWrite(n) ==
  LET k == NcWritten(n)
      flushed == NcQueue(NcWatch(NcWrite(n, k), n.watch \ {"w"}), <<"complete">>)
  IN  CASE "w" \notin n.watch \/ n.peer \in {"reset", "dead"} -> n
        [] k < Len(n.out) -> NcWrite(n, k)
        [] n.state = "kDisconnecting" -> ShutdownInLoop(flushed)
        [] OTHER -> flushed

\* Channel::handleEventWithGuard: the handlers a set of revents calls, in order.
NcRevents == LET hup == nc.peer \in {"reset", "dead"} \/ (nc.peer = "closed" /\ nc.wrShut)
                 pin == "r" \in nc.watch /\ (nc.inbound > 0 \/ nc.peer # "open")
             IN  (IF hup /\ ~pin THEN <<"close">> ELSE << >>)
                   \o (IF nc.peer = "reset" THEN <<"error">> ELSE << >>)
                   \o (IF pin THEN <<"read">> ELSE << >>)
                   \o (IF "w" \in nc.watch /\ (nc.room > 0 \/ hup) THEN <<"write">> ELSE << >>)

-----------------------------------------------------------------------------
\* The loop's thread.
NcIdle == nc.todo = << >>
NcPoll == /\ nc.at = "poll"
          /\ LET events == IF nc.reg = "added" /\ nc.watch # {} THEN NcRevents ELSE << >>
             IN  /\ events # << >> \/ nc.pend # << >>
                 /\ nc' = [nc EXCEPT !.at = "events", !.todo = events]
NcSwap == /\ nc.at = "events" /\ NcIdle
          /\ nc' = [nc EXCEPT !.at = "functors", !.batch = nc.pend, !.pend = << >>, !.cb = FALSE]
NcAgain == /\ nc.at = "functors" /\ NcIdle /\ nc.batch = << >>
           /\ nc' = [nc EXCEPT !.at = "poll", !.cb = FALSE]

NcHandler ==
  /\ ~NcIdle
  /\ LET n == [nc EXCEPT !.todo = Tail(@), !.cb = FALSE]
     IN  nc' = CASE Head(nc.todo) = "close"  -> HandleClose(n)
                 [] Head(nc.todo) = "error"  -> [n EXCEPT !.peer = "dead"]
                 [] Head(nc.todo) = "read"   -> HandleRead(n)
                 [] Head(nc.todo) = "write"  -> HandleWrite(n)
                 [] Head(nc.todo) = "remove" -> RemoveChannel(n)
                 [] Head(nc.todo) = "closed" ->
                      [n EXCEPT !.server = IF @ = "has" THEN "removing" ELSE @,
                                !.orphan = @ \/ n.server = "dead",
                                !.fault = @ \/ n.server \in {"removing", "removed"}]

NcFunctor ==
  /\ nc.at = "functors" /\ NcIdle /\ nc.batch # << >>
  /\ LET n == [nc EXCEPT !.batch = Tail(@), !.cb = FALSE]
         f == Head(nc.batch)
     IN  nc' = CASE f[1] = "send"        -> SendInLoop(n, f[2])
                 [] f[1] = "shutdown"    -> ShutdownInLoop(n)
                 [] f[1] = "force"       -> ForceCloseInLoop(n)
                 [] f[1] = "start"       -> StartReadInLoop(n)
                 [] f[1] = "stop"        -> StopReadInLoop(n)
                 [] f[1] = "established" -> ConnectEstablished(n)
                 [] f[1] = "destroyed"   -> ConnectDestroyed(n)
                 [] f[1] \in {"complete", "mark"} -> [n EXCEPT !.cb = TRUE]

\* A callback in the loop's thread calls the connection.
NcCalled == [nc EXCEPT !.calls = @ + 1]
NcMayCall == nc.cb /\ nc.calls < NcCalls
NcSend(len) == NcMayCall /\ nc.state = "kConnected" /\ nc' = SendInLoop(NcCalled, len)
NcShutdown == NcMayCall /\ nc.state = "kConnected"
              /\ nc' = ShutdownInLoop([NcCalled EXCEPT !.state = "kDisconnecting"])
NcForceClose == NcMayCall /\ nc.state \in NcOpen
                /\ nc' = NcQueue([NcCalled EXCEPT !.state = "kDisconnecting"], <<"force">>)
NcForceCloseWithDelay == NcMayCall /\ nc.state \in NcOpen
                         /\ nc' = [NcCalled EXCEPT !.state = "kDisconnecting", !.timer = TRUE]
NcStartRead == NcMayCall /\ nc' = StartReadInLoop(NcCalled)
NcStopRead == NcMayCall /\ nc' = StopReadInLoop(NcCalled)

\* The timer of forceCloseWithDelay calls forceClose if the connection still lives.
NcTimer == /\ nc.timer /\ nc.at = "events" /\ NcIdle
           /\ nc' = IF nc.state \in NcOpen
                    THEN NcQueue([nc EXCEPT !.timer = FALSE, !.state = "kDisconnecting"], <<"force">>)
                    ELSE [nc EXCEPT !.timer = FALSE]

\* The other thread: test of state_, store, queue.
NcOtherTest(f) ==
  /\ nc.up > 0 /\ nc.other = << >> /\ nc.calls < NcCalls
  /\ f[1] \in {"send", "shutdown"} => nc.state = "kConnected"
  /\ f[1] = "force" => nc.state \in NcOpen
  /\ nc' = [NcCalled EXCEPT !.other = IF f[1] \in {"shutdown", "force"} THEN <<"store", f>> ELSE <<"queue", f>>]
NcOtherStore == /\ nc.other # << >> /\ nc.other[1] = "store"
                /\ nc' = [nc EXCEPT !.other[1] = "queue", !.state = "kDisconnecting",
                                    !.raced = @ \/ nc.state \notin NcOpen]
NcOtherQueue == /\ nc.other # << >> /\ nc.other[1] = "queue"
                /\ nc' = [NcQueue(nc, nc.other[2]) EXCEPT !.other = << >>]

\* The server: removeConnectionInLoop, or its destructor.
NcServerRemoves == /\ nc.server = "removing"
                   /\ nc' = [NcQueue(nc, <<"destroyed">>) EXCEPT !.server = "removed"]
NcServerDies == /\ nc.server = "has" /\ nc.up > 0
                /\ nc' = [NcQueue(nc, <<"destroyed">>) EXCEPT !.server = "dead"]

\* The peer reads what is in flight, sends, closes or resets.
NcPeerReads == nc.room < NcRoom /\ nc.peer = "open" /\ nc' = [nc EXCEPT !.room = NcRoom]
NcPeerSends == nc.inbound = 0 /\ nc.peer = "open" /\ nc.calls < NcCalls /\ nc' = [NcCalled EXCEPT !.inbound = 1]
NcPeerCloses == nc.peer = "open" /\ nc' = [nc EXCEPT !.peer = "closed"]
NcPeerResets == nc.peer \in {"open", "closed"} /\ nc' = [nc EXCEPT !.peer = "reset", !.inbound = 0]

NcMessages == {<<"send", k>> : k \in NcSizes} \cup {<<"shutdown">>, <<"force">>, <<"start">>, <<"stop">>}

NcNext == \/ NcPoll \/ NcSwap \/ NcAgain \/ NcHandler \/ NcFunctor \/ NcTimer
          \/ \E k \in NcSizes : NcSend(k)
          \/ NcShutdown \/ NcForceClose \/ NcForceCloseWithDelay \/ NcStartRead \/ NcStopRead
          \/ \E f \in NcMessages : NcOtherTest(f)
          \/ NcOtherStore \/ NcOtherQueue \/ NcServerRemoves \/ NcServerDies
          \/ NcPeerReads \/ NcPeerSends \/ NcPeerCloses \/ NcPeerResets

\* What reached the kernel and what is buffered are the accepted bytes in order, nothing
\* is half-closed with bytes still buffered while it is open, and buffered bytes are watched for.
NcStream == /\ nc.wire \o nc.out = NcIds(0, nc.accepted)
            /\ nc.wrShut /\ nc.state \in NcOpen => nc.out = << >>
            /\ nc.out # << >> /\ nc.state \in NcOpen => "w" \in nc.watch

\* Up once, then down once, before the Channel is removed; no assertion fails.
NcLife == /\ ~nc.fault
          /\ nc.up <= 1 /\ nc.down <= nc.up
          /\ nc.state = "kDisconnected" <=> nc.down = 1
          /\ nc.reg = "removed" => nc.down = 1
          /\ nc.state = "kConnected" => (nc.reading <=> "r" \in nc.watch)

\* A shutdown that ran and was not overtaken by a close has half-closed the socket,
\* or the flush that will is still watched for.
NcShutdownKept == /\ nc.state = "kDisconnecting" /\ nc.other = << >> /\ ~nc.timer
                  /\ NcIdle /\ nc.batch = << >> /\ nc.pend = << >>
                  => nc.wrShut \/ nc.out # << >>

(* The connection keeps its stream, its life cycle and its shutdown through every *)
(* order of events, functors, calls of two threads and the peer's close or reset. *)
(* Excepted are a store of kDisconnecting that raced with a close (the FIXME in   *)
(* shutdown and forceClose), a startRead after the close, which registers the     *)
(* Channel again, and a server destroyed under a connection that is closing.      *)
ConnectionSound ==
  ~nc.raced /\ ~nc.late => /\ NcStream
                           /\ nc.server # "dead" => NcLife /\ NcShutdownKept
=============================================================================
