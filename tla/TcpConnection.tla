---------------------------- MODULE TcpConnection ----------------------------
(***************************************************************************)
(* One TcpConnection (TcpConnection.cc) with its Channel (Channel.cc), the *)
(* thread of its EventLoop, the kernel's socket, the peer, the owning      *)
(* TcpServer, and other threads of the application that hold a pointer to  *)
(* the connection.  A handler that calls back into the application is      *)
(* split there, since the application may send or shut down inside the     *)
(* callback; todo is what is left of the handlers and functors in hand.    *)
(* sendInLoop is split between its write and its append, since a thread    *)
(* that is not the loop's also runs it.  Any LOG_ERROR, like a SIGPIPE,    *)
(* ends the process: exited then names the place.                          *)
(***************************************************************************)
EXTENDS Naturals, Sequences

CONSTANTS
  SndBuf,         \* size of the kernel's send buffer
  Sizes,          \* lengths of the strings given to send()
  MaxMsgs,        \* bound on the calls of send()
  highWaterMark_,
  PeerMay,        \* what the peer may do: "data", "fin", "reset", "urgent"
  Polite,         \* the application sends only while connected()
  ServerMayDie,   \* ~TcpServer may run while the loops still do
  Workers,        \* the other threads of the application
  WorkerMay,      \* what they may do: "send", "shutdown"
  IOThread        \* the thread of the loop

ASSUME ConnectionAssumption ==
  /\ SndBuf \in Nat \ {0}
  /\ Sizes \subseteq Nat \ {0}
  /\ MaxMsgs \in Nat
  /\ highWaterMark_ \in Nat
  /\ {Polite, ServerMayDie} \subseteq BOOLEAN
  /\ IOThread \notin Workers

VARIABLES
  state_, outputBuffer_,            \* TcpConnection
  events_, index_,                  \* its Channel
  phase, todo, pendingFunctors_,    \* the thread of the loop
  inFlight,                         \* what sendInLoop has still to append, by thread
  wpc,                              \* where a worker is in shutdown()
  room, rcv, urgent,                \* socket: send space, unread data, urgent data
  peerFin, wrShut, reset, sockErr,  \* socket: both FINs, an RST, its pending error
  server,                           \* the TcpServer and its connections_
  exited,                           \* why the process ended, or "no"
  msgs, sent, wire,                 \* calls of send, their bytes, the bytes written
  rude,                             \* history: a send was accepted while not kConnected
  ups, downs, lastRead              \* connectionCallback_ calls, last result of readFd

connVars == <<state_, outputBuffer_, events_, index_>>
loopVars == <<phase, todo, pendingFunctors_>>
sockVars == <<room, rcv, urgent, peerFin, wrShut, reset, sockErr>>
sendVars == <<inFlight, msgs, rude, sent, wire>>
seenVars == <<ups, downs, lastRead>>
vars == <<connVars, loopVars, sockVars, sendVars, seenVars, wpc, server, exited>>

States == {"kConnecting", "kConnected", "kDisconnecting", "kDisconnected"}
kRead == "read"
kWrite == "write"

Init ==
  /\ state_ = "kConnecting" /\ outputBuffer_ = <<>>
  /\ events_ = {} /\ index_ = "kNew"
  /\ phase = "poll" /\ todo = <<>>
  /\ pendingFunctors_ = <<"connectEstablished">>
  /\ inFlight = [t \in Workers \cup {IOThread} |-> <<>>]
  /\ wpc = [w \in Workers |-> "idle"]
  /\ room = SndBuf /\ rcv = FALSE /\ urgent = FALSE
  /\ peerFin = FALSE /\ wrShut = FALSE /\ reset = FALSE /\ sockErr = FALSE
  /\ server = "alive" /\ exited = "no"
  /\ msgs = 0 /\ rude = FALSE /\ sent = <<>> /\ wire = <<>>
  /\ ups = 0 /\ downs = 0 /\ lastRead = "none"

-----------------------------------------------------------------------------
(* The Channel, and the steps of the loop's thread.                        *)

isWriting == kWrite \in events_

\* Channel::update and EPollPoller::updateChannel, as checked in EPollPoller.
update(interest) ==
  /\ events_' = interest
  /\ index_' = IF index_ = "kAdded" /\ interest = {} THEN "kDeleted" ELSE "kAdded"

\* Mutant: reading and writing are watched from the start.
enableReading_All == update({kRead, kWrite})

enableReading == update(events_ \cup {kRead})
enableWriting == update(events_ \cup {kWrite})

\* `events_ &= kWriteEvent'
disableWriting == update(events_ \cap {kWrite})

disableAll == update({})

\* LOG_ERROR, or a signal, ends the process.
exit(why) ==
  /\ exited' = why
  /\ UNCHANGED <<connVars, loopVars, sockVars, sendVars, seenVars, wpc, server>>

At(op) == exited = "no" /\ todo # <<>> /\ Head(todo) = op
Then(ops) == todo' = ops \o Tail(todo)

InCallback == At("app") \/ At("messageCallback_")

queueInLoop(functors) == pendingFunctors_' = pendingFunctors_ \o functors

-----------------------------------------------------------------------------
(* Sending.                                                                *)

\* The socket refuses everything: EPIPE, ECONNRESET, or SIGPIPE.
WriteFails == wrShut \/ reset

Smaller(a, b) == IF a < b THEN a ELSE b

Message(len) == [k \in 1 .. len |-> <<msgs + 1, k>>]

\* Mutant: a short write is taken for a whole one.
sendInLoop_ShortWrite(t, data, msg) ==
  LET direct == ~isWriting /\ outputBuffer_ = <<>>
      nwrote == IF direct THEN Len(data) ELSE 0
  IN
  /\ wire' = wire \o SubSeq(data, 1, nwrote)
  /\ room' = room - nwrote
  /\ sent' = sent \o msg
  /\ inFlight' = [inFlight EXCEPT ![t] = SubSeq(data, nwrote + 1, Len(data))]
  /\ queueInLoop(IF direct THEN <<"writeCompleteCallback_">> ELSE <<>>)

\* Mutant: the write is tried although earlier bytes are still buffered.
sendInLoop_Overtakes(t, data, msg) ==
  LET nwrote == Smaller(Len(data), room) IN
  /\ wire' = wire \o SubSeq(data, 1, nwrote)
  /\ room' = room - nwrote
  /\ sent' = sent \o msg
  /\ inFlight' = [inFlight EXCEPT ![t] = SubSeq(data, nwrote + 1, Len(data))]
  /\ queueInLoop(IF nwrote = Len(data) THEN <<"writeCompleteCallback_">> ELSE <<>>)

\* sendInLoop up to the write: data are the bytes behind the pointer it is given,
\* the bytes that send() was called with are msg.  The rest is in flight.
sendInLoop(t, data, msg) ==
  LET direct == ~isWriting /\ outputBuffer_ = <<>>
      nwrote == IF direct THEN Smaller(Len(data), room) ELSE 0
      done == direct /\ nwrote = Len(data)
  IN
  /\ wire' = wire \o SubSeq(data, 1, nwrote)
  /\ room' = room - nwrote
  /\ sent' = sent \o msg
  /\ inFlight' = [inFlight EXCEPT ![t] = SubSeq(data, nwrote + 1, Len(data))]
  /\ queueInLoop(IF done THEN <<"writeCompleteCallback_">> ELSE <<>>)

sendInLoopExits ==
  \/ state_ = "kDisconnected" /\ exit("send when disconnected")
  \/ /\ state_ # "kDisconnected" /\ ~isWriting /\ outputBuffer_ = <<>> /\ WriteFails
     /\ exit("write error")

sendInLoopGoesOn ==
  /\ state_ # "kDisconnected"
  /\ ~(~isWriting /\ outputBuffer_ = <<>> /\ WriteFails)

\* Mutant: the rest is appended but writing is not watched.
sendInLoopAppend_NotWatched(t) ==
  /\ outputBuffer_' = outputBuffer_ \o inFlight[t]
  /\ inFlight' = [inFlight EXCEPT ![t] = <<>>]
  /\ UNCHANGED <<events_, index_, pendingFunctors_>>

\* sendInLoop from the high-water-mark test on.
sendInLoopAppend(t) ==
  LET oldLen == Len(outputBuffer_)
      newLen == oldLen + Len(inFlight[t])
      crossed == newLen >= highWaterMark_ /\ oldLen < highWaterMark_
  IN
  /\ queueInLoop(IF crossed THEN <<"highWaterMarkCallback_">> ELSE <<>>)
  /\ outputBuffer_' = outputBuffer_ \o inFlight[t]
  /\ IF isWriting THEN UNCHANGED <<events_, index_>> ELSE enableWriting
  /\ inFlight' = [inFlight EXCEPT ![t] = <<>>]

MaySend == msgs < MaxMsgs /\ (Polite => state_ = "kConnected")

\* send() in the loop's thread: either branch of send() runs sendInLoop at once.
send(len) ==
  /\ InCallback
  /\ MaySend
  /\ sendInLoopGoesOn
  /\ sendInLoop(IOThread, Message(len), Message(len))
  /\ msgs' = msgs + 1
  /\ rude' = (rude \/ state_ # "kConnected")
  /\ todo' = IF inFlight'[IOThread] = <<>> THEN todo ELSE <<"append">> \o todo
  /\ UNCHANGED <<connVars, phase, rcv, urgent, peerFin, wrShut, reset, sockErr,
                 seenVars, wpc, server, exited>>

sendExits ==
  /\ InCallback
  /\ MaySend
  /\ sendInLoopExits

append ==
  /\ At("append")
  /\ sendInLoopAppend(IOThread)
  /\ Then(<<>>)
  /\ UNCHANGED <<state_, phase, sockVars, msgs, rude, sent, wire, seenVars, wpc, server, exited>>

-----------------------------------------------------------------------------
(* Closing.                                                                *)

\* Mutant: the write side is closed with bytes still buffered.
shutdownInLoop_Eager(interest) == TRUE

\* Mutant: the test is the wrong way round.
shutdownInLoop_Inverted(interest) == kWrite \in interest

\* The test of shutdownInLoop, given the interest of the Channel at that time.
shutdownInLoop(interest) == kWrite \notin interest

\* socket_->shutdownWrite(): ENOTCONN after an RST, and after both FINs once the
\* peer has acknowledged ours.
shutdownWrite(when) ==
  \/ when /\ (reset \/ (wrShut /\ peerFin))
     /\ exited' = "shutdownWrite error" /\ UNCHANGED wrShut
  \/ ~(when /\ reset)
     /\ wrShut' = (wrShut \/ when) /\ UNCHANGED exited

\* shutdown() in the loop's thread; unless connected it does nothing.
shutdown ==
  /\ InCallback
  /\ state_ = "kConnected"
  /\ state_' = "kDisconnecting"
  /\ shutdownWrite(shutdownInLoop(events_))
  /\ UNCHANGED <<outputBuffer_, events_, index_, loopVars, room, rcv, urgent, peerFin,
                 reset, sockErr, sendVars, seenVars, wpc, server>>

\* The functor that shutdown() queues from another thread.
shutdownFunctor ==
  /\ At("shutdownInLoop")
  /\ shutdownWrite(shutdownInLoop(events_))
  /\ Then(<<>>)
  /\ UNCHANGED <<connVars, phase, pendingFunctors_, room, rcv, urgent, peerFin,
                 reset, sockErr, sendVars, seenVars, wpc, server>>

\* The body of handleClose: the application hears of it, then the TcpServer.
goDown ==
  /\ state_' = "kDisconnected"
  /\ disableAll
  /\ downs' = downs + 1
  /\ Then(<<"app", "closeCallback_">>)
  /\ UNCHANGED <<outputBuffer_, phase, pendingFunctors_, sendVars, ups, wpc, server, exited>>

handleClose ==
  /\ At("handleClose")
  /\ goDown
  /\ UNCHANGED <<sockVars, lastRead>>

\* TcpServer::removeConnection; the lambda has the raw pointer of the server.
closeCallback_ ==
  /\ At("closeCallback_")
  /\ server # "gone"
  /\ server' = "removing"
  /\ Then(<<>>)
  /\ UNCHANGED <<connVars, phase, pendingFunctors_, sockVars, sendVars, seenVars, wpc, exited>>

\* Undefined in the code: the server's memory is freed.  The model ends there.
closeCallbackDangles ==
  /\ At("closeCallback_")
  /\ server = "gone"
  /\ exit("closeCallback of a destroyed server")

\* Mutant: reading is not enabled.
connectEstablished_Deaf ==
  /\ At("connectEstablished")
  /\ state_' = "kConnected"
  /\ ups' = ups + 1
  /\ Then(<<"app">>)
  /\ UNCHANGED <<outputBuffer_, events_, index_, phase, pendingFunctors_, sockVars, sendVars,
                 downs, lastRead, wpc, server, exited>>

connectEstablished ==
  /\ At("connectEstablished")
  /\ state_' = "kConnected"
  /\ enableReading
  /\ ups' = ups + 1
  /\ Then(<<"app">>)
  /\ UNCHANGED <<outputBuffer_, phase, pendingFunctors_, sockVars, sendVars, downs, lastRead,
                 wpc, server, exited>>

\* Mutant: the state is not tested.
connectDestroyed_Untested ==
  /\ At("connectDestroyed")
  /\ state_' = "kDisconnecting"
  /\ disableAll
  /\ downs' = downs + 1
  /\ Then(<<"app", "remove">>)
  /\ UNCHANGED <<outputBuffer_, phase, pendingFunctors_, sockVars, sendVars, ups, lastRead,
                 wpc, server, exited>>

connectDestroyed ==
  /\ At("connectDestroyed")
  /\ IF state_ = "kConnected"
     THEN /\ state_' = "kDisconnecting"
          /\ disableAll
          /\ downs' = downs + 1
          /\ Then(<<"app", "remove">>)
     ELSE /\ Then(<<"remove">>)
          /\ UNCHANGED <<state_, events_, index_, downs>>
  /\ UNCHANGED <<outputBuffer_, phase, pendingFunctors_, sockVars, sendVars, ups, lastRead,
                 wpc, server, exited>>

remove ==
  /\ At("remove")
  /\ index_' = "kNew"
  /\ Then(<<>>)
  /\ UNCHANGED <<state_, outputBuffer_, events_, phase, pendingFunctors_, sockVars, sendVars,
                 seenVars, wpc, server, exited>>

-----------------------------------------------------------------------------
(* The Channel's events.                                                   *)

\* What readv gives: the unread data, then the end of the stream, then the error
\* of the socket; urgent data alone is not readable (EAGAIN).
readFd ==
  IF rcv THEN "data"
  ELSE IF peerFin \/ (reset /\ ~sockErr) THEN "eof"
  ELSE "error"

\* n is a size_t: -1 is greater than 0.
handleRead ==
  /\ At("handleRead")
  /\ lastRead' = readFd
  /\ rcv' = FALSE
  /\ sockErr' = (sockErr /\ readFd # "error")
  /\ IF readFd = "eof"
     THEN goDown
     ELSE /\ Then(<<"messageCallback_">>)
          /\ UNCHANGED <<connVars, phase, pendingFunctors_, sendVars, ups, downs, wpc,
                         server, exited>>
  /\ UNCHANGED <<room, urgent, peerFin, wrShut, reset>>

handleWriteFlush ==
  LET n == Smaller(Len(outputBuffer_), room)
      left == SubSeq(outputBuffer_, n + 1, Len(outputBuffer_))
  IN
  /\ At("handleWrite") /\ isWriting /\ ~WriteFails
  /\ n > 0 /\ left = <<>>
  /\ wire' = wire \o outputBuffer_
  /\ room' = room - n
  /\ outputBuffer_' = <<>>
  /\ disableWriting
  /\ queueInLoop(<<"writeCompleteCallback_">>)
  /\ shutdownWrite(state_ = "kDisconnecting" /\ shutdownInLoop(events_'))
  /\ Then(<<>>)
  /\ UNCHANGED <<state_, phase, rcv, urgent, peerFin, reset, sockErr, inFlight, msgs, rude, sent,
                 seenVars, wpc, server>>

\* Nothing was written: an empty buffer, no room, or an error, which is ignored.
handleWriteNothing ==
  /\ At("handleWrite") /\ isWriting
  /\ IF WriteFails THEN sockErr ELSE outputBuffer_ = <<>> \/ room = 0
  /\ sockErr' = FALSE
  /\ Then(<<>>)
  /\ UNCHANGED <<connVars, phase, pendingFunctors_, room, rcv, urgent, peerFin, wrShut, reset,
                 sendVars, seenVars, wpc, server, exited>>

handleWriteExits ==
  /\ At("handleWrite")
  /\ \/ ~isWriting /\ exit("not writing")
     \/ isWriting /\ WriteFails /\ ~sockErr /\ exit("SIGPIPE")
     \/ /\ isWriting /\ ~WriteFails /\ 0 < room /\ room < Len(outputBuffer_)
        /\ exit("partial flush")

handleError ==
  /\ At("handleError")
  /\ exit("handleError")

\* A queued callback of the application starts.
userFunctor ==
  /\ At("writeCompleteCallback_") \/ At("highWaterMarkCallback_")
  /\ Then(<<"app">>)
  /\ UNCHANGED <<connVars, phase, pendingFunctors_, sockVars, sendVars, seenVars, wpc,
                 server, exited>>

callbackReturns ==
  /\ InCallback
  /\ Then(<<>>)
  /\ UNCHANGED <<connVars, phase, pendingFunctors_, sockVars, sendVars, seenVars, wpc,
                 server, exited>>

-----------------------------------------------------------------------------
(* The loop.                                                               *)

\* What the kernel could report (EPOLLIN and so on).
Ready ==
  (IF rcv \/ peerFin \/ reset THEN {"IN"} ELSE {})
    \cup (IF urgent THEN {"PRI"} ELSE {})
    \cup (IF room > 0 \/ wrShut \/ reset THEN {"OUT"} ELSE {})
    \cup (IF sockErr THEN {"ERR"} ELSE {})
    \cup (IF reset \/ (peerFin /\ wrShut) THEN {"HUP"} ELSE {})

\* What epoll_wait reports: the interest, and always errors and hang-ups.
revents_ ==
  IF index_ # "kAdded" THEN {}
  ELSE Ready \cap ({"ERR", "HUP"}
                     \cup (IF kRead \in events_ THEN {"IN", "PRI"} ELSE {})
                     \cup (IF kWrite \in events_ THEN {"OUT"} ELSE {}))

\* The callbacks that Channel::handleEventWithGuard makes, in its order.
handleEventWithGuard(revents) ==
  (IF "HUP" \in revents /\ "IN" \notin revents THEN <<"handleClose">> ELSE <<>>)
    \o (IF "ERR" \in revents THEN <<"handleError">> ELSE <<>>)
    \o (IF revents \cap {"IN", "PRI"} # {} THEN <<"handleRead">> ELSE <<>>)
    \o (IF "OUT" \in revents THEN <<"handleWrite">> ELSE <<>>)

\* The last reference is gone: ~TcpConnection has run and the socket is closed.
Destructed ==
  /\ server \in {"erased", "gone"}
  /\ todo = <<>> /\ pendingFunctors_ = <<>> /\ Workers = {}

poll ==
  /\ exited = "no" /\ phase = "poll" /\ ~Destructed
  /\ revents_ # {} \/ pendingFunctors_ # <<>>
  /\ todo' = handleEventWithGuard(revents_)
  /\ phase' = "dispatch"
  /\ UNCHANGED <<connVars, pendingFunctors_, sockVars, sendVars, seenVars, wpc, server, exited>>

doPendingFunctors ==
  /\ exited = "no" /\ phase = "dispatch" /\ todo = <<>>
  /\ todo' = pendingFunctors_
  /\ pendingFunctors_' = <<>>
  /\ phase' = "functors"
  /\ UNCHANGED <<connVars, sockVars, sendVars, seenVars, wpc, server, exited>>

nextIteration ==
  /\ exited = "no" /\ phase = "functors" /\ todo = <<>>
  /\ phase' = "poll"
  /\ UNCHANGED <<connVars, todo, pendingFunctors_, sockVars, sendVars, seenVars, wpc, server,
                 exited>>

-----------------------------------------------------------------------------
(* The peer and the kernel.                                                *)

PeerMoves == exited = "no" /\ ~Destructed /\ ~reset
othersUnchanged == <<connVars, loopVars, sendVars, seenVars, wpc, server, exited>>

peerReads ==
  /\ PeerMoves /\ room < SndBuf
  /\ room' = room + 1
  /\ UNCHANGED <<othersUnchanged, rcv, urgent, peerFin, wrShut, reset, sockErr>>

peerSends ==
  /\ PeerMoves /\ ~peerFin
  /\ \/ "data" \in PeerMay /\ rcv' = TRUE /\ UNCHANGED urgent
     \/ "urgent" \in PeerMay /\ urgent' = TRUE /\ UNCHANGED rcv
  /\ UNCHANGED <<othersUnchanged, room, peerFin, wrShut, reset, sockErr>>

peerCloses ==
  /\ PeerMoves /\ ~peerFin
  /\ "fin" \in PeerMay
  /\ peerFin' = TRUE
  /\ UNCHANGED <<othersUnchanged, room, rcv, urgent, wrShut, reset, sockErr>>

peerResets ==
  /\ PeerMoves
  /\ "reset" \in PeerMay
  /\ reset' = TRUE /\ sockErr' = TRUE
  /\ UNCHANGED <<othersUnchanged, room, rcv, urgent, peerFin, wrShut>>

-----------------------------------------------------------------------------
(* The TcpServer, in the thread of its own loop.                           *)

\* Mutant: the connection is erased and not destroyed.
removeConnectionInLoop_ErasesOnly ==
  /\ exited = "no" /\ server = "removing"
  /\ server' = "erased"
  /\ UNCHANGED <<connVars, loopVars, sockVars, sendVars, seenVars, wpc, exited>>

\* TcpServer::removeConnectionInLoop
removeConnectionInLoop ==
  /\ exited = "no" /\ server = "removing"
  /\ server' = "erased"
  /\ queueInLoop(<<"connectDestroyed">>)
  /\ UNCHANGED <<connVars, phase, todo, sockVars, sendVars, seenVars, wpc, exited>>

\* TcpServer::~TcpServer while the connection is in connections_.
serverDestroyed ==
  /\ ServerMayDie
  /\ exited = "no" /\ server \in {"alive", "removing"}
  /\ server' = "gone"
  /\ queueInLoop(<<"connectDestroyed">>)
  /\ UNCHANGED <<connVars, phase, todo, sockVars, sendVars, seenVars, wpc, exited>>

-----------------------------------------------------------------------------
(* The other threads, which got the pointer from connectionCallback_.      *)

Idle(w) == exited = "no" /\ ups > 0 /\ wpc[w] = "idle" /\ inFlight[w] = <<>>

\* send() while connected runs sendInLoop in the caller's thread.
workerSend(w, len) ==
  /\ Idle(w) /\ "send" \in WorkerMay /\ MaySend
  /\ state_ = "kConnected"
  /\ \/ sendInLoopExits
     \/ /\ sendInLoopGoesOn
        /\ sendInLoop(w, Message(len), Message(len))
        /\ msgs' = msgs + 1 /\ UNCHANGED rude
        /\ UNCHANGED <<connVars, phase, todo, rcv, urgent, peerFin, wrShut, reset, sockErr,
                       seenVars, wpc, server, exited>>

workerAppend(w) ==
  /\ exited = "no" /\ inFlight[w] # <<>>
  /\ sendInLoopAppend(w)
  /\ UNCHANGED <<state_, phase, todo, sockVars, msgs, rude, sent, wire, seenVars, wpc, server, exited>>

\* shutdown() tests state_, then sets it, then queues.
workerShutdown(w) ==
  /\ Idle(w) /\ "shutdown" \in WorkerMay
  /\ state_ = "kConnected"
  /\ wpc' = [wpc EXCEPT ![w] = "setState"]
  /\ UNCHANGED <<connVars, loopVars, sockVars, sendVars, seenVars, server, exited>>

workerSetState(w) ==
  /\ exited = "no" /\ wpc[w] = "setState"
  /\ state_' = "kDisconnecting"
  /\ wpc' = [wpc EXCEPT ![w] = "queue"]
  /\ UNCHANGED <<outputBuffer_, events_, index_, loopVars, sockVars, sendVars, seenVars,
                 server, exited>>

workerQueues(w) ==
  /\ exited = "no" /\ wpc[w] = "queue"
  /\ queueInLoop(<<"shutdownInLoop">>)
  /\ wpc' = [wpc EXCEPT ![w] = "idle"]
  /\ UNCHANGED <<connVars, phase, todo, sockVars, sendVars, seenVars, server, exited>>

-----------------------------------------------------------------------------

Handler ==
  \/ handleRead \/ handleWriteFlush \/ handleWriteNothing \/ handleWriteExits
  \/ handleClose \/ handleError \/ closeCallback_ \/ closeCallbackDangles
  \/ connectEstablished \/ connectDestroyed \/ remove \/ shutdownFunctor
  \/ append \/ userFunctor

IOLoop ==
  \/ Handler
  \/ poll \/ doPendingFunctors \/ nextIteration
  \/ callbackReturns

Worker(w) ==
  workerSetState(w) \/ workerQueues(w)

Next ==
  \/ IOLoop
  \/ \E len \in Sizes : send(len)
  \/ sendExits
  \/ shutdown
  \/ \E w \in Workers : Worker(w) \/ workerShutdown(w)
  \/ removeConnectionInLoop \/ serverDestroyed
  \/ peerReads \/ peerSends \/ peerCloses \/ peerResets

\* The loop's thread and the workers run, the loop of the server too, and the
\* peer keeps reading.  A callback returns: IOLoop holds its return, and what it
\* may do before is bounded.
Fairness ==
  /\ WF_vars(IOLoop)
  /\ WF_vars(removeConnectionInLoop)
  /\ WF_vars(peerReads)
  /\ \A w \in Workers : WF_vars(Worker(w))

SafeSpec == Init /\ [][Next]_vars
Spec == SafeSpec /\ Fairness

\* With workers that send.  Appending to outputBuffer_ is a data race with the loop;
\* the model keeps only the interleavings of whole appends.
NextWithSenders ==
  \/ Next
  \/ \E w \in Workers : workerAppend(w) \/ \E len \in Sizes : workerSend(w, len)
SendersSpec == Init /\ [][NextWithSenders]_vars

-----------------------------------------------------------------------------
(* Properties.                                                             *)

Bytes == Nat \X Nat

\* What the thread of the loop may have in hand.
Ops == {"connectEstablished", "connectDestroyed", "remove", "shutdownInLoop", "append",
        "handleRead", "handleWrite", "handleClose", "handleError", "closeCallback_",
        "messageCallback_", "writeCompleteCallback_", "highWaterMarkCallback_", "app"}

\* The places where the process may end.
Exits == {"send when disconnected", "write error", "shutdownWrite error", "not writing", "SIGPIPE",
          "partial flush", "handleError", "closeCallback of a destroyed server"}

TypeOK ==
  /\ state_ \in States
  /\ outputBuffer_ \in Seq(Bytes)
  /\ events_ \subseteq {kRead, kWrite}
  /\ index_ \in {"kNew", "kAdded", "kDeleted"}
  /\ phase \in {"poll", "dispatch", "functors"}
  /\ todo \in Seq(Ops) /\ pendingFunctors_ \in Seq(Ops)
  /\ inFlight \in [Workers \cup {IOThread} -> Seq(Bytes)]
  /\ wpc \in [Workers -> {"idle", "setState", "queue"}]
  /\ room \in 0 .. SndBuf
  /\ rcv \in BOOLEAN /\ urgent \in BOOLEAN /\ peerFin \in BOOLEAN
  /\ wrShut \in BOOLEAN /\ reset \in BOOLEAN /\ sockErr \in BOOLEAN
  /\ server \in {"alive", "removing", "erased", "gone"}
  /\ exited \in Exits \cup {"no"}
  /\ msgs \in Nat /\ rude \in BOOLEAN /\ sent \in Seq(Bytes) /\ wire \in Seq(Bytes)
  /\ ups \in Nat /\ downs \in Nat
  /\ lastRead \in {"none", "data", "eof", "error"}

\* The inductive invariants behind the four properties below.  First, the bytes given
\* to send() are on the wire, buffered or in flight; in flight means that sendInLoop's
\* append comes next.
StreamInv ==
  /\ phase = "poll" => todo = <<>>
  /\ sent = (wire \o outputBuffer_) \o inFlight[IOThread]
  /\ inFlight[IOThread] # <<>> => todo # <<>>
  /\ \A i \in DOMAIN todo : todo[i] = "append" <=> i = 1 /\ inFlight[IOThread] # <<>>
  /\ \A i \in DOMAIN pendingFunctors_ : pendingFunctors_[i] # "append"

\* Until the connection is down, buffered bytes are watched and the write side is
\* closed only with nothing left; only a server that lets go has the Channel removed.
WatchInv ==
  /\ outputBuffer_ # <<>> /\ downs = 0 => isWriting
  /\ wrShut /\ downs = 0 => ~isWriting /\ outputBuffer_ = <<>> /\ inFlight[IOThread] = <<>>
  /\ server = "alive" =>
       /\ events_ # {} /\ downs = 0 => index_ = "kAdded"
       /\ \A i \in DOMAIN todo : todo[i] \notin {"connectDestroyed", "remove"}
       /\ \A i \in DOMAIN pendingFunctors_ : pendingFunctors_[i] \notin {"connectDestroyed", "remove"}

\* The handlers that may bring the connection down, and what follows a read.
Reading == {"handleRead", "handleClose", "messageCallback_"}

\* The life of a connection, for an application that sends only while it is up:
\* connectEstablished comes first and once; one of Reading is in hand only while the
\* connection is up, and before anything that could bring it down another way; once
\* it is down its Channel watches nothing and the kernel does not report it again.
UpThenDown ==
  /\ downs <= ups /\ ups <= 1
  /\ state_ = "kConnecting" <=> ups = 0
  /\ ups = 0 => /\ index_ = "kNew"
                /\ IF todo = <<>>
                   THEN pendingFunctors_ # <<>> /\ pendingFunctors_[1] = "connectEstablished"
                   ELSE todo[1] = "connectEstablished" /\ \A i \in DOMAIN todo : todo[i] # "remove"
  /\ \A i \in DOMAIN todo : todo[i] = "connectEstablished" => i = 1 /\ ups = 0
  /\ \A i \in DOMAIN pendingFunctors_ :
       pendingFunctors_[i] = "connectEstablished" => i = 1 /\ ups = 0 /\ todo = <<>>
  /\ state_ = "kConnected" => /\ downs = 0 /\ index_ = "kAdded"
                              /\ \A i \in DOMAIN todo : todo[i] # "remove"
  /\ downs > 0 => index_ # "kAdded" /\ events_ = {}
  /\ \A i \in DOMAIN todo :
       /\ todo[i] \in Reading \cup {"append"} => ups = 1 /\ downs = 0 /\ index_ = "kAdded"
       /\ todo[i] \in Reading =>
            /\ \A j \in 1 .. i - 1 : todo[j] \in {"append", "handleError"}
            /\ \A j \in DOMAIN todo : todo[j] \in Reading => j = i
  /\ \A i \in DOMAIN pendingFunctors_ : pendingFunctors_[i] \notin Reading \cup {"remove"}

LifeInv == (\A w \in Workers : wpc[w] # "idle" => ups > 0) /\ (~rude => UpThenDown)

ConnInv == TypeOK /\ StreamInv /\ WatchInv /\ LifeInv

\* What is written, then what is buffered, is what send() was given, in order,
\* with nothing lost, repeated or swapped (the pipeline rule of TcpConnection.cc:165),
\* although some bytes go straight to the socket and others through the buffer.
StreamInOrder ==
  LET done == wire \o outputBuffer_ IN
  Len(done) <= Len(sent) /\ done = SubSeq(sent, 1, Len(done))

\* Until the connection is down its write side is closed only when every byte given
\* to send() is written, whichever thread asks for the shutdown and when.
NoTruncation == wrShut /\ downs = 0 => wire = sent

\* While the TcpServer keeps the connection, bytes in the output buffer have their Channel
\* registered for writing: no other event would get them sent.
PendingIsWatched ==
  outputBuffer_ # <<>> /\ server = "alive" /\ downs = 0 =>
    isWriting /\ index_ = "kAdded"

\* If the application sends only while the connection is up, connectionCallback_ is
\* called once for up and at most once for down, whatever way the connection ends,
\* and no message is delivered before or after.
CallbacksInOrder ==
  ~rude => /\ downs <= ups /\ ups <= 1
           /\ At("messageCallback_") => ups = 1 /\ downs = 0

\* An application that sends only while connected, to a peer that reads and never
\* resets, over a socket that always has room, makes the process exit in one way
\* only: two threads shut down at once and the peer has closed by the second
\* shutdownWrite.
OnlyRacingShutdownsExit ==
  exited # "no" => exited = "shutdownWrite error" /\ Workers # {} /\ wrShut /\ peerFin

\* A shutdown(), from any thread, ends in a half-closed or closed connection
\* (TcpConnection.cc:250: close once the buffered data is sent).
ShutdownCompletes ==
  (state_ = "kDisconnecting") ~> (wrShut \/ state_ = "kDisconnected" \/ exited # "no")

\* A peer that closes is noticed: the application hears that the connection is down.
PeerCloseNoticed == peerFin ~> (downs > 0 \/ exited # "no")

\* A connection that is down gets its Channel removed from the poller, through the
\* server's loop and back.
ClosedIsRemoved == (downs > 0) ~> (index_ = "kNew" \/ exited # "no")

\* Closing, from either side and from any thread, always comes to its end.
ClosingCompletes == PeerCloseNoticed /\ ShutdownCompletes /\ ClosedIsRemoved

\* TcpConnection.cc:203: handleWrite is called until all of the data is sent.  So
\* it does not end the process, neither on a short write nor after handleClose.
FlushNeverExits == exited \notin {"partial flush", "not writing"}

\* TcpConnection.cc:77: a read of -1 is an error, not a message.
MessageMeansData == At("messageCallback_") => lastRead = "data"
=============================================================================
