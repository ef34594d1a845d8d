-------------------------------- MODULE Bench --------------------------------
(***************************************************************************)
(* The load generators: the memcached and the RPC bench, whose main thread *)
(* waits on two latches (examples/memcached/client/bench.cc,               *)
(* protobuf/rpcbench/client.cc), the ping-pong client, which a timer ends  *)
(* (pingpong/client.cc), and the chat load test (asio/chat/loadtest.cc).   *)
(* Each client has a loop thread of its own.                               *)
(***************************************************************************)
EXTENDS Integers, FiniteSets, FiniteSetsExt

CONSTANTS BnClients,    \* clients or sessions, 1..n
          BnRequests,   \* requests_, kRequests
          BnEchoes      \* bound: cells the ping-pong server echoes to a session

(* A request, an answer, a block and a message have two cells.  cl[c]:     *)
(* conn, the connection; sent, acked; read, cells counted; net and back,   *)
(* cells on their way; in, the input buffer; echoed; fun, a functor queued *)
(* in c's loop.  made: clients created; main: the main thread, next: its   *)
(* loop index; connected, finished: the latches; num: numConnected_ or     *)
(* g_aliveConnections; received; total and quits: what was reported, and   *)
(* the way of quit to the base loop.  broken: the server dropped a         *)
(* connection; late: a session was not up yet when the timer went off.     *)
VARIABLE bn

BnClient == [conn |-> "new", sent |-> 0, acked |-> 0, read |-> 0, net |-> 0, back |-> 0, in |-> 0, echoed |-> 0, fun |-> FALSE]
BenchInit == \E kind \in {"memcached", "rpc", "pingpong", "chat"} :
  bn = [kind |-> kind, cl |-> [c \in BnClients |-> BnClient], made |-> 0, main |-> "create", next |-> 1,
        connected |-> Cardinality(BnClients), finished |-> Cardinality(BnClients), num |-> 0, received |-> 0,
        hellos |-> 0, timer |-> 0, total |-> -1, reports |-> 0, quits |-> "no", broken |-> FALSE, late |-> FALSE]

BnAll == Cardinality(BnClients)
BnSum(f(_)) == MapThenSumSet(f, BnClients)
BnRunning == bn.main \notin {"done", "dead"}
BnUp(x, c) == x.cl[c].conn = "up"
(* TcpConnection::shutdown *)
BnShutdown(x, c) == IF BnUp(x, c) THEN [x EXCEPT !.cl[c].conn = "closing"] ELSE x

-----------------------------------------------------------------------------
(* Client::send and fill of the memcached bench, RpcClient::sendRequest.   *)
BnSend(x, c) == [x EXCEPT !.cl[c].sent = @ + 1, !.cl[c].net = IF BnUp(x, c) THEN @ + 2 ELSE @]

(* main: the clients are created and connect at once.                      *)
BnCreate == /\ bn.main = "create"
            /\ IF bn.made < BnAll THEN bn' = [bn EXCEPT !.made = @ + 1]
               ELSE bn' = [bn EXCEPT !.main = IF bn.kind \in {"memcached", "rpc"} THEN "connect" ELSE "loop"]
(* connected.wait() returns; the first request of every client.  That of a *)
(* memcached client whose connection is gone goes through a null conn_.    *)
BnAllConnected == bn.main = "connect" /\ bn.connected = 0 /\ bn' = [bn EXCEPT !.main = "send"]
BnFirst == /\ bn.main = "send"
           /\ IF bn.next > BnAll THEN bn' = [bn EXCEPT !.main = "finish"]
              ELSE IF bn.kind = "memcached" /\ bn.cl[bn.next].conn = "down" THEN bn' = [bn EXCEPT !.main = "dead"]
              ELSE bn' = [BnSend(bn, bn.next) EXCEPT !.next = @ + 1]
(* finished.wait() returns. *)
BnAllFinished == bn.main = "finish" /\ bn.finished = 0 /\ bn' = [bn EXCEPT !.main = "done"]

-----------------------------------------------------------------------------
(* onConnection of the two benches and of Session.                         *)
BnBenchUp(x, c) == [x EXCEPT !.cl[c].conn = "up", !.connected = @ - 1]
BnSessionUp(x, c) == [x EXCEPT !.cl[c].conn = "up", !.cl[c].net = @ + 2, !.num = @ + 1]
BnChatUp_Early(x, c) ==
  LET y == [x EXCEPT !.cl[c].conn = "up", !.num = @ + 1] IN IF x.num + 1 >= BnAll - 1 THEN [y EXCEPT !.timer = c] ELSE y
(* ChatClient::onConnection: the last one starts the timer of send.        *)
BnChatUp(x, c) ==
  LET y == [x EXCEPT !.cl[c].conn = "up", !.num = @ + 1] IN IF y.num = BnAll THEN [y EXCEPT !.timer = c] ELSE y
BnConnect(c) == /\ BnRunning /\ c <= bn.made /\ bn.cl[c].conn = "new"
                /\ bn' = CASE bn.kind = "pingpong" -> BnSessionUp(bn, c)
                           [] bn.kind = "chat" -> BnChatUp(bn, c)
                           [] OTHER -> BnBenchUp(bn, c)

BnOnDisconnect_Before(x) == IF x.num = 0 THEN [x EXCEPT !.quits = "loop", !.reports = @ + 1] ELSE [x EXCEPT !.num = @ - 1]
(* Client::onDisconnect of the ping-pong client.                           *)
BnOnDisconnect(x) ==
  LET y == [x EXCEPT !.num = @ - 1]
  IN IF y.num = 0 THEN [y EXCEPT !.total = BnSum(LAMBDA s : y.cl[s].read), !.reports = @ + 1, !.quits = "loop"] ELSE y
(* The connection is down; only the memcached bench counts it as finished. *)
BnDown(x, c) ==
  LET y == [x EXCEPT !.cl[c].conn = "down", !.cl[c].net = 0, !.cl[c].back = 0]
  IN CASE x.kind = "memcached" -> [y EXCEPT !.cl[c].fun = TRUE]
       [] x.kind = "pingpong" -> BnOnDisconnect(y)
       [] OTHER -> y
BnCountDown(c) == /\ BnRunning /\ bn.cl[c].fun
                  /\ bn' = [bn EXCEPT !.cl[c].fun = FALSE, !.finished = @ - 1]
(* The server closes after the client's end of stream, or drops it.        *)
BnEnd(c) == /\ BnRunning /\ bn.cl[c].conn = "closing" /\ bn.cl[c].net = 0 /\ bn.cl[c].back = 0
            /\ bn' = BnDown(bn, c)
BnDrop(c) == /\ BnRunning /\ bn.cl[c].conn \in {"up", "closing"}
             /\ bn' = [BnDown(bn, c) EXCEPT !.broken = TRUE]

-----------------------------------------------------------------------------
BnAcked_OneMore(x, c) ==
  LET y == [x EXCEPT !.cl[c].in = @ - 2, !.cl[c].acked = @ + 1]
  IN IF y.cl[c].sent <= BnRequests THEN BnSend(y, c) ELSE y
(* Client::onMessage of the memcached bench: a whole answer in its loop,   *)
(* for get and for set, then the end.                                      *)
BnAcked(x, c) ==
  LET y == [x EXCEPT !.cl[c].in = @ - 2, !.cl[c].acked = @ + 1]
  IN IF y.cl[c].sent < BnRequests THEN BnSend(y, c) ELSE y
BnBenchMessage(x, c) ==
  LET y == IF x.cl[c].in >= 2 THEN BnAcked(x, c) ELSE x   \* one answer at most is under way
  IN IF y.cl[c].acked = BnRequests THEN BnShutdown(y, c) ELSE y
BnReplied_Always(x, c) ==
  LET y == [x EXCEPT !.cl[c].in = @ - 2, !.cl[c].acked = @ + 1]
  IN [(IF y.cl[c].acked < BnRequests THEN BnSend(y, c) ELSE y) EXCEPT !.finished = @ - 1]
(* RpcClient::replied *)
BnReplied(x, c) ==
  LET y == [x EXCEPT !.cl[c].in = @ - 2, !.cl[c].acked = @ + 1]
  IN IF y.cl[c].acked < BnRequests THEN BnSend(y, c) ELSE [y EXCEPT !.finished = @ - 1]
(* Session::onMessage: all that was read goes back.                        *)
BnSessionMessage(x, c) ==
  [x EXCEPT !.cl[c].read = @ + x.cl[c].in, !.cl[c].acked = @ + 1, !.cl[c].in = 0,
            !.cl[c].net = IF BnUp(x, c) THEN @ + x.cl[c].in ELSE @]
(* ChatClient::onStringMessage; total stands for the queued g_statistic.   *)
BnChatMessage(x, c) ==
  LET y == [x EXCEPT !.cl[c].in = @ - 2, !.cl[c].acked = @ + 1, !.received = @ + 1]
  IN IF y.received = BnAll THEN [y EXCEPT !.quits = "loop"] ELSE y
BnRead(c) ==
  /\ BnRunning /\ bn.cl[c].conn \in {"up", "closing"}
  /\ \E n \in 1..bn.cl[c].back :
       LET x == [bn EXCEPT !.cl[c].back = @ - n, !.cl[c].in = @ + n]
       IN bn' = CASE bn.kind = "memcached" -> BnBenchMessage(x, c)
                  [] bn.kind = "pingpong" -> BnSessionMessage(x, c)
                  [] bn.kind = "rpc" -> IF x.cl[c].in < 2 THEN x ELSE BnReplied(x, c)
                  [] OTHER -> IF x.cl[c].in < 2 THEN x ELSE BnChatMessage(x, c)

(* The servers: an answer to every request, an echo, a message to all.     *)
BnServe(c) ==
  /\ BnRunning /\ bn.cl[c].net > 0
  /\ \/ bn.kind \in {"memcached", "rpc"} /\ bn' = [bn EXCEPT !.cl[c].net = @ - 2, !.cl[c].back = @ + 2]
     \/ /\ bn.kind = "pingpong"
        /\ \E n \in 1..bn.cl[c].net : \* after the bound the server only reads
             bn' = [bn EXCEPT !.cl[c].net = @ - n, !.cl[c].echoed = Min({BnEchoes, @ + n}),
                              !.cl[c].back = IF bn.cl[c].echoed + n <= BnEchoes THEN @ + n ELSE @]
     \/ /\ bn.kind = "chat"
        /\ bn' = [bn EXCEPT !.cl = [d \in BnClients |-> [@[d] EXCEPT !.net = IF d = c THEN @ - 2 ELSE @,
                                                                      !.back = IF BnUp(bn, d) THEN @ + 2 ELSE @]]]

-----------------------------------------------------------------------------
(* Client::handleTimeout: TcpClient::disconnect of session after session,  *)
(* which does not stop one that is still connecting.                       *)
BnHandleTimeout == /\ bn.kind = "pingpong" /\ bn.main = "loop" /\ bn.next <= BnAll
                   /\ bn' = [BnShutdown(bn, bn.next) EXCEPT !.next = @ + 1, !.late = @ \/ \E c \in BnClients : bn.cl[c].conn = "new"]
(* Client::quit, from the session's loop to the base loop.                 *)
BnQuit == /\ BnRunning
          /\ \/ bn.kind = "pingpong" /\ bn.quits = "loop" /\ bn' = [bn EXCEPT !.quits = "base"]
             \/ bn.main = "loop" /\ bn.quits = "base" /\ bn' = [bn EXCEPT !.main = "done"]
(* ChatClient::send, of the client that was the last; statistic.           *)
BnChatSend == /\ BnRunning /\ bn.timer # 0
              /\ bn' = IF BnUp(bn, bn.timer) THEN [bn EXCEPT !.timer = 0, !.hellos = @ + 1, !.cl[bn.timer].net = @ + 2]
                       ELSE [bn EXCEPT !.main = "dead"]
BnStatistic == /\ bn.main = "loop" /\ bn.kind = "chat" /\ bn.quits = "loop"
               /\ bn' = [bn EXCEPT !.quits = "no", !.reports = @ + 1, !.total = Cardinality({c \in BnClients : bn.cl[c].acked = 1})]

BenchNext == \/ BnCreate \/ BnAllConnected \/ BnFirst \/ BnAllFinished \/ BnHandleTimeout \/ BnQuit \/ BnChatSend \/ BnStatistic
             \/ \E c \in BnClients : BnConnect(c) \/ BnCountDown(c) \/ BnEnd(c) \/ BnDrop(c) \/ BnRead(c) \/ BnServe(c)

-----------------------------------------------------------------------------
(* The two benches send nothing before all clients are connected and one   *)
(* request at a time; finished counts the clients that are through, each   *)
(* of which has all its answers unless its connection was dropped; and     *)
(* while main waits, every other client has something under way (onMessage,*)
(* replied, the two latches).                                              *)
BnLatches ==
  LET over(c) == IF bn.kind = "rpc" THEN bn.cl[c].acked = BnRequests ELSE bn.cl[c].conn = "down" /\ ~bn.cl[c].fun
      moves(c) == bn.cl[c].net + bn.cl[c].back > 0 \/ bn.cl[c].conn = "closing" \/ bn.cl[c].fun
  IN /\ bn.finished = Cardinality({c \in BnClients : ~over(c)})
     /\ \A c \in BnClients : /\ bn.cl[c].sent - bn.cl[c].acked \in {0, 1} /\ bn.cl[c].sent <= BnRequests
                             /\ bn.cl[c].sent > 0 => \A d \in BnClients : bn.cl[d].conn # "new"
     /\ bn.main = "done" /\ (~bn.broken \/ bn.kind = "rpc") => \A c \in BnClients : bn.cl[c].acked = BnRequests
     /\ bn.main = "finish" /\ ~bn.broken => \A c \in BnClients : over(c) \/ moves(c)
     /\ bn.main = "dead" => bn.broken

(* The ping-pong client reports once, when its last session has ended, and *)
(* its total is final; stopped, it ends, unless a session came up after    *)
(* the timer or the server closed one early (onConnect, onDisconnect,      *)
(* handleTimeout).                                                         *)
BnPingPong ==
  LET alive == {c \in BnClients : bn.cl[c].conn \in {"up", "closing"}}
  IN /\ bn.num = Cardinality(alive)
     /\ ~bn.broken /\ ~bn.late =>
          /\ bn.reports <= 1
          /\ bn.reports = 1 => alive = {} /\ bn.total = BnSum(LAMBDA c : bn.cl[c].read)
          /\ bn.next > BnAll => \/ bn.main = "done" \/ bn.quits # "no"
                                \/ \E c \in alive : bn.cl[c].conn = "closing"

(* The chat load test says hello once, when all clients have come up, and  *)
(* its statistics are about all of them (onConnection, onStringMessage).   *)
BnChat == /\ bn.hellos <= 1 /\ bn.reports <= 1
          /\ bn.hellos = 1 => \A c \in BnClients : bn.cl[c].conn # "new"
          /\ bn.reports = 1 => bn.total = BnAll
          /\ bn.main = "dead" => bn.broken
          /\ bn.hellos = 1 /\ ~bn.broken /\ bn.reports = 0 =>
               bn.quits = "loop" \/ \E c \in BnClients : bn.cl[c].net + bn.cl[c].back > 0

(* The load generators are as the comments above BnLatches, BnPingPong and *)
(* BnChat say.                                                             *)
BenchSound == CASE bn.kind \in {"memcached", "rpc"} -> BnLatches
                [] bn.kind = "pingpong" -> BnPingPong
                [] OTHER -> BnChat
=============================================================================
