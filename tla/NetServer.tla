------------------------------ MODULE NetServer ------------------------------
(***************************************************************************)
(* TcpServer with its Acceptor, upstream's and myMuduo's (srv.lean): the   *)
(* base loop (0) accepts and keeps the map of connections, which live in   *)
(* the base loop itself or in the loops of the pool, in turn.  The kernel  *)
(* lets the process have MaxFds descriptors, which other threads use too.  *)
(*                                                                         *)
(* q[l]: functors queued in loop l; run[l]: the ones in hand; top[l]: the  *)
(* loop's place, "poll", "run" or "done"; told: the pool's loops that were *)
(* told to quit.                                                           *)
(* conn[i]: where connection i is in its life.  accepting: the place in    *)
(* the spare descriptor's trick of Acceptor::handleRead.  History: stolen, *)
(* another thread took the descriptor in between; exited, LOG_ERROR ended  *)
(* myMuduo; fault, an assertion failed.  A functor of the server that runs *)
(* after its destructor is undefined: the model stops the base loop there. *)
(***************************************************************************)
EXTENDS Integers, Sequences, FiniteSets, Functions

CONSTANTS SrvPools,     \* sizes of the thread pool
          SrvConns,     \* bound on the connections made
          MaxFds        \* descriptors, besides the fixed ones of the loops

ASSUME SrvAssumption == /\ SrvPools \subseteq Nat /\ SrvConns \in Nat /\ MaxFds \in Nat
                        /\ \E n \in SrvPools : \A m \in SrvPools : m <= n

VARIABLE srv

SrvLoops == 0..(CHOOSE n \in SrvPools : \A m \in SrvPools : m <= n)
SrvIds == 1..SrvConns

SrvInit == srv \in [lean : BOOLEAN, pool : SrvPools, started : {0}, listening : {0}, server : {"alive"},
                    next : {0}, made : {0}, home : {[i \in SrvIds |-> 0]}, conn : {[i \in SrvIds |-> "none"]},
                    map : {{}}, q : {[l \in SrvLoops |-> << >>]}, run : {[l \in SrvLoops |-> << >>]},
                    top : {[l \in SrvLoops |-> "poll"]}, told : {0}, backlog : {0}, others : {0},
                    spare : {TRUE}, accepting : {"no"}, stolen : {FALSE},
                    exited : {FALSE}, fault : {FALSE}]

\* A connection holds its descriptor until connectDestroyed has dropped the last reference.
SrvOpen(s) == {i \in SrvIds : s.conn[i] \in {"queued", "up", "closing", "removed"}}
SrvUsed(s) == Cardinality(SrvOpen(s)) + s.others + (IF s.spare /\ ~s.lean THEN 1 ELSE 0)
SrvQueue(s, l, f) == [s EXCEPT !.q[l] = Append(@, f)]
SrvGoes == srv.server = "alive" /\ ~srv.exited

\* Loop l may go on: the base loop not while accept's trick or the destructor's join is under way.
SrvFree(l) == /\ ~srv.exited /\ srv.top[l] = "poll" /\ l <= srv.pool
              /\ l = 0 => srv.accepting = "no" /\ srv.server # "dying"

\* TcpServer::start: the pool starts and listen runs in the base loop, once.
\* The caller is the loop's thread (here) or another.
TcpServerStart_Twice(here) == /\ SrvGoes /\ srv.started < 2 /\ (here => SrvFree(0))
                              /\ srv' = [srv EXCEPT !.started = @ + 1, !.listening = @ + 1]
TcpServerStart(here) ==
  /\ SrvGoes /\ srv.started < 2 /\ (here => SrvFree(0))
  /\ srv' = CASE srv.started > 0 -> [srv EXCEPT !.started = @ + 1]
              [] srv.started = 0 /\ here -> [srv EXCEPT !.started = 1, !.listening = @ + 1]
              [] OTHER -> SrvQueue([srv EXCEPT !.started = 1], 0, <<"listen", 0>>)

\* EventLoopThreadPool::getNextLoop; loop 0 when the pool is empty.
SrvNextLoop(s) == IF s.pool = 0 THEN 0 ELSE s.next + 1
SrvEstablish(s, i) == [s EXCEPT !.conn[i] = "up", !.fault = @ \/ s.conn[i] # "queued"]

\* newConnection: into the map, then connectEstablished in the connection's loop.
NewConnection_Late(s) ==
  LET i == s.made + 1
      l == SrvNextLoop(s)
      t == [s EXCEPT !.made = i, !.backlog = @ - 1, !.home[i] = l, !.conn[i] = "queued",
                     !.next = IF @ + 1 >= s.pool THEN 0 ELSE @ + 1]
  IN  IF l = 0 THEN SrvEstablish(t, i) ELSE SrvQueue(t, l, <<"established", i>>)
NewConnection(s) ==
  LET i == s.made + 1
      l == SrvNextLoop(s)
      t == [s EXCEPT !.made = i, !.backlog = @ - 1, !.home[i] = l, !.conn[i] = "queued", !.map = @ \cup {i},
                     !.next = IF @ + 1 >= s.pool THEN 0 ELSE @ + 1]
  IN  IF l = 0 THEN SrvEstablish(t, i) ELSE SrvQueue(t, l, <<"established", i>>)

\* removeConnectionInLoop: out of the map, then connectDestroyed queued in its own loop.
RemoveInLoop_KeepsEntry(s, i) ==
  SrvQueue([s EXCEPT !.conn[i] = "removed"], s.home[i], <<"destroyed", i>>)
RemoveInLoop(s, i) ==
  SrvQueue([s EXCEPT !.map = @ \ {i}, !.fault = @ \/ (i \notin s.map /\ ~s.lean), !.conn[i] = "removed"],
           s.home[i], <<"destroyed", i>>)

SrvDestroyConn(s, i) == [s EXCEPT !.conn[i] = "destroyed", !.fault = @ \/ s.conn[i] = "destroyed"]

-----------------------------------------------------------------------------
\* Acceptor::handleRead in the base loop.
SrvAcceptable == SrvGoes /\ srv.listening > 0 /\ srv.backlog > 0 /\ SrvFree(0)
AcceptorHandleRead == /\ SrvAcceptable /\ SrvUsed(srv) < MaxFds /\ srv.made < SrvConns
                      /\ srv' = NewConnection(srv)

\* accept fails for want of a descriptor: upstream closes the spare one, accepts with the
\* freed one and closes that connection, then opens the spare one again.
AcceptorFullClose == /\ SrvAcceptable /\ ~srv.lean /\ SrvUsed(srv) >= MaxFds
                     /\ srv' = [srv EXCEPT !.spare = FALSE, !.accepting = "closed"]
AcceptorFullDrop == /\ srv.accepting = "closed"
                    /\ srv' = IF SrvUsed(srv) < MaxFds
                              THEN [srv EXCEPT !.backlog = @ - 1, !.accepting = "dropped"]
                              ELSE [srv EXCEPT !.stolen = TRUE, !.accepting = "dropped"]
AcceptorFullReopen_Forgets == /\ srv.accepting = "dropped"
                              /\ srv' = [srv EXCEPT !.accepting = "no"]
AcceptorFullReopen == /\ srv.accepting = "dropped"
                      /\ srv' = IF SrvUsed(srv) < MaxFds THEN [srv EXCEPT !.spare = TRUE, !.accepting = "no"]
                                ELSE [srv EXCEPT !.stolen = TRUE, !.accepting = "no"]
\* myMuduo logs with LOG_ERROR, which ends the process.
LeanAcceptFails == /\ SrvAcceptable /\ srv.lean /\ SrvUsed(srv) >= MaxFds
                   /\ srv' = [srv EXCEPT !.exited = TRUE]

\* handleClose calls removeConnection, which goes to the base loop.
SrvConnCloses(i) ==
  LET l == srv.home[i] IN
  /\ srv.conn[i] = "up" /\ SrvFree(l)
  /\ srv' = IF l = 0 THEN RemoveInLoop(srv, i)
            ELSE SrvQueue([srv EXCEPT !.conn[i] = "closing"], 0, <<"remove", i>>)

\* The entries of a std::map in some order.
SrvOrdered(S) == CHOOSE seq \in [1..Cardinality(S) -> S] : IsInjective(seq)

\* ~TcpServer in the base loop's thread: every connection is destroyed in its loop, then
\* one after the other the pool's threads are told to quit and joined.
SrvDestructor ==
  /\ SrvGoes /\ SrvFree(0)
  /\ LET sent(l) == SrvOrdered({<<"destroyed", i>> : i \in {j \in srv.map : srv.home[j] = l}})
     IN  srv' = [srv EXCEPT !.server = "dying", !.map = {},
                            !.q = [l \in SrvLoops |-> IF l = 0 THEN @[0] ELSE @[l] \o sent(l)],
                            !.conn = [i \in SrvIds |-> IF i \in srv.map /\ srv.home[i] = 0 THEN "destroyed" ELSE @[i]]]
SrvQuitNext == /\ srv.server = "dying" /\ (srv.told = 0 \/ srv.top[srv.told] = "done")
               /\ srv' = IF srv.told < srv.pool THEN [srv EXCEPT !.told = @ + 1] ELSE [srv EXCEPT !.server = "dead"]

\* EventLoop::loop of loop l: poll and swap, run, look at quit_.
SrvToldToQuit(l) == l \in 1..srv.told
SrvSwap(l) == /\ SrvFree(l) /\ (srv.q[l] # << >> \/ SrvToldToQuit(l))
              /\ srv' = [srv EXCEPT !.run[l] = srv.q[l], !.q[l] = << >>, !.top[l] = "run"]
SrvAgain(l) == /\ srv.top[l] = "run" /\ srv.run[l] = << >> /\ ~srv.exited
               /\ srv' = [srv EXCEPT !.top[l] = IF SrvToldToQuit(l) THEN "done" ELSE "poll"]
SrvFunctor(l) ==
  /\ ~srv.exited /\ srv.top[l] = "run" /\ srv.run[l] # << >>
  /\ srv.server = "dead" => Head(srv.run[l])[1] = "destroyed"
  /\ LET f == Head(srv.run[l])
         s == [srv EXCEPT !.run[l] = Tail(@)]
     IN  srv' = CASE f[1] = "listen" -> [s EXCEPT !.listening = @ + 1]
                  [] f[1] = "established" -> SrvEstablish(s, f[2])
                  [] f[1] = "remove" -> RemoveInLoop(s, f[2])
                  [] f[1] = "destroyed" -> SrvDestroyConn(s, f[2])

\* Clients connect; other threads open and close descriptors.
SrvPeerConnects == /\ ~srv.exited /\ srv.listening > 0 /\ srv.backlog < 2 /\ srv.made + srv.backlog < SrvConns + 1
                   /\ srv' = [srv EXCEPT !.backlog = @ + 1]
SrvOthersOpen == /\ SrvGoes /\ SrvUsed(srv) < MaxFds /\ srv.others < 1
                 /\ srv' = [srv EXCEPT !.others = @ + 1]
SrvOthersClose == SrvGoes /\ srv.others > 0 /\ srv' = [srv EXCEPT !.others = @ - 1]

SrvNext == \/ \E here \in BOOLEAN : TcpServerStart(here)
           \/ AcceptorHandleRead \/ AcceptorFullClose \/ AcceptorFullDrop \/ AcceptorFullReopen
           \/ LeanAcceptFails \/ SrvDestructor \/ SrvQuitNext \/ SrvPeerConnects \/ SrvOthersOpen \/ SrvOthersClose
           \/ \E i \in SrvIds : SrvConnCloses(i)
           \/ \E l \in SrvLoops : SrvSwap(l) \/ SrvAgain(l) \/ SrvFunctor(l)

SrvSpec == SrvInit /\ [][SrvNext]_srv

\* While it lives, the server's map holds exactly the connections whose close has not
\* reached it, each in the loop whose turn it was; it listens once.
SrvMap == /\ srv.listening <= 1
          /\ srv.server = "alive" => srv.map = {i \in SrvIds : srv.conn[i] \in {"queued", "up", "closing"}}
          /\ \A i \in 1..srv.made : srv.home[i] = IF srv.pool = 0 THEN 0 ELSE ((i - 1) % srv.pool) + 1

\* The spare descriptor is there whenever a connection may have to be turned away,
\* unless another thread took it in between.
SrvSpare == srv.accepting = "no" /\ ~srv.stolen => srv.spare

\* A connection that outlives the server and its pool was closing already, or its
\* connectDestroyed is queued in a loop that saw quit_ before it saw the functor.
SrvLeft == srv.server = "dead" =>
             \A i \in SrvOpen(srv) :
               \/ \E j \in DOMAIN srv.q[srv.home[i]] : srv.q[srv.home[i]][j] = <<"destroyed", i>>
               \/ \E j \in DOMAIN srv.run[0] : srv.run[0][j][2] = i
               \/ \E j \in DOMAIN srv.q[0] : srv.q[0][j] \in {<<"remove", i>>, <<"destroyed", i>>}

(* Each connection is established once, then destroyed once, in its own loop, *)
(* through every order of accepts, closes, a full descriptor table and the    *)
(* server's destruction; map, loops and spare descriptor stay in step.        *)
ServerSound == ~srv.fault /\ SrvMap /\ SrvSpare /\ SrvLeft
=============================================================================
