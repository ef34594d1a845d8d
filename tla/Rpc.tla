--------------------------------- MODULE Rpc ---------------------------------
(***************************************************************************)
(* Remote calls: clients with an RpcChannel, the rpcbalancer example       *)
(* between, and RpcServers behind it, each connection with an RpcChannel   *)
(* of its own.  The balancer renumbers a request, sends it to the next     *)
(* backend that is connected, and gives the response its old number back.  *)
(*                                                                         *)
(* A call runs in a thread of its own: pc[k], and id[k], its number.  Per  *)
(* client: open, last (id_), out (outstandings_).  Per backend: conn       *)
(* (conn_, and its number), next (nextId_), pend (the outstandings_ of its *)
(* BackendSession), work (the requests its service holds, with the         *)
(* connection they came over).  Wires: up (client to balancer), to and fro *)
(* (balancer to backend and back), dn.  A message is [id, call], the call  *)
(* standing for the payload.  History: got[k], the responses call k was    *)
(* given; lost, something was dropped for want of a connection; fault.     *)
(***************************************************************************)
EXTENDS Integers, Sequences, FiniteSets, FiniteSetsExt, Functions

CONSTANTS RpcClients, RpcBackends, RpcCalls,
          RpcConns      \* bound: connections of a backend

VARIABLE rpc

RpcClient(k) == (k % Cardinality(RpcClients)) + 1
RpcMsg(id, k) == [id |-> id, call |-> k]
RpcInit ==
  rpc = [pc |-> [k \in RpcCalls |-> "start"], id |-> [k \in RpcCalls |-> 0],
         open |-> [c \in RpcClients |-> TRUE], last |-> [c \in RpcClients |-> 0], out |-> [c \in RpcClients |-> {}],
         up |-> [c \in RpcClients |-> << >>], dn |-> [c \in RpcClients |-> << >>],
         conn |-> [b \in RpcBackends |-> FALSE], gen |-> [b \in RpcBackends |-> 0], next |-> [b \in RpcBackends |-> 0],
         pend |-> [b \in RpcBackends |-> {}], work |-> [b \in RpcBackends |-> {}],
         to |-> [b \in RpcBackends |-> << >>], fro |-> [b \in RpcBackends |-> << >>],
         current |-> 0, got |-> [k \in RpcCalls |-> << >>], lost |-> FALSE, fault |-> "none"]
RpcRuns == rpc.fault = "none"

\* RpcChannel::CallMethod: a number, the table under the mutex, then the message.
RpcNumber(k) ==
  LET c == RpcClient(k)
  IN  /\ RpcRuns /\ rpc.pc[k] = "start" /\ rpc.open[c]
      /\ rpc' = [rpc EXCEPT !.pc[k] = "numbered", !.last[c] = @ + 1, !.id[k] = rpc.last[c] + 1]
RpcEnter(k) ==
  /\ RpcRuns /\ rpc.pc[k] = "numbered"
  /\ rpc' = [rpc EXCEPT !.pc[k] = "entered", !.out[RpcClient(k)] = @ \cup {RpcMsg(rpc.id[k], k)}]
RpcSend(k) ==
  LET c == RpcClient(k)
  IN  /\ RpcRuns /\ rpc.pc[k] = "entered"
      /\ rpc' = [rpc EXCEPT !.pc[k] = "sent", !.lost = @ \/ ~rpc.open[c],
                            !.up[c] = IF rpc.open[c] THEN Append(@, RpcMsg(rpc.id[k], k)) ELSE @]

\* RpcChannel::onRpcMessage, a response: the call with that number is taken from the table and completed.
RpcOnResponse_Keeps(c) ==
  /\ RpcRuns /\ rpc.dn[c] # << >>
  /\ LET m == Head(rpc.dn[c])
         o == {x \in rpc.out[c] : x.id = m.id}
     IN  rpc' = [rpc EXCEPT !.dn[c] = Tail(@),
                            !.got = [k \in RpcCalls |-> IF \E x \in o : x.call = k THEN Append(@[k], m.call) ELSE @[k]]]
RpcOnResponse(c) ==
  /\ RpcRuns /\ rpc.dn[c] # << >>
  /\ LET m == Head(rpc.dn[c])
         o == {x \in rpc.out[c] : x.id = m.id}
     IN  rpc' = [rpc EXCEPT !.dn[c] = Tail(@), !.out[c] = @ \ o,
                            !.got = [k \in RpcCalls |-> IF \E x \in o : x.call = k THEN Append(@[k], m.call) ELSE @[k]]]

\* The client's connection ends.
RpcClientDown(c) ==
  /\ RpcRuns /\ rpc.open[c]
  /\ rpc' = [rpc EXCEPT !.open[c] = FALSE, !.up[c] = << >>, !.dn[c] = << >>, !.lost = TRUE]

-----------------------------------------------------------------------------
\* BackendSession::send.
RpcBackendSend_SameId(x, b, m, c) ==
  [x EXCEPT !.next[b] = @ + 1, !.pend[b] = @ \cup {[id |-> m.id, orig |-> m.id, client |-> c]},
            !.fault = IF \E r \in x.pend[b] : r.id = m.id THEN "number in use" ELSE @,
            !.to[b] = Append(@, m)]
RpcBackendSend(x, b, m, c) ==
  LET id == x.next[b] + 1
  IN  [x EXCEPT !.next[b] = id, !.pend[b] = @ \cup {[id |-> id, orig |-> m.id, client |-> c]},
                !.fault = IF \E r \in x.pend[b] : r.id = id THEN "number in use" ELSE @,
                !.to[b] = Append(@, RpcMsg(id, m.call))]
\* Balancer::onRpcMessage: the first connected backend from current on; without one the request is dropped.
RpcBackend(i) == (i % Cardinality(RpcBackends)) + 1
RpcBalance(c) ==
  /\ RpcRuns /\ rpc.up[c] # << >>
  /\ LET m == Head(rpc.up[c])
         x == [rpc EXCEPT !.up[c] = Tail(@)]
         N == Cardinality(RpcBackends)
         Tries(n) == rpc.conn[RpcBackend(rpc.current + n)] /\ \A j \in 0..(n - 1) : ~rpc.conn[RpcBackend(rpc.current + j)]
     IN  \/ \E n \in 0..(N - 1) :
              /\ Tries(n)
              /\ rpc' = [RpcBackendSend(x, RpcBackend(rpc.current + n), m, c) EXCEPT !.current = (@ + n + 1) % N]
         \/ /\ \A b \in RpcBackends : ~rpc.conn[b]
            /\ rpc' = [x EXCEPT !.lost = TRUE]
\* BackendSession::onRpcMessage: the response goes back under its old number if the client is still there.
RpcBack(b) ==
  /\ RpcRuns /\ rpc.fro[b] # << >>
  /\ LET m == Head(rpc.fro[b])
         rs == {r \in rpc.pend[b] : r.id = m.id}
         x == [rpc EXCEPT !.fro[b] = Tail(@), !.pend[b] = @ \ rs]
     IN  rpc' = [x EXCEPT !.dn = [c \in RpcClients |->
                   IF rpc.open[c] /\ \E r \in rs : r.client = c
                   THEN Append(@[c], RpcMsg((CHOOSE r \in rs : r.client = c).orig, m.call)) ELSE @[c]]]
\* BackendSession::onConnection; the other end is RpcServer::onConnection, which drops its RpcChannel.
RpcBackendUp(b) == /\ RpcRuns /\ ~rpc.conn[b] /\ rpc.gen[b] < RpcConns
                   /\ rpc' = [rpc EXCEPT !.conn[b] = TRUE, !.gen[b] = @ + 1]
RpcBackendDown(b) == /\ RpcRuns /\ rpc.conn[b]
                     /\ rpc' = [rpc EXCEPT !.conn[b] = FALSE, !.to[b] = << >>, !.fro[b] = << >>, !.lost = TRUE]

-----------------------------------------------------------------------------
\* RpcChannel::onRpcMessage, a request: an error at once, or the service, which may answer later.
RpcOnRequest(b) ==
  /\ RpcRuns /\ rpc.to[b] # << >>
  /\ LET m == Head(rpc.to[b])
         x == [rpc EXCEPT !.to[b] = Tail(@)]
     IN  \/ rpc' = [x EXCEPT !.fro[b] = Append(@, m)]
         \/ rpc' = [x EXCEPT !.work[b] = @ \cup {<<rpc.gen[b], m>>}]
\* RpcChannel::doneCallback, of a channel that may be gone with its connection.
RpcDone(b) ==
  /\ RpcRuns
  /\ \E w \in rpc.work[b] :
       rpc' = IF rpc.conn[b] /\ w[1] = rpc.gen[b]
              THEN [rpc EXCEPT !.work[b] = @ \ {w}, !.fro[b] = Append(@, w[2])]
              ELSE [rpc EXCEPT !.fault = "channel has gone"]

RpcNext == \/ \E k \in RpcCalls : RpcNumber(k) \/ RpcEnter(k) \/ RpcSend(k)
           \/ \E c \in RpcClients : RpcOnResponse(c) \/ RpcClientDown(c) \/ RpcBalance(c)
           \/ \E b \in RpcBackends : RpcBack(b) \/ RpcBackendUp(b) \/ RpcBackendDown(b) \/ RpcOnRequest(b) \/ RpcDone(b)

-----------------------------------------------------------------------------
\* A call completes at most once, with the response to its own request.
RpcMatched == \A k \in RpcCalls : rpc.got[k] = << >> \/ rpc.got[k] = <<k>>
\* When nothing moves, a call is open only if something was dropped, and none of the tables keeps an entry.
RpcQuiet == /\ \A c \in RpcClients : rpc.up[c] = << >> /\ rpc.dn[c] = << >>
            /\ \A b \in RpcBackends : rpc.to[b] = << >> /\ rpc.fro[b] = << >> /\ rpc.work[b] = {}
RpcAnswered == RpcQuiet /\ ~rpc.lost =>
  /\ \A k \in RpcCalls : rpc.pc[k] = "sent" => rpc.got[k] = <<k>> /\ RpcMsg(rpc.id[k], k) \notin rpc.out[RpcClient(k)]
  /\ \A b \in RpcBackends : rpc.pend[b] = {}

\* Calls of several threads through the balancer (RpcChannel.cc, balancer.cc) with connections that end and
\* come back and services that answer in any order: a call is completed at most once and by its own response although
\* clients use the same numbers, no number is given out twice, nothing is left over unless a connection
\* was missing, and the one misuse is a service that completes a call after its connection has ended.
RpcSound == RpcMatched /\ RpcAnswered /\ rpc.fault \in {"none", "channel has gone"}

-------------------------------------------------------------------------------
(***************************************************************************)
(* examples/protobuf/rpcbalancer/balancer_raw.cc: every I/O thread has its *)
(* own sessions with all backends and hands the requests of its clients to *)
(* them in turn.  A message whose layout it knows is renumbered in place,  *)
(* its checksum with it; another goes the long way through protobuf.       *)
(***************************************************************************)
CONSTANTS RbThreads, RbBackends,   \* 1..n, 0..m-1
          RbClients,               \* 1..k
          RbRequests,              \* bound: requests of all clients
          RbDrops                  \* bound: connections that end

(* order[t]: the count initPerThread drew.  se[t][b], a BackendSession:    *)
(* up (conn_), next (nextId_), out (outstandings_), work (what the backend *)
(* holds), given (requests it was handed).  client[c]: "up", "shut" after  *)
(* a bad message, "gone".  A message is [layout, id, body, sum]; the body  *)
(* tells requests apart.  got: what clients were sent; unserved: requests  *)
(* no session was up for; asked, drops: bounds.                            *)
VARIABLE rb

RbThread(c) == ((c - 1) % Cardinality(RbThreads)) + 1
RbMessage(layout, id, body) == [layout |-> layout, id |-> id, body |-> body, sum |-> <<id, body>>]
RbSession == [up |-> FALSE, next |-> 0, out |-> {}, work |-> {}, given |-> 0]
(* Balancer::initPerThread of all threads, in any order.                   *)
RbInit == \E order \in Bijection(RbThreads, 0..(Cardinality(RbThreads) - 1)) :
  rb = [order |-> order, current |-> [t \in RbThreads |-> order[t] % Cardinality(RbBackends)],
        se |-> [t \in RbThreads |-> [b \in RbBackends |-> RbSession]],
        client |-> [c \in RbClients |-> "up"], got |-> {}, unserved |-> {}, asked |-> {}, drops |-> 0, skipped |-> FALSE]

-----------------------------------------------------------------------------
(* ProtobufCodecLite::validateChecksum *)
RbValid(m) == m.sum = <<m.id, m.body>>
(* RawMessage::parse: the type and the id are where they usually are.      *)
RbParse(m) == RbValid(m) /\ m.layout = "usual"
RbUpdateId_KeepsSum(m) == m
(* RawMessage::updateId; the id was set before.                            *)
RbUpdateId(m) == [m EXCEPT !.sum = <<m.id, m.body>>]
(* set_id and sendTo, of both kinds of message: protobuf writes the usual  *)
(* layout.                                                                 *)
RbRenumbered(m, id) == IF RbParse(m) THEN RbUpdateId([m EXCEPT !.id = id])
                       ELSE RbMessage("usual", id, m.body)

RbSend_SameId(s, m, c) ==
  [s EXCEPT !.given = @ + 1, !.out = @ \union {[id |-> m.id, orig |-> m.id, client |-> c, body |-> m.body]},
            !.work = @ \union {RbRenumbered(m, m.id)}]
(* BackendSession::send *)
RbSend(s, m, c) ==
  [s EXCEPT !.next = @ + 1, !.given = @ + 1,
            !.out = @ \union {[id |-> s.next + 1, orig |-> m.id, client |-> c, body |-> m.body]},
            !.work = @ \union {RbRenumbered(m, s.next + 1)}]

RbOnMessageT_Stays(x, t, m, c) ==
  IF \A b \in RbBackends : ~x.se[t][b].up THEN [x EXCEPT !.unserved = @ \union {m.body}]
  ELSE LET N == Cardinality(RbBackends)
           n == CHOOSE n \in 0..(N - 1) : /\ x.se[t][(x.current[t] + n) % N].up
                                          /\ \A i \in 0..(n - 1) : ~x.se[t][(x.current[t] + i) % N].up
           b == (x.current[t] + n) % N
       IN [x EXCEPT !.se[t][b] = RbSend(@, m, c), !.current[t] = b, !.skipped = @ \/ n > 0]
(* Balancer::onMessageT: the next session that is up.                      *)
RbOnMessageT(x, t, m, c) ==
  IF \A b \in RbBackends : ~x.se[t][b].up THEN [x EXCEPT !.unserved = @ \union {m.body}, !.skipped = TRUE]
  ELSE LET N == Cardinality(RbBackends)
           n == CHOOSE n \in 0..(N - 1) : /\ x.se[t][(x.current[t] + n) % N].up
                                          /\ \A i \in 0..(n - 1) : ~x.se[t][(x.current[t] + i) % N].up
           b == (x.current[t] + n) % N
       IN [x EXCEPT !.se[t][b] = RbSend(@, m, c), !.current[t] = (b + 1) % N, !.skipped = @ \/ n > 0]

(* A request of client c: onRawMessage, else onRpcMessage, else the        *)
(* codec's error, which shuts the connection.  Clients number their calls  *)
(* alike, so ids repeat between them.                                      *)
RbAsk(c) ==
  /\ rb.client[c] = "up" /\ Cardinality(rb.asked) < RbRequests
  /\ \E layout \in {"usual", "other"} :
       LET mine == Cardinality({r \in rb.asked : r.client = c})
           m == RbMessage(layout, mine + 1, Cardinality(rb.asked) + 1)
       IN rb' = [RbOnMessageT(rb, RbThread(c), m, c) EXCEPT !.asked = @ \union {[client |-> c, id |-> m.id, body |-> m.body]}]
RbAskBadly(c) == rb.client[c] = "up" /\ rb' = [rb EXCEPT !.client[c] = "shut"]
(* Balancer::onConnection: nothing is done for a client that went.         *)
RbGone(c) == /\ rb.client[c] # "gone" /\ rb.drops < RbDrops
             /\ rb' = [rb EXCEPT !.client[c] = "gone", !.drops = @ + 1]

-----------------------------------------------------------------------------
(* BackendSession::onConnection; calls stay outstanding, nothing restarts  *)
(* the numbers.                                                            *)
RbUp_Restarts(s) == [s EXCEPT !.up = TRUE, !.next = 0]
RbUp(s) == [s EXCEPT !.up = TRUE]
RbDown(s) == [s EXCEPT !.up = FALSE, !.work = {}]
RbOnConnection(t, b) == \/ ~rb.se[t][b].up /\ rb' = [rb EXCEPT !.se[t][b] = RbUp(@)]
                        \/ /\ rb.se[t][b].up /\ rb.drops < RbDrops
                           /\ rb' = [rb EXCEPT !.se[t][b] = RbDown(@), !.drops = @ + 1]

RbBack_Keeps(x, t, b, m) ==
  LET calls == {r \in x.se[t][b].out : r.id = m.id}
  IN [x EXCEPT !.got = @ \union {[client |-> r.client, m |-> RbRenumbered(m, r.orig)] : r \in {r \in calls : x.client[r.client] # "gone"}}]
(* BackendSession::onMessageT: back under its old number, if the client is *)
(* still there; an answer to nothing outstanding is ignored.               *)
RbBack(x, t, b, m) ==
  LET calls == {r \in x.se[t][b].out : r.id = m.id}
      here == {r \in calls : x.client[r.client] # "gone"}
  IN [x EXCEPT !.se[t][b].out = @ \ calls,
               !.got = @ \union {[client |-> r.client, m |-> RbRenumbered(m, r.orig)] : r \in here}]
(* A backend answers, in any order, once or twice, in its own layout; it   *)
(* ignores what its codec refuses.                                         *)
RbAnswer(t, b) ==
  \E m \in rb.se[t][b].work, layout \in {"usual", "other"}, again \in BOOLEAN :
    /\ RbValid(m)
    /\ rb' = [RbBack(rb, t, b, RbMessage(layout, m.id, m.body)) EXCEPT !.se[t][b].work = IF again THEN @ ELSE @ \ {m}]

RbNext == \/ \E c \in RbClients : RbAsk(c) \/ RbAskBadly(c) \/ RbGone(c)
          \/ \E t \in RbThreads, b \in RbBackends : RbOnConnection(t, b) \/ RbAnswer(t, b)

-----------------------------------------------------------------------------
(* A client is answered what it asked, under its own number and with a     *)
(* checksum that is right; every request is outstanding with one session   *)
(* of its thread, or answered, or found no session up, or lost its client; *)
(* no two outstanding requests of a session share a number; every request  *)
(* handed over is one the backend can read; and while no session was       *)
(* passed over, the sessions of a thread were handed as many requests as   *)
(* each other, or one more (RawMessage, BackendSession, Balancer).         *)
BalancerSound ==
  LET held == [t \in RbThreads |-> UNION {rb.se[t][b].out : b \in RbBackends}]
  IN /\ \A g \in rb.got : RbValid(g.m) /\ [client |-> g.client, id |-> g.m.id, body |-> g.m.body] \in rb.asked
     /\ \A r \in rb.asked :
          LET outstanding == \E h \in held[RbThread(r.client)] : h.body = r.body /\ h.client = r.client /\ h.orig = r.id
              answered == \E g \in rb.got : g.m.body = r.body
          IN IF outstanding THEN ~answered /\ r.body \notin rb.unserved
             ELSE answered \/ r.body \in rb.unserved \/ rb.client[r.client] = "gone"
     /\ \A t \in RbThreads, b \in RbBackends :
          LET s == rb.se[t][b]
          IN /\ \A h \in s.out, k \in s.out : h.id = k.id => h = k
             /\ \A m \in s.work : RbValid(m)
             /\ ~rb.skipped => \A d \in RbBackends : s.given - rb.se[t][d].given \in -1..1
=============================================================================
