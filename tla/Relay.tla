-------------------------------- MODULE Relay --------------------------------
(***************************************************************************)
(* A Tunnel of the relays in examples/socks4a: the connection of a user    *)
(* (srv, serverConn_) and the one made for it to a backend (cli,           *)
(* clientConn_), both in one loop.  tcprelay and balancer make the tunnel  *)
(* when the user connects and stop reading until the backend is there;     *)
(* socks4a makes it when the request has arrived, and reads on.            *)
(*                                                                         *)
(* A side: st ("none", "connecting", "up", "half" after shutdown(),        *)
(* "down"), reading, in and out (bytes in its two buffers), wcb (its       *)
(* write-complete callback is set); hung: its peer has gone; from and to,  *)
(* the bytes read from and written to its peer.  q: the functors queued in *)
(* the loop, batch: those of them this turn runs.  ready: the connections  *)
(* this turn still has an event for; at: handling them, or functors.  Tunnel: kept (in g_tunnels), held    *)
(* (by client_'s callbacks), ptr (clientConn_ is set), ctx (serverConn_'s  *)
(* context is set).  fault: what an assertion or a null pointer stops.     *)
(* History: early, the user left before the backend was there; cut, a      *)
(* connection went down while flow control was at work: one of them was    *)
(* stopped from reading, or a callback was queued.                         *)
(***************************************************************************)
EXTENDS Integers, Sequences, FiniteSets

CONSTANTS RelayMark,     \* the high-water mark
          RelayChunk,    \* the most bytes of one read
          RelayBytes     \* bound: bytes a peer sends

VARIABLE rl

RelayOther(x) == IF x = "srv" THEN "cli" ELSE "srv"
RelaySides == {"srv", "cli"}
RelaySide(st) == [st |-> st, reading |-> st = "up", in |-> 0, out |-> 0, wcb |-> FALSE, hung |-> FALSE, from |-> 0, to |-> 0]

\* onServerConnection of a relay; or of socks4a, whose request is still to come.
RelayStarts(socks) ==
  [socks |-> socks, kept |-> ~socks, held |-> ~socks, ptr |-> FALSE, ctx |-> FALSE,
   s |-> [x \in RelaySides |-> IF x = "cli" THEN RelaySide(IF socks THEN "none" ELSE "connecting")
                               ELSE [RelaySide("up") EXCEPT !.reading = socks]],
   q |-> << >>, batch |-> << >>, ready |-> {}, at |-> "run", fault |-> "none", early |-> FALSE, cut |-> FALSE]
RelayInit == rl \in {RelayStarts(b) : b \in BOOLEAN}

\* Whether a weak pointer to the Tunnel still finds it.
RelayAlive(r) == r.kept \/ r.held \/ r.s["cli"].st \in {"up", "half"}

-----------------------------------------------------------------------------
\* TcpConnection::send(Buffer*) of what side y has in its input, over side x: n bytes go out at once.
RelaySends(r, x, y) ==
  LET len == r.s[y].in
      old == r.s[x].out
      Sent(n) == LET new == old + len - n IN
        [r EXCEPT !.s[y].in = 0, !.s[x].out = new, !.s[x].to = @ + n,
                  !.q = @ \o (IF old < RelayMark /\ new >= RelayMark THEN <<<<"high", x>>>> ELSE << >>)
                          \o (IF n = len /\ r.s[x].wcb THEN <<<<"complete", x>>>> ELSE << >>)]
  IN  IF r.s[x].st # "up" \/ len = 0 THEN {r} ELSE {Sent(n) : n \in IF old = 0 THEN 0..len ELSE {0}}

\* TcpConnection::startRead, stopRead and shutdown, in the loop.  A closed connection that reads again
\* meets its peer's end, and handleClose's assertion.
RelayReads(r, x, on) == [r EXCEPT !.s[x].reading = on,
                                  !.fault = IF on /\ r.s[x].st = "down" THEN "closed conn reads" ELSE @]
RelayShutdown(r, x) == IF r.s[x].st = "up" THEN [r EXCEPT !.s[x].st = "half"] ELSE r

\* Tunnel::teardown.
RelayTeardown(r) == RelayShutdown([r EXCEPT !.held = FALSE, !.ctx = FALSE, !.ptr = FALSE], "srv")

\* Tunnel::onClientConnection, up: what has arrived from the user is sent on.
RelayClientUp(r) ==
  RelaySends([RelayReads(r, "srv", TRUE) EXCEPT !.s["cli"] = RelaySide("up"), !.ctx = TRUE, !.ptr = TRUE], "cli", "srv")

\* onServerConnection, down: Tunnel::disconnect, which shuts down a client that is connected.
RelayServerDown(r) == IF r.kept THEN RelayShutdown([r EXCEPT !.kept = FALSE], "cli") ELSE r

\* TcpConnection::handleClose with the connection callback of that side.
RelayCloses(r, x) ==
  LET d == [r EXCEPT !.s[x].st = "down", !.s[x].reading = FALSE, !.cut = @ \/ (\E y \in RelaySides : r.s[y].st \in {"up", "half"} /\ ~r.s[y].reading) \/ r.q # << >>,
                     !.early = @ \/ (x = "srv" /\ r.s["cli"].st = "connecting")]
  IN  IF x = "srv" THEN RelayServerDown(d) ELSE RelayTeardown(d)

\* onServerMessage: the request of socks4a, granted or refused; else to the client if there is one.
RelayRequest(r) == {[r EXCEPT !.s["srv"].in = @ - 1, !.s["cli"].st = "connecting", !.kept = TRUE, !.held = TRUE],
                    RelayShutdown(r, "srv")}
RelayServerMessage(r) == IF r.ctx THEN RelaySends(r, "cli", "srv") ELSE {r}
\* Tunnel::onClientMessage.
RelayClientMessage(r) == RelaySends(r, "srv", "cli")
RelayMessage(r, x) == CASE x = "cli" -> RelayClientMessage(r)
                        [] x = "srv" /\ r.s["cli"].st = "none" -> RelayRequest(r)
                        [] OTHER -> RelayServerMessage(r)

-----------------------------------------------------------------------------
\* Tunnel::onHighWaterMark for side x: the other one stops reading until x has written everything.
RelayHighWater_Unchecked(r, x) ==
  IF x = "srv" /\ ~r.ptr THEN [r EXCEPT !.fault = "no client"]
  ELSE [RelayReads(r, RelayOther(x), FALSE) EXCEPT !.s[x].wcb = TRUE]
RelayHighWater(r, x) ==
  CASE ~r.ptr /\ x = "cli" -> [r EXCEPT !.fault = "no client"]
    [] ~r.ptr /\ x = "srv" /\ r.s[x].out > 0 -> [r EXCEPT !.fault = "no client"]
    [] r.ptr /\ r.s[x].out > 0 -> [RelayReads(r, RelayOther(x), FALSE) EXCEPT !.s[x].wcb = TRUE]
    [] OTHER -> r
\* Tunnel::onWriteComplete.
RelayWriteComplete_Keeps(r, x) ==
  IF ~r.ptr THEN [r EXCEPT !.fault = "no client"] ELSE [r EXCEPT !.s[x].wcb = FALSE]
RelayWriteComplete(r, x) ==
  IF ~r.ptr THEN [r EXCEPT !.fault = "no client"] ELSE [RelayReads(r, RelayOther(x), TRUE) EXCEPT !.s[x].wcb = FALSE]

RelayFunctor(r, f) ==
  CASE ~RelayAlive(r) -> r
    [] RelayAlive(r) /\ f[1] = "high" -> RelayHighWater(r, f[2])
    [] RelayAlive(r) /\ f[1] = "complete" -> RelayWriteComplete(r, f[2])

\* What a connection's Channel may report: its peer's end too if it reads or writes.
RelayWriting(r, x) == r.s[x].st \in {"up", "half"} /\ r.s[x].out > 0
RelayReadable(r, x) == r.s[x].st \in {"up", "half"} /\ r.s[x].reading
RelayPolled(x) == RelayReadable(rl, x) \/ RelayWriting(rl, x) \/ rl.s[x].st = "connecting"

RelayRuns == rl.fault = "none"
RelayPoll == /\ RelayRuns /\ rl.at = "run" /\ rl.batch = << >>
             /\ \E e \in SUBSET {x \in RelaySides : RelayPolled(x)} :
                  /\ e # {} \/ rl.q # << >>
                  /\ rl' = [rl EXCEPT !.ready = e, !.at = "turn"]

\* TcpConnection::handleRead, or its end; handleWrite; the Connector's new connection.
RelayEvent(x) ==
  /\ RelayRuns /\ x \in rl.ready
  /\ LET r == [rl EXCEPT !.ready = @ \ {x}]
         s == rl.s[x]
     IN  \/ /\ s.st = "connecting"
            /\ rl' \in RelayClientUp(r)
         \/ /\ RelayReadable(rl, x)
            /\ \E n \in 1..RelayChunk :
                 /\ s.from + n <= RelayBytes
                 /\ rl' \in RelayMessage([r EXCEPT !.s[x].in = @ + n, !.s[x].from = @ + n], x)
         \/ /\ RelayReadable(rl, x) \/ (RelayWriting(rl, x) /\ s.hung)
            /\ rl' = RelayCloses(r, x)
         \/ /\ RelayWriting(rl, x)
            /\ \E n \in 1..s.out :
                 rl' = [r EXCEPT !.s[x].out = @ - n, !.s[x].to = @ + n,
                                 !.q = IF n = s.out /\ s.wcb THEN Append(@, <<"complete", x>>) ELSE @]
RelayPeerGone(x) == /\ rl.s[x].st \in {"up", "half"} /\ ~rl.s[x].hung
                    /\ rl' = [rl EXCEPT !.s[x].hung = TRUE]
\* doPendingFunctors, after the events.
RelaySwap == /\ RelayRuns /\ rl.at = "turn" /\ rl.ready = {}
             /\ rl' = [rl EXCEPT !.batch = rl.q, !.q = << >>, !.at = "run"]
RelayRun == /\ RelayRuns /\ rl.at = "run" /\ rl.batch # << >>
            /\ rl' = RelayFunctor([rl EXCEPT !.batch = Tail(@)], Head(rl.batch))

RelayNext == RelayPoll \/ RelaySwap \/ RelayRun \/ \E x \in RelaySides : RelayEvent(x) \/ RelayPeerGone(x)

-----------------------------------------------------------------------------
RelayBothUp == rl.s["srv"].st = "up" /\ rl.s["cli"].st = "up"
RelayHas(f) == f \in {rl.q[i] : i \in DOMAIN rl.q} \cup {rl.batch[i] : i \in DOMAIN rl.batch}
\* What one side read is in the buffers or written to the other, but for the request of socks4a.
RelayWhole == RelayBothUp => \A x \in RelaySides :
  LET y == RelayOther(x)
  IN  rl.s[x].from = rl.s[x].in + rl.s[y].out + rl.s[y].to + (IF rl.socks /\ x = "srv" THEN 1 ELSE 0)
\* A side that was stopped is started again when the other has written everything.
RelayNoStall == RelayBothUp => \A x \in RelaySides :
  LET y == RelayOther(x) IN ~rl.s[x].reading => (rl.s[y].wcb /\ rl.s[y].out > 0) \/ RelayHas(<<"complete", y>>)
\* The other side is stopped before a second read could pass the mark.
RelayBounded == ~rl.socks => \A x \in RelaySides : rl.s[x].out < RelayMark + RelayChunk

\* A tunnel (tunnel.h) under every order of reads, short writes, queued high-water and write-complete callbacks
\* and peers that leave: no byte is lost or repeated while both connections are up, neither direction stalls, the
\* buffers stay bounded, and no callback uses a connection that has gone, except in the two cases of
\* early and cut.
RelaySound == RelayWhole /\ RelayNoStall /\ RelayBounded /\ (rl.fault # "none" => rl.early \/ rl.cut)
=============================================================================
