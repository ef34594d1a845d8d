----------------------------- MODULE Multiplexer -----------------------------
(***************************************************************************)
(* The multiplexer example: a MultiplexServer carries the bytes of many    *)
(* clients over one backend connection to a DemuxServer, which opens one   *)
(* connection to a socks server for each.  Both MultiplexServers are here, *)
(* the one with a single loop and the one with threads and a mutex_        *)
(* (mx.threaded), where a client's callback is two steps.                  *)
(*                                                                         *)
(* backend: which backend connection is up, 0 for none; avail, owner:      *)
(* availIds_ and clientConns_; cl[c]: a client's connection, its context   *)
(* and what its callback still does; up and down: packets on the backend   *)
(* connection; noticed: the DemuxServer has handled the end of the last    *)
(* one; socks[id]: its entry for id.  A byte is <<client, number>>.        *)
(* History: stale, a client of an earlier backend connection used its id   *)
(* again; fault, the first assertion that failed.                          *)
(***************************************************************************)
EXTENDS Integers, Sequences, FiniteSets, SequencesExt

CONSTANTS MuxClients,    \* client connections
          MuxIds,        \* kMaxConns
          MuxPacket,     \* kMaxPacketLen
          MuxSizes,      \* lengths of what a client sends at a time
          MuxBytes,      \* bound: bytes of a client
          MuxBackends    \* bound: backend connections made

VARIABLE mx

MuxNoEntry == [st |-> "none", pending |-> << >>, got |-> << >>, of |-> 0]

MuxInit == mx \in [threaded : BOOLEAN, backend : {0}, made : {0}, avail : {<< >>},
                   owner : {[i \in 1..MuxIds |-> 0]},
                   cl : {[c \in MuxClients |-> [st |-> "none", ctx |-> 0, epoch |-> 0, at |-> "idle", sent |-> 0]]},
                   up : {<< >>}, down : {<< >>}, noticed : {TRUE}, socks : {[i \in 1..MuxIds |-> MuxNoEntry]},
                   stale : {FALSE}, fault : {"none"}]

MuxFault(m, ok, what) == IF ok \/ m.fault # "none" THEN m ELSE [m EXCEPT !.fault = what]

\* After a failed assertion, or once ids are confused, nothing more is followed.
MuxRuns == mx.fault = "none" /\ ~mx.stale

\* sendBackendPacket: dropped when there is no backend.
MuxSend(m, id, payload) == IF m.backend = 0 THEN m
                           ELSE [m EXCEPT !.up = Append(@, [id |-> id, load |-> payload])]
MuxCommand(m, c, word) == MuxSend(m, 0, <<word, m.cl[c].ctx, c>>)

\* sendBackendBuffer: packets of at most kMaxPacketLen.
MuxCut(bytes, i) == SubSeq(bytes, (i - 1) * MuxPacket + 1, IF i * MuxPacket < Len(bytes) THEN i * MuxPacket ELSE Len(bytes))
MuxPackets(id, bytes) == [i \in 1..((Len(bytes) + MuxPacket - 1) \div MuxPacket) |-> [id |-> id, load |-> MuxCut(bytes, i)]]

MuxIsStale(m, c) == m.cl[c].ctx # 0 /\ m.cl[c].epoch # m.backend /\ m.backend # 0

-----------------------------------------------------------------------------
\* onClientConnection, up: an id under the lock, then the context and the announcement.
MuxAllot(m, c) == IF m.avail = << >> THEN [m EXCEPT !.cl[c].st = "half", !.cl[c].at = "idle"]
                  ELSE [m EXCEPT !.avail = Tail(@), !.owner[Head(m.avail)] = c,
                                 !.cl[c] = [@ EXCEPT !.st = "up", !.ctx = Head(m.avail), !.epoch = m.backend, !.at = "announce"]]
MuxAnnounce(m, c) == [MuxCommand(m, c, "up") EXCEPT !.cl[c].at = "idle", !.stale = @ \/ MuxIsStale(m, c)]
MuxClientUp(c) == MuxRuns /\ mx.threaded /\ mx.cl[c].st = "none" /\ mx' = MuxAllot(mx, c)
MuxSimpleClientUp(c) ==
  /\ MuxRuns /\ ~mx.threaded /\ mx.cl[c].st = "none"
  /\ LET m == MuxAllot(mx, c) IN mx' = IF m.cl[c].at = "announce" THEN MuxAnnounce(m, c) ELSE m
MuxClientAnnounced(c) == MuxRuns /\ mx.cl[c].at = "announce" /\ mx' = MuxAnnounce(mx, c)

\* onClientConnection, down: the announcement first, then the id back under the lock.
MuxSayDown(m, c) == IF m.cl[c].ctx = 0 THEN [m EXCEPT !.cl[c].st = "closed"]
                    ELSE [MuxCommand(m, c, "down") EXCEPT !.cl[c].st = "closed", !.cl[c].at = "free",
                                                         !.stale = @ \/ MuxIsStale(m, c)]
MuxFree(m, c) == LET n == [m EXCEPT !.cl[c].at = "idle", !.stale = @ \/ MuxIsStale(m, c)] IN
                 IF m.backend # 0 THEN [n EXCEPT !.avail = Append(@, m.cl[c].ctx), !.owner[m.cl[c].ctx] = 0]
                 ELSE MuxFault(n, n.avail = << >> /\ \A i \in 1..MuxIds : n.owner[i] = 0, "ids left")
MuxClientDown(c) == /\ MuxRuns /\ mx.threaded /\ mx.cl[c].st \in {"up", "half"} /\ mx.cl[c].at = "idle"
                    /\ mx' = MuxSayDown(mx, c)
MuxSimpleClientDown(c) ==
  /\ MuxRuns /\ ~mx.threaded /\ mx.cl[c].st \in {"up", "half"}
  /\ LET m == MuxSayDown(mx, c) IN mx' = IF m.cl[c].at = "free" THEN MuxFree(m, c) ELSE m
MuxClientFreed(c) == MuxRuns /\ mx.cl[c].at = "free" /\ mx' = MuxFree(mx, c)

\* onClientMessage.
MuxClientMessage(c, k) ==
  /\ MuxRuns /\ mx.cl[c].st \in {"up", "half"} /\ mx.cl[c].at = "idle" /\ mx.cl[c].sent + k <= MuxBytes
  /\ LET bytes == [i \in 1..k |-> <<c, mx.cl[c].sent + i>>]
         m == [mx EXCEPT !.cl[c].sent = @ + k, !.stale = @ \/ MuxIsStale(mx, c)]
     IN  mx' = IF mx.cl[c].ctx = 0 \/ mx.backend = 0 THEN m
               ELSE [m EXCEPT !.up = @ \o MuxPackets(mx.cl[c].ctx, bytes)]

\* onBackendConnection, up and down.
MuxBackendUp == /\ MuxRuns /\ mx.backend = 0 /\ mx.made < MuxBackends /\ mx.noticed
                /\ mx' = [MuxFault(mx, mx.avail = << >>, "ids left") EXCEPT
                            !.backend = mx.made + 1, !.made = @ + 1, !.avail = [i \in 1..MuxIds |-> i]]
MuxBackendDown ==
  /\ MuxRuns /\ mx.backend # 0
  /\ mx' = [mx EXCEPT !.backend = 0, !.avail = << >>, !.owner = [i \in 1..MuxIds |-> 0], !.up = << >>, !.down = << >>,
                      !.noticed = FALSE,
                      !.cl = [c \in MuxClients |-> IF \E i \in 1..MuxIds : mx.owner[i] = c /\ mx.cl[c].st = "up"
                                                   THEN [@[c] EXCEPT !.st = "half"] ELSE @[c]]]

\* onBackendMessage: a packet goes to its client; only the simple server obeys DISCONNECT.
MuxDoCommand(m, c) == IF c # 0 /\ m.cl[c].st = "up" THEN [m EXCEPT !.cl[c].st = "half"] ELSE m
MuxBackendMessage ==
  /\ MuxRuns /\ mx.threaded /\ mx.down # << >>
  /\ mx' = [mx EXCEPT !.down = Tail(@)]
MuxSimpleBackendMessage ==
  /\ MuxRuns /\ ~mx.threaded /\ mx.down # << >>
  /\ LET p == Head(mx.down)
         m == [mx EXCEPT !.down = Tail(@)]
     IN  mx' = IF p.id = 0 THEN MuxDoCommand(m, m.owner[p.load[2]]) ELSE m

-----------------------------------------------------------------------------
\* DemuxServer::onServerMessage and doCommand.
DemuxData(m, id, bytes) ==
  LET e == m.socks[id] IN
  CASE e.st = "none" -> MuxFault(m, FALSE, "no entry")
    [] e.st = "connecting" -> [m EXCEPT !.socks[id].pending = @ \o bytes]
    [] e.st = "up" -> [MuxFault(m, e.pending = << >>, "pending") EXCEPT !.socks[id].got = @ \o bytes]
    [] e.st \in {"half", "closed"} -> m
DemuxCommand(m, word, id, c) ==
  LET e == m.socks[id] IN
  CASE word = "up"   -> [MuxFault(m, e.st = "none", "id known") EXCEPT
                           !.socks[id] = [MuxNoEntry EXCEPT !.st = "connecting", !.of = c]]
    [] word = "down" /\ e.st = "none" -> MuxFault(m, FALSE, "no entry")
    [] word = "down" /\ e.st = "connecting" -> [m EXCEPT !.socks[id] = MuxNoEntry]
    [] word = "down" /\ e.st = "up" -> [m EXCEPT !.socks[id].st = "half"]
    [] OTHER -> m
DemuxServerMessage ==
  /\ MuxRuns /\ mx.up # << >>
  /\ LET p == Head(mx.up)
         m == [mx EXCEPT !.up = Tail(@)]
     IN  mx' = IF p.id = 0 THEN DemuxCommand(m, p.load[1], p.load[2], p.load[3]) ELSE DemuxData(m, p.id, p.load)

\* onServerConnection, down: the entries are cleared, and with them their TcpClients,
\* whose live connections then call onSocksConnection for an id that is gone.
DemuxServerDown ==
  /\ MuxRuns /\ ~mx.noticed
  /\ mx' = [MuxFault(mx, \A i \in 1..MuxIds : mx.socks[i].st \notin {"up", "half"}, "cleared") EXCEPT
              !.noticed = TRUE, !.socks = [i \in 1..MuxIds |-> MuxNoEntry]]

\* onSocksConnection, up: what was kept goes first; down: only the peer is told.
DemuxSocksUp_KeepsPending(i) == /\ MuxRuns /\ mx.socks[i].st = "connecting"
                                /\ mx' = [mx EXCEPT !.socks[i].st = "up"]
DemuxSocksUp(i) == /\ MuxRuns /\ mx.socks[i].st = "connecting"
                   /\ mx' = [mx EXCEPT !.socks[i] = [@ EXCEPT !.st = "up", !.got = @ \o mx.socks[i].pending, !.pending = << >>]]
DemuxSocksDown(i) ==
  /\ MuxRuns /\ mx.socks[i].st \in {"up", "half"} /\ mx.backend # 0
  /\ mx' = [mx EXCEPT !.socks[i].st = "closed", !.down = Append(@, [id |-> 0, load |-> <<"disconnect", i>>])]

\* onSocksMessage: the answer, cut into packets; its bytes are not told apart.
DemuxSocksMessage(i) == /\ MuxRuns /\ mx.socks[i].st \in {"up", "half"} /\ mx.backend # 0 /\ Len(mx.down) < 1
                        /\ mx' = [mx EXCEPT !.down = Append(@, [id |-> i, load |-> <<"data", mx.socks[i].of>>])]

MuxNext == \/ \E c \in MuxClients : \/ MuxClientUp(c) \/ MuxClientAnnounced(c) \/ MuxClientDown(c) \/ MuxClientFreed(c)
                                    \/ MuxSimpleClientUp(c) \/ MuxSimpleClientDown(c)
                                    \/ \E k \in MuxSizes : MuxClientMessage(c, k)
           \/ MuxBackendUp \/ MuxBackendDown \/ MuxBackendMessage \/ MuxSimpleBackendMessage
           \/ DemuxServerMessage \/ DemuxServerDown
           \/ \E i \in 1..MuxIds : DemuxSocksUp(i) \/ DemuxSocksDown(i) \/ DemuxSocksMessage(i)

\* No id is handed out twice, and a client in the map knows its id.
MuxIdsUnique ==
  /\ \A i, j \in DOMAIN mx.avail : i # j => mx.avail[i] # mx.avail[j]
  /\ \A i \in DOMAIN mx.avail : mx.owner[mx.avail[i]] = 0
  /\ \A i \in 1..MuxIds : mx.owner[i] # 0 => mx.cl[mx.owner[i]].ctx = i

\* A socks connection gets the bytes of one client only, from the first on, in order.
MuxStreams == \A i \in 1..MuxIds :
  LET got == mx.socks[i].got \o mx.socks[i].pending
  IN  \A k \in DOMAIN got : got[k] = <<mx.socks[i].of, k>>

(* Ids, announcements and bytes stay in step on the two sides of the backend       *)
(* connection, whatever the threads, the clients and the socks server do.  Excepted *)
(* are a client that outlives its backend connection and then uses its id again, an *)
(* id used again while the DemuxServer still holds its entry (it never drops one    *)
(* that was connected), and the entries cleared under live connections.             *)
MuxSound == ~mx.stale => /\ mx.fault \in {"none", "id known", "cleared"}
                         /\ MuxIdsUnique /\ (mx.fault = "none" => MuxStreams)
=============================================================================
