------------------------------- MODULE Thrift -------------------------------
(***************************************************************************)
(* contrib/thrift: a ThriftServer and one of its ThriftConnections, with   *)
(* the requests processed in the connection's loop or in a pool of worker  *)
(* threads.  A request is a number, and its frame a size and so many cells.*)
(* The processor is the application's; it throws for request ThrBad.       *)
(***************************************************************************)
EXTENDS Naturals, Sequences, SequencesExt

CONSTANTS ThrRequests,     \* how many requests the client sends
          ThrWorkers       \* the worker threads, when there is a pool

(* pool: numWorkerThreads_ > 0; running: the pool is; conn: the            *)
(* TcpConnection; held: conns_ owns the ThriftConnection; wire, buf: cells *)
(* on the way and in the input buffer; state, size: the frame parser;      *)
(* input, output: the two TMemoryBuffers; queue: tasks of the pool; at:    *)
(* what each worker is doing.  History: sent, replies, calm, fault.        *)
VARIABLE thr

ThrBad == ThrRequests      \* the last request is one the processor refuses

(* ThriftServer::start, before the first connection.                       *)
ThrInit == \E p \in BOOLEAN :
  thr = [pool |-> p, running |-> p, conn |-> "none", held |-> FALSE, wire |-> <<>>, buf |-> <<>>,
         state |-> "size", size |-> 0, input |-> <<>>, output |-> <<>>, queue |-> 0,
         at |-> [w \in ThrWorkers |-> "idle"], sent |-> <<>>, replies |-> <<>>,
         calm |-> TRUE, fault |-> FALSE]

-----------------------------------------------------------------------------
(* ThriftServer::onConnection: a ThriftConnection for a new connection, in *)
(* its initial state; the last reference to it goes with the connection.   *)
ThrUp ==
  /\ thr.conn = "none"
  /\ thr' = [thr EXCEPT !.conn = "up", !.held = TRUE, !.state = "size", !.size = 0]

ThrDown ==
  /\ thr.conn = "up"
  /\ thr' = [thr EXCEPT !.conn = "down", !.held = FALSE, !.wire = <<>>]

(* The processor's answer to what it finds in the input transport.         *)
ThrAnswers(input) == input # <<>> /\ Last(input) # ThrBad

ThrProcess_Always(t) == IF t.input # <<>>
  THEN [t EXCEPT !.output = t.input, !.replies = Append(@, Last(t.input))] ELSE t

(* ThriftConnection::process, in the connection's loop: an exception closes*)
(* the transports only, so the client gets no answer and stays connected.  *)
ThrProcess(t) == IF ThrAnswers(t.input)
  THEN [t EXCEPT !.output = t.input, !.replies = Append(@, Last(t.input))] ELSE t

(* The task handed to the pool; a pool that was stopped drops it.          *)
ThrSubmit(t) == IF t.running THEN [t EXCEPT !.queue = @ + 1] ELSE t

RECURSIVE ThrOnMessage(_)
(* ThriftConnection::onMessage *)
ThrOnMessage(t) ==
  CASE t.state = "size" /\ t.buf # <<>> ->
         ThrOnMessage([t EXCEPT !.size = Head(t.buf), !.buf = Tail(@), !.state = "frame"])
    [] t.state = "frame" /\ Len(t.buf) >= t.size ->
         LET u == [t EXCEPT !.input = SubSeq(t.buf, 1, t.size), !.output = <<>>,
                            !.buf = SubSeq(@, t.size + 1, Len(@)), !.state = "size"]
         IN ThrOnMessage(IF t.pool THEN ThrSubmit(u) ELSE ThrProcess(u))
    [] OTHER -> t

ThrRead == \E n \in 1..Len(thr.wire) :
  /\ thr.conn = "up"
  /\ thr' = ThrOnMessage([thr EXCEPT !.buf = @ \o SubSeq(thr.wire, 1, n),
                                     !.wire = SubSeq(@, n + 1, Len(@))])

(* ThriftConnection::process in a worker: it reads the input transport and *)
(* fills the output transport, then sends what that holds.  The task holds *)
(* a plain pointer to the ThriftConnection.                                *)
ThrTake == \E w \in ThrWorkers :
  /\ thr.running /\ thr.queue > 0 /\ thr.at[w] = "idle" /\ ~thr.fault
  /\ thr' = IF ~thr.held THEN [thr EXCEPT !.fault = TRUE]
            ELSE [thr EXCEPT !.queue = @ - 1,
                             !.at[w] = IF ThrAnswers(thr.input) THEN "send" ELSE "idle",
                             !.output = IF ThrAnswers(thr.input) THEN @ \o thr.input ELSE @]

ThrSend == \E w \in ThrWorkers :
  /\ thr.at[w] = "send" /\ ~thr.fault
  /\ thr' = IF ~thr.held THEN [thr EXCEPT !.fault = TRUE]
            ELSE [thr EXCEPT !.at[w] = "idle",
                             !.replies = IF thr.output # <<>> THEN Append(@, Last(thr.output)) ELSE @]

(* ThriftServer::stop *)
ThrStop ==
  /\ thr.running
  /\ thr' = [thr EXCEPT !.running = FALSE]

(* The client sends request r, whose frame holds k copies of it; it is     *)
(* patient if the answers to the earlier ones are there.                   *)
ThrClientSend == \E k \in 0..2 :
  LET r == Len(thr.sent) + 1
  IN /\ thr.conn = "up" /\ r <= ThrRequests
     /\ thr' = [thr EXCEPT !.sent = Append(@, k), !.calm = @ /\ Len(thr.replies) = Len(thr.sent),
                           !.wire = @ \o <<k>> \o [i \in 1..k |-> r]]

ThrNext == \/ ThrUp \/ ThrDown \/ ThrRead \/ ThrTake \/ ThrSend \/ ThrStop \/ ThrClientSend

-----------------------------------------------------------------------------
(* The requests that have an answer, in the order they were sent.          *)
ThrOwed == SelectSeq([i \in DOMAIN thr.sent |-> i], LAMBDA i : thr.sent[i] > 0 /\ i # ThrBad)

(* In the loop, or with a client that waits for every answer, requests are *)
(* answered once each and in order, however their frames are cut; the      *)
(* transports that all requests of a connection share are never mixed up.  *)
(* (With a pool, a client that does not wait is out of luck.)              *)
ThrExact == ~thr.pool \/ thr.calm =>
  /\ IsPrefix(thr.replies, ThrOwed)
  /\ ~thr.pool /\ thr.wire = <<>> /\ thr.conn = "up" => thr.replies = ThrOwed
  /\ thr.pool /\ thr.running /\ thr.wire = <<>> /\ thr.conn = "up" /\ thr.queue = 0
       /\ (\A w \in ThrWorkers : thr.at[w] = "idle") => thr.replies = ThrOwed

(* A freed ThriftConnection is used only by a worker, and only when the    *)
(* connection ended with a request still in the pool.                      *)
ThrAlive == thr.fault => thr.pool /\ ~thr.held /\ Len(thr.replies) < Len(thr.sent)

(* The Thrift server, whole.                                               *)
ThriftSound == ThrExact /\ ThrAlive
=============================================================================
