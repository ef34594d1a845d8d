------------------------------ MODULE TcpClient ------------------------------
(***************************************************************************)
(* Upstream TcpClient and its Connector: attempts to connect, retries with *)
(* a growing delay, reconnection, stop, disconnect and destruction.        *)
(*                                                                         *)
(* The application calls from a thread of its own, one statement at a time *)
(* (user lists the ones left), while the loop's thread polls, fires timers *)
(* and runs batches of functors.  The TcpConnection is reduced to being up *)
(* or not and to whom its closeCallback_ belongs.  fault names an assertion *)
(* that failed or an object used after its end.                            *)
(***************************************************************************)
EXTENDS Integers, Sequences, SequencesExt

CONSTANTS MaxRetryDelay,   \* kMaxRetryDelayMs in units of kInitRetryDelayMs
          MaxCalls,        \* bound: calls by the application
          MaxAttempts,     \* bound: sockets made
          KeepAlive        \* polls within the second that removeConnector waits

VARIABLE cli

ClientInit == cli \in [retry : BOOLEAN, cconnect : {TRUE}, connect : {FALSE}, state : {"kDisconnected"},
                       chan : {"none"}, sock : {FALSE}, delay : {1}, timers : {0}, ripe : {0}, conn : {"none"}, cb : {"client"},
                       client : {"alive"}, connector : {"alive"}, keep : {0}, restarting : {FALSE},
                       user : {<< >>}, queue : {<< >>}, batch : {<< >>}, phase : {"poll"}, events : {{}},
                       calls : {0}, attempts : {0}, starts : {0}, stopping : {FALSE}, stopped : {FALSE}, raced : {FALSE},
                       hasty : {FALSE}, inLoop : {TRUE}, fault : {"none"}]

ClientFault(c, what) == [c EXCEPT !.fault = IF @ = "none" THEN what ELSE @]
ClientQueue(c, f) == [c EXCEPT !.queue = Append(@, f)]

ClientDelay(d) == IF 2 * d < MaxRetryDelay THEN 2 * d ELSE MaxRetryDelay

\* Connector::retry: the timer keeps the Connector alive.
ClientRetry(c) ==
  LET d == [c EXCEPT !.sock = FALSE, !.state = "kDisconnected"]
  IN  IF c.connect THEN [d EXCEPT !.timers = @ + 1, !.delay = ClientDelay(@)] ELSE d

ClientConnecting(c) ==
  [(IF c.chan = "none" THEN c ELSE ClientFault(c, "channel_ in use"))
     EXCEPT !.state = "kConnecting", !.chan = "added", !.sock = TRUE]

\* Connector::connect: in progress, refused or failed for good.
ClientConnect(c) == IF c.attempts = MaxAttempts THEN {c}
                    ELSE LET d == [c EXCEPT !.attempts = @ + 1]
                         IN  {ClientConnecting(d), ClientRetry(d), d}

ClientStartInLoop(c) ==
  LET d == IF c.state = "kDisconnected" THEN c ELSE ClientFault(c, "started twice")
  IN  IF c.connect THEN ClientConnect(d) ELSE {d}

ClientRemoveChannel(c) == ClientQueue([c EXCEPT !.chan = "removed"], "resetChannel")

ClientStopInLoop(c) ==
  IF c.state = "kConnecting" THEN ClientRetry(ClientRemoveChannel(c)) ELSE c

\* TcpClient::newConnection, or the socket is closed if stop() came in between.
ClientNewConnection_Always(c) ==
  (IF c.client = "alive" THEN [c EXCEPT !.conn = "up", !.cb = "client"] ELSE ClientFault(c, "dead client"))
ClientNewConnection(c) ==
  CASE ~c.connect -> [c EXCEPT !.sock = FALSE]
    [] c.connect /\ c.client = "alive" -> [c EXCEPT !.conn = "up", !.cb = "client", !.sock = FALSE]
    [] OTHER -> ClientFault(c, "dead client")

ClientPolling == cli.phase = "poll" /\ ~cli.restarting
\* An event that this poll may have reported: one for what was there when it began.
ClientEvent(e) == ClientPolling /\ e \in cli.events
ClientSeen(e) == [cli EXCEPT !.events = @ \ {e}]

\* Connector::handleWrite, with an error, connected to itself, or connected.
ClientHandleWrite(ok) ==
  /\ ClientEvent("channel") /\ cli.state = "kConnecting"
  /\ LET c == ClientRemoveChannel(ClientSeen("channel"))
     IN  cli' = IF ok THEN ClientNewConnection([c EXCEPT !.state = "kConnected"]) ELSE ClientRetry(c)

\* handleError; the handleWrite that follows in the same event finds kDisconnected.
ClientHandleError == /\ ClientEvent("channel") /\ cli.state = "kConnecting"
                     /\ cli' = ClientRetry(ClientRemoveChannel(ClientSeen("channel")))

ClientRetryTimer == /\ ClientEvent("timer")
                    /\ cli' \in ClientStartInLoop([ClientSeen("timer") EXCEPT !.timers = @ - 1])

\* TcpConnection::handleClose and closeCallback_: TcpClient::removeConnection, or the
\* function that the destructor put in its place.
ClientConnCloses(c) ==
  LET d == ClientQueue([c EXCEPT !.conn = "down"], "connectDestroyed")
  IN  CASE c.cb = "detached" -> d
        [] c.cb = "client" /\ c.client = "dead" -> ClientFault(c, "dead client")
        [] OTHER -> [d EXCEPT !.restarting = c.retry /\ c.cconnect]

ClientPeerCloses == ClientEvent("conn") /\ cli.conn = "up" /\ cli' = ClientConnCloses(ClientSeen("conn"))

\* The rest of removeConnection: Connector::restart.
ClientRestart ==
  /\ cli.restarting
  /\ cli' \in ClientStartInLoop([cli EXCEPT !.restarting = FALSE, !.state = "kDisconnected", !.delay = 1,
                                            !.connect = TRUE, !.raced = @ \/ ~cli.cconnect])

\* The functors bound to the Connector's bare address.
ClientRawFunctors == {"startInLoop", "stopInLoop", "resetChannel"}

ClientRunFunctor(c, f) ==
  CASE c.connector = "dead" /\ f \in ClientRawFunctors -> {ClientFault(c, "dead connector")}
    [] c.connector = "alive" /\ f = "startInLoop" -> ClientStartInLoop(c)
    [] c.connector = "alive" /\ f = "stopInLoop" -> {[ClientStopInLoop(c) EXCEPT
                                                          !.stopped = c.stopping /\ c.user = << >> /\ "stopInLoop" \notin ToSet(c.batch \o c.queue)]}
    [] c.connector = "alive" /\ f = "resetChannel" -> {[c EXCEPT !.chan = "none"]}
    [] f = "setCloseCallback" -> {[c EXCEPT !.cb = "detached"]}
    [] f = "forceClose" -> IF c.conn = "up" THEN {ClientConnCloses(c)} ELSE {c}
    [] f = "connectDestroyed" -> {[c EXCEPT !.conn = "none"]}

ClientFunctor == /\ cli.phase = "functors" /\ cli.batch # << >> /\ ~cli.restarting
                 /\ cli' \in ClientRunFunctor([cli EXCEPT !.batch = Tail(@)], Head(cli.batch))

\* doPendingFunctors' swap.
ClientSwap == /\ ClientPolling
              /\ cli' = [cli EXCEPT !.phase = "functors", !.batch = cli.queue, !.queue = << >>, !.events = {}]

\* ~Connector, once neither the TcpClient nor a timer holds it.
ClientDropConnector(c) ==
  IF c.client = "dead" /\ c.keep = 0 /\ c.timers = 0 /\ c.connector = "alive"
    THEN [(IF c.chan = "none" THEN c ELSE ClientFault(c, "channel_ alive")) EXCEPT !.connector = "dead"]
    ELSE c

\* The next poll; after KeepAlive of them removeConnector's timer lets go.  A retry
\* timer, of half a second at least, is not due at the first poll that it meets.
ClientPoll ==
  LET c == [cli EXCEPT !.phase = "poll", !.keep = IF @ > 0 THEN @ - 1 ELSE 0, !.ripe = cli.timers,
                       !.events = (IF cli.chan = "added" THEN {"channel"} ELSE {})
                                  \cup (IF cli.ripe > 0 /\ cli.timers > 0 THEN {"timer"} ELSE {})
                                  \cup (IF cli.conn = "up" THEN {"conn"} ELSE {})]
  IN  /\ cli.phase = "functors" /\ cli.batch = << >> /\ ~cli.restarting
      /\ cli' = ClientDropConnector(c)

-----------------------------------------------------------------------------
\* What the application does, from its own thread.
ClientConnectCall == <<"cconnect", "connect", "startInLoop">>
ClientStopCall == <<"cdisconnect", "disconnect", "stopInLoop">>

ClientCall(stmts) == /\ cli.client = "alive" /\ cli.user = << >> /\ cli.calls < MaxCalls
                     /\ cli' = [cli EXCEPT !.user = stmts, !.calls = @ + 1,
                                           !.starts = IF stmts = ClientConnectCall THEN @ + 1 ELSE @,
                                           !.stopping = @ \/ (stmts = ClientStopCall /\ cli.starts > 0)]

ClientStatement ==
  LET s == Head(cli.user)
      c == [cli EXCEPT !.user = Tail(@)]
  IN  /\ cli.user # << >>
      /\ cli' = CASE s = "cconnect" -> [c EXCEPT !.cconnect = TRUE]
                  [] s = "cdisconnect" -> [c EXCEPT !.cconnect = FALSE]
                  [] s = "connect" -> [c EXCEPT !.connect = TRUE]
                  [] s = "disconnect" -> [c EXCEPT !.connect = FALSE]
                  [] s = "shutdown" -> c     \* a half-close; the peer's close is ClientPeerCloses
                  [] OTHER -> ClientQueue(c, s)

\* ~TcpClient, in the loop's thread (a functor) or in another; user code that holds
\* no other reference to the connection makes it unique.
ClientDestroy(inLoop, unique) ==
  LET c == [cli EXCEPT !.client = "dead", !.inLoop = inLoop, !.stopping = TRUE,
                         !.hasty = cli.conn = "up" /\ ToSet(cli.batch \o cli.queue) \cap ClientRawFunctors # {}]
      close(d) == IF unique THEN ClientQueue(d, "forceClose") ELSE d
  IN  /\ cli.client = "alive" /\ cli.user = << >>
      /\ inLoop => cli.phase = "functors" /\ ~cli.restarting
      /\ cli' = IF cli.conn = "up"
                  THEN ClientDropConnector(close(IF inLoop THEN [c EXCEPT !.cb = "detached"]
                                                           ELSE ClientQueue(c, "setCloseCallback")))
                  ELSE ClientQueue([c EXCEPT !.connect = FALSE, !.keep = KeepAlive], "stopInLoop")

ClientNext ==
  \/ ClientHandleError \/ ClientRetryTimer \/ ClientPeerCloses \/ ClientRestart
  \/ ClientFunctor \/ ClientSwap \/ ClientPoll \/ ClientStatement
  \/ \E ok \in BOOLEAN : ClientHandleWrite(ok)
  \/ \E s \in {ClientConnectCall, ClientStopCall, <<"cdisconnect", "shutdown">>} : ClientCall(s)
  \/ \E i, u \in BOOLEAN : ClientDestroy(i, u)

(* The application calls connect() once, and destroys the client in the loop's   *)
(* thread, with a connection up only when no functor of the Connector is queued. *)
ClientPolite == cli.starts <= 1 /\ cli.inLoop /\ ~cli.hasty

(* A polite application meets no failed assertion and no dead object: the        *)
(* Channel of one attempt is gone before the next, the Connector outlives its   *)
(* functors, and a connection never reports to a client that is gone.           *)
ClientNoFault == ClientPolite => cli.fault = "none"

(* For a polite application an attempt is under way exactly while its socket    *)
(* and its Channel are there, and no socket is left open behind it.             *)
ClientOneAttempt ==
  ClientPolite =>
    /\ cli.state = "kConnecting" <=> cli.chan = "added"
    /\ cli.sock <=> cli.state = "kConnecting"
    /\ cli.timers <= 1 /\ (cli.timers = 1 => cli.state = "kDisconnected")

(* Once stop() has run in the loop nothing connects again, unless the stop fell   *)
(* between removeConnection's test of connect_ and the restart that follows it.  *)
ClientStaysStopped ==
  ClientPolite /\ cli.stopped /\ ~cli.raced =>
    ~cli.connect /\ cli.state # "kConnecting" /\ ~cli.restarting

(* What a TcpClient owes an application that starts it once.                      *)
ClientSound == ClientNoFault /\ ClientOneAttempt /\ ClientStaysStopped
=============================================================================
