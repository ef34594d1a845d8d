-------------------------------- MODULE Fetch --------------------------------
(***************************************************************************)
(* Three libraries with an event interface of their own put on an          *)
(* EventLoop: libcurl with the downloader that uses it (examples/curl),    *)
(* c-ares (examples/cdns) and hiredis (contrib/hiredis).  What the         *)
(* libraries do is taken from the calls they make.                         *)
(***************************************************************************)
EXTENDS Integers, Sequences, FiniteSets, SequencesExt

CONSTANTS FetchLengths,   \* lengths of the file, in blocks
          FetchPieces,    \* kConcurrent
          FetchMin,       \* the blocks a piece must have
          DnsQueries,     \* names that are resolved
          RedisCommands   \* bound: commands

(* kind: which adapter.  curl: alive and finished, the requests libcurl    *)
(* works on and those it has finished without being asked about; chan,     *)
(* those with a Channel; running, prev, the two counters; done, how often  *)
(* done was called; range, what a request asks for.                        *)
VARIABLE ft

CurlAll == 0..FetchPieces
CurlStart == [alive |-> {}, finished |-> {}, chan |-> {}, held |-> {}, running |-> 0, prev |-> 0,
              done |-> [r \in CurlAll |-> 0], range |-> <<>>, single |-> FALSE, found |-> FALSE, ranges |-> FALSE,
              length |-> 0, concurrent |-> 0, quit |-> FALSE, noFile |-> FALSE, broken |-> FALSE, begun |-> FALSE]
DnsStart == [waiting |-> {}, answers |-> [q \in DnsQueries |-> 0], asked |-> {}, sock |-> FALSE,
             timers |-> 0, active |-> FALSE, failed |-> ""]
RedisStart == [context |-> "none", chan |-> FALSE, watched |-> FALSE, held |-> 0, pending |-> <<>>, replies |-> <<>>,
               given |-> 0, told |-> <<>>, leaving |-> FALSE, broken |-> FALSE]
FetchInit == \E k \in {"curl", "dns", "redis"} :
               ft = [kind |-> k, curl |-> CurlStart, dns |-> DnsStart, redis |-> RedisStart]

-----------------------------------------------------------------------------
CurlSet(c) == ft' = [ft EXCEPT !.curl = c]
CurlReady == ft.kind = "curl" /\ ft.curl.begun /\ ~ft.curl.quit

(* Curl::getUrl with Request::Request: the handle is libcurl's at once.    *)
CurlGetUrl(c, r) == [c EXCEPT !.alive = @ \cup {r}]
(* Downloader::Downloader asks for the header only.                        *)
CurlBegin == ft.kind = "curl" /\ ~ft.curl.begun /\ CurlSet([CurlGetUrl(ft.curl, 0) EXCEPT !.begun = TRUE])

(* Downloader::onHeader *)
CurlOnHeader(c) == {[c EXCEPT !.found = f, !.ranges = a, !.length = n] :
                      f \in BOOLEAN, a \in BOOLEAN, n \in FetchLengths}

CurlConcurrentDownload_Rounded(c) ==
  LET piece == c.length \div FetchPieces
  IN [c EXCEPT !.alive = @ \cup 1..FetchPieces, !.range = [i \in 1..FetchPieces |-> <<(i - 1) * piece, i * piece - 1>>]]
(* Downloader::concurrentDownload when every file can be created: the last *)
(* piece takes the rest.                                                   *)
CurlConcurrentDownload(c) ==
  LET piece == c.length \div FetchPieces
  IN [c EXCEPT !.alive = @ \cup 1..FetchPieces,
               !.range = [i \in 1..FetchPieces |->
                            <<(i - 1) * piece, IF i < FetchPieces THEN i * piece - 1 ELSE c.length - 1>>]]
(* Downloader::onHeaderDone.  The result: a file may not be created.       *)
CurlOnHeaderDone(c) ==
  IF c.ranges /\ c.length >= FetchPieces * FetchMin
  THEN {CurlConcurrentDownload([c EXCEPT !.concurrent = FetchPieces]), [c EXCEPT !.quit = TRUE, !.noFile = TRUE]}
  ELSE IF c.found THEN {[CurlGetUrl(c, 1) EXCEPT !.concurrent = 1, !.single = TRUE],
                        [c EXCEPT !.quit = TRUE, !.noFile = TRUE]}
  ELSE {[c EXCEPT !.quit = TRUE, !.noFile = TRUE]}
(* Downloader::onDownloadDone, from Piece::onDone or by itself.            *)
CurlOnDownloadDone(c) == [c EXCEPT !.concurrent = @ - 1, !.quit = c.concurrent <= 1]

(* Request::done: the request is dropped by its owner in the callback.     *)
CurlDone(c, r) ==
  LET d == [c EXCEPT !.finished = @ \ {r}, !.done[r] = @ + 1]
  IN IF r = 0 THEN CurlOnHeaderDone(d) ELSE {CurlOnDownloadDone(d)}
RECURSIVE CurlDrain(_)
CurlDrain(S) == IF \A c \in S : c.finished = {} THEN S
                ELSE CurlDrain(UNION {IF c.finished = {} THEN {c} ELSE CurlDone(c, CHOOSE r \in c.finished : TRUE) : c \in S})

CurlCheckFinish_Fewer(c) ==
  {[d EXCEPT !.prev = d.running] : d \in IF c.prev > c.running THEN CurlDrain({c}) ELSE {c}}
(* Curl::checkFinish *)
CurlCheckFinish(c) ==
  {[d EXCEPT !.prev = d.running] : d \in IF c.prev > c.running \/ c.running = 0 THEN CurlDrain({c}) ELSE {c}}

(* Curl::socketCallback with Request::setChannel: a Channel the first time.*)
CurlSocketCallback(c, r) == IF r \in c.chan THEN c ELSE [c EXCEPT !.chan = @ \cup {r}]
CurlRemoveChannel_Now(c, r, at) ==
  IF r \notin c.chan THEN c
  ELSE [c EXCEPT !.chan = @ \ {r}, !.held = @, !.broken = @ \/ (r = at /\ r \notin c.held)]
(* Request::removeChannel: a functor keeps the Channel, whose handler may  *)
(* be running (at), until the handlers of this round are over.             *)
CurlRemoveChannel(c, r, at) ==
  IF r \notin c.chan THEN c
  ELSE LET h == [c EXCEPT !.chan = @ \ {r}, !.held = @ \cup {r}]
       IN [h EXCEPT !.broken = @ \/ (r = at /\ r \notin h.held)]

(* curl_multi_socket_action: work goes on, requests in fin come to an end. *)
CurlWork(c, at, fin) ==
  LET opened == FoldLeft(CurlSocketCallback, c, SetToSeq(c.alive \ fin))
      closed == FoldLeft(LAMBDA d, r : CurlRemoveChannel(d, r, at), opened, SetToSeq(fin))
  IN [closed EXCEPT !.alive = @ \ fin, !.finished = @ \cup fin, !.running = Cardinality(c.alive \ fin)]
(* Curl::onTimer, from timerCallback.                                      *)
CurlOnTimer == /\ CurlReady
               /\ \E fin \in SUBSET ft.curl.alive :
                    \E h \in IF 0 \in fin THEN CurlOnHeader(ft.curl) ELSE {ft.curl} :
                      \E d \in CurlCheckFinish(CurlWork(h, -1, fin)) : CurlSet(d)
(* Curl::onRead and onWrite: the Channel of r is being handled.            *)
CurlOnRead == /\ CurlReady
              /\ \E r \in ft.curl.chan, fin \in SUBSET ft.curl.alive :
                   \E h \in IF 0 \in fin THEN CurlOnHeader(ft.curl) ELSE {ft.curl} :
                     \E d \in CurlCheckFinish(CurlWork(h, r, fin)) : CurlSet(d)
(* The functors with dummy run.                                            *)
CurlDummy == CurlReady /\ ft.curl.held # {} /\ CurlSet([ft.curl EXCEPT !.held = {}])

-----------------------------------------------------------------------------
DnsSet(d) == ft' = [ft EXCEPT !.dns = d]
(* Resolver::onQueryResult, from ares_host_callback.                       *)
DnsOnQueryResult(d, S) == [d EXCEPT !.waiting = @ \ S,
                                    !.answers = [q \in DnsQueries |-> IF q \in S THEN @[q] + 1 ELSE @[q]]]
(* Resolver::onSockCreate and onSockStateChange, which destroys a Channel. *)
DnsOnSockCreate(d) == [d EXCEPT !.sock = TRUE]
DnsOnSockStateChange(d, handling) == [d EXCEPT !.sock = FALSE, !.failed = IF handling THEN "handler" ELSE @]

DnsTimed_Once(d) == d
DnsTimed(d) == IF d.active THEN d ELSE [d EXCEPT !.active = TRUE, !.timers = @ + 1]
(* Resolver::resolve: the library answers at once or sends a query.        *)
DnsResolve ==
  /\ ft.kind = "dns" /\ ft.dns.failed = ""
  /\ \E q \in DnsQueries \ ft.dns.asked :
       LET d == [ft.dns EXCEPT !.asked = @ \cup {q}, !.waiting = @ \cup {q}]
       IN \/ DnsSet(DnsTimed(DnsOnQueryResult(d, {q})))
          \/ DnsSet(DnsTimed(DnsOnSockCreate(d)))
(* Resolver::onRead: answers, or an error on the socket, which is closed.  *)
DnsOnRead == /\ ft.kind = "dns" /\ ft.dns.sock /\ ft.dns.failed = ""
             /\ \/ \E S \in SUBSET ft.dns.waiting : S # {} /\ DnsSet(DnsOnQueryResult(ft.dns, S))
                \/ DnsSet(DnsOnSockStateChange(ft.dns, TRUE))
DnsOnTimer_Idle(d) == [d EXCEPT !.timers = @ - 1, !.active = FALSE]
(* What Resolver::onTimer does after the library has looked at its queries.*)
DnsRearm(d) == IF d.waiting = {} THEN [d EXCEPT !.timers = @ - 1, !.active = FALSE] ELSE d
(* Resolver::onTimer: queries are sent again, or given up after the last   *)
(* try, and their socket may be closed.                                    *)
DnsOnTimer == /\ ft.kind = "dns" /\ ft.dns.timers > 0 /\ ft.dns.failed = ""
              /\ \E S \in SUBSET ft.dns.waiting, close \in BOOLEAN :
                   LET d == DnsOnQueryResult(ft.dns, S)
                       e == IF close /\ d.sock THEN DnsOnSockStateChange(d, FALSE) ELSE d
                       f == IF e.waiting # {} THEN DnsOnSockCreate(e) ELSE e
                   IN DnsSet(DnsRearm([f EXCEPT !.failed = IF f.active THEN @ ELSE "timer"]))

-----------------------------------------------------------------------------
RedisSet(h) == ft' = [ft EXCEPT !.redis = h]
RedisOn == ft.kind = "redis" /\ ~ft.redis.broken

(* setChannel and removeChannel, with their assertions.                    *)
RedisSetChannel(h) == [h EXCEPT !.chan = TRUE, !.watched = FALSE, !.broken = @ \/ h.chan]
RedisRemoveChannel_Keeps(h) == [h EXCEPT !.watched = FALSE, !.held = @ + 1]
RedisRemoveChannel(h) == [h EXCEPT !.chan = FALSE, !.watched = FALSE, !.held = 1, !.broken = @ \/ ~h.chan]
(* addRead, addWrite and their opposites use the Channel there is.         *)
RedisAdd(h) == [h EXCEPT !.watched = TRUE, !.broken = @ \/ ~h.chan]

(* Hiredis::connect; the library asks for the first write event.           *)
RedisConnect == /\ RedisOn /\ ft.redis.context = "none"
                /\ RedisSet(RedisAdd(RedisSetChannel([ft.redis EXCEPT !.context = "connecting"])))
(* commandCallback for each of cs with no reply, then disconnectCallback,  *)
(* then the library frees the context, which Hiredis keeps pointing to.    *)
RedisDisconnectCallback(h) ==
  RedisRemoveChannel([h EXCEPT !.context = "freed", !.pending = <<>>,
                               !.told = @ \o [i \in DOMAIN h.pending |-> <<h.pending[i], 0>>]])
RedisHandleWrite_Adds(h, ok) ==
  IF h.context = "connecting"
  THEN IF ok THEN RedisAdd(RedisSetChannel([h EXCEPT !.context = "connected"]))
       ELSE [h EXCEPT !.context = "freed"]
  ELSE RedisAdd(h)
(* Hiredis::handleWrite: the first event tells whether the connect worked; *)
(* connectCallback sets a new Channel if so.                               *)
RedisHandleWrite(h, ok) ==
  IF h.context = "connecting"
  THEN LET r == RedisRemoveChannel(h)
       IN IF ok THEN RedisAdd(RedisSetChannel([r EXCEPT !.context = "connected"]))
          ELSE [r EXCEPT !.context = "freed"]
  ELSE RedisAdd(h)
RedisWritable == /\ RedisOn /\ ft.redis.watched
                 /\ \E ok \in BOOLEAN : RedisSet(RedisHandleWrite(ft.redis, ok))

RedisConnected(h) == h.chan /\ h.context = "connected"
(* Hiredis::command: refused without a connection; the library refuses it  *)
(* while it is disconnecting.                                              *)
RedisCommand == /\ RedisOn /\ ft.redis.given < RedisCommands
                /\ RedisConnected(ft.redis) /\ ~ft.redis.leaving
                /\ RedisSet(RedisAdd([ft.redis EXCEPT !.given = @ + 1, !.pending = Append(@, ft.redis.given + 1)]))
(* The server answers, in order, or closes the connection.                 *)
RedisReply == /\ RedisOn /\ Len(ft.redis.replies) < Len(ft.redis.pending)
              /\ RedisSet([ft.redis EXCEPT !.replies = Append(@, ft.redis.pending[Len(@) + 1])])
(* Hiredis::handleRead: replies go to their commands through               *)
(* commandCallback; a disconnect that was asked for waits for the last.    *)
RedisHandleRead ==
  /\ RedisOn /\ ft.redis.context = "connected" /\ ft.redis.watched
  /\ \/ \E n \in 1..Len(ft.redis.replies) :
          LET h == [ft.redis EXCEPT !.pending = SubSeq(@, n + 1, Len(@)), !.replies = SubSeq(@, n + 1, Len(@)),
                                    !.told = @ \o [i \in 1..n |-> <<ft.redis.pending[i], ft.redis.replies[i]>>]]
          IN RedisSet(IF h.leaving /\ h.pending = <<>> THEN RedisDisconnectCallback(h) ELSE RedisAdd(h))
     \/ RedisSet(RedisDisconnectCallback([ft.redis EXCEPT !.replies = <<>>]))
(* Hiredis::disconnect *)
RedisDisconnect ==
  /\ RedisOn /\ RedisConnected(ft.redis) /\ ~ft.redis.leaving
  /\ RedisSet(IF ft.redis.pending = <<>> THEN RedisDisconnectCallback(ft.redis) ELSE [ft.redis EXCEPT !.leaving = TRUE])

FetchNext == \/ CurlBegin \/ CurlOnTimer \/ CurlOnRead \/ CurlDummy
             \/ DnsResolve \/ DnsOnRead \/ DnsOnTimer
             \/ RedisConnect \/ RedisWritable \/ RedisCommand \/ RedisReply \/ RedisHandleRead \/ RedisDisconnect

-----------------------------------------------------------------------------
(* The ranges of the pieces follow each other and cover the whole file,    *)
(* whatever its length (Downloader::concurrentDownload).                   *)
CurlCovers ==
  LET c == ft.curl
  IN c.range # <<>> => /\ c.range[1][1] = 0 /\ c.range[FetchPieces][2] = c.length - 1
                       /\ \A i \in 1..(FetchPieces - 1) : c.range[i][2] + 1 = c.range[i + 1][1]

(* Every request ends in one call of done, which may be late but never     *)
(* waits once no request is running; the program quits when all its        *)
(* downloads are done and not before; and no Channel is destroyed in its   *)
(* own handler (Curl::checkFinish, Request::removeChannel).                *)
CurlFinishes ==
  LET c == ft.curl
      wanted == IF c.single THEN {1} ELSE 1..Len(c.range)
  IN /\ ~c.broken
     /\ \A r \in CurlAll : c.done[r] <= 1 /\ (c.done[r] = 1 => r \notin c.alive \cup c.finished)
     /\ c.finished # {} => c.alive # {}
     /\ (c.done[0] = 1 /\ ~c.noFile) => (c.quit <=> \A r \in wanted : c.done[r] = 1)

(* While a query waits exactly one timer is set, so that an answer that is *)
(* lost is missed; each query is answered once; and the one way to fail is *)
(* an error read from a socket, whose Channel is then destroyed in its own *)
(* handler (Resolver::resolve, onTimer, onSockStateChange).                *)
DnsAnswers ==
  LET d == ft.dns
  IN /\ d.waiting # {} => d.timers = 1
     /\ d.timers = IF d.active THEN 1 ELSE 0
     /\ \A q \in DnsQueries : d.answers[q] = (IF q \in d.asked \ d.waiting THEN 1 ELSE 0)
     /\ d.failed \in {"", "handler"}

(* There is at most one Channel, the library never uses one that is gone,  *)
(* none is left for a context that was freed, and the commands are told    *)
(* their own replies, once, in order, or that there is none (Hiredis).     *)
RedisReplies ==
  LET h == ft.redis
  IN /\ ~h.broken
     /\ h.chan <=> h.context \in {"connecting", "connected"}
     /\ [i \in DOMAIN h.told |-> h.told[i][1]] \o h.pending = [i \in 1..h.given |-> i]
     /\ \A i \in DOMAIN h.told : h.told[i][2] \in {i, 0}

(* The adapters keep what the comments above CurlCovers to RedisReplies    *)
(* say.                                                                    *)
FetchSound == CASE ft.kind = "curl" -> CurlCovers /\ CurlFinishes
                [] ft.kind = "dns" -> DnsAnswers
                [] OTHER -> RedisReplies
=============================================================================
