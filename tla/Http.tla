-------------------------------- MODULE Http --------------------------------
(***************************************************************************)
(* muduo/net/http: HttpContext parses requests line by line out of a       *)
(* connection's input buffer, HttpServer answers them.  Two applications   *)
(* of it: the Inspector, whose table of commands other threads change, and *)
(* examples/shorturl.  One connection; a line is a record, and a read may  *)
(* end in the middle of a line.                                            *)
(***************************************************************************)
EXTENDS Naturals, Sequences, SequencesExt, FiniteSets

CONSTANT HttpRequests     \* how many requests the client sends

(* kind: the callback in use; started: the listening socket is open;       *)
(* conn: the TcpConnection; st, req: the HttpContext; buf: the whole lines *)
(* of the input buffer, part: a broken line follows them; wire: lines on   *)
(* the way; modules, helps: the Inspector's two tables.  History: sent,    *)
(* answers, calm (the client waited for every answer), abort (a failed     *)
(* assertion).                                                             *)
VARIABLE http

HttpKinds == {"inspector", "shorturl", "default"}

HttpLine(m, p, v) == [k |-> "line", method |-> m, path |-> p, version |-> v]
HttpHeader(f, v) == [k |-> "header", field |-> f, value |-> v]
HttpBlank == [k |-> "blank"]
HttpText == [k |-> "text"]          \* a line with neither colon nor method: part of a body

(* What the client may send, each item a sequence of lines.  A path is the *)
(* sequence of names between its slashes: "/" is <<"">>, "/a/b" <<"a","b">>*)
HttpMenu ==
  { <<HttpLine("GET", <<"">>, 1), HttpBlank>>,
    <<HttpLine("GET", <<"proc", "pid">>, 1), HttpHeader("Connection", "close"), HttpBlank>>,
    <<HttpLine("GET", <<"app", "dump", "">>, 0), HttpHeader("Connection", "Keep-Alive"), HttpText>>,
    <<HttpLine("HEAD", <<"", "">>, 0), HttpHeader("Host", "h"), HttpBlank>>,
    <<HttpLine("POST", <<"1">>, 1), HttpHeader("Connection", "close"),
      HttpHeader("Connection", "Keep-Alive"), HttpBlank>>,
    <<HttpLine("GET", <<"favicon.ico">>, 1), HttpBlank>>,
    <<HttpLine("GET", <<"">>, 9)>>,
    <<HttpText>> }

HttpEmpty == [method |-> "invalid", version |-> 9, path |-> <<>>, headers |-> <<>>]

(* The commands the three inspectors register.                             *)
HttpProcess == {"overview", "pid", "status", "threads"}
HttpSystem == {"overview", "loadavg", "version", "cpuinfo", "meminfo", "stat"}
HttpPerformance == {"heap", "growth", "profile", "cmdline", "memstats", "memhistogram", "releasefreememory"}

(* Inspector::Inspector registers the built-in commands before the timer   *)
(* that starts the server can run.                                         *)
HttpCommands == [m \in {"proc", "sys", "pprof", "app"} |->
  CASE m = "proc" -> HttpProcess [] m = "sys" -> HttpSystem
    [] m = "pprof" -> HttpPerformance [] OTHER -> {}]

HttpInit == \E k \in HttpKinds :
  http = [kind |-> k, started |-> FALSE, conn |-> "none", st |-> "line", req |-> HttpEmpty,
          buf |-> <<>>, part |-> FALSE, wire |-> <<>>, modules |-> HttpCommands,
          helps |-> HttpCommands, sent |-> <<>>, answers |-> <<>>, calm |-> TRUE, abort |-> FALSE]

-----------------------------------------------------------------------------
(* HttpRequest::setMethod: the method it stores; the assertion before it   *)
(* is in HttpMessage.                                                      *)
HttpSetMethod(m) == IF m \in {"GET", "POST", "HEAD", "PUT", "DELETE"} THEN m ELSE "invalid"

(* HttpRequest::addHeader: the last value of a field stands.               *)
HttpAddHeader(req, l) ==
  [req EXCEPT !.headers = SelectSeq(@, LAMBDA h : h.field # l.field) \o <<l>>]

(* HttpRequest::getHeader *)
HttpGetHeader(req, f) ==
  LET found == SelectSeq(req.headers, LAMBDA h : h.field = f)
  IN IF found = <<>> THEN "" ELSE found[1].value

(* HttpContext::processRequestLine: the request with what was stored before*)
(* a mistake was found, and whether there was none.                        *)
HttpProcessLine(req, l) ==
  IF l.k # "line" \/ HttpSetMethod(l.method) = "invalid"
    THEN [ok |-> FALSE, req |-> [req EXCEPT !.method = "invalid"]]
    ELSE LET r == [req EXCEPT !.method = l.method, !.path = l.path]
         IN IF l.version \in {0, 1} THEN [ok |-> TRUE, req |-> [r EXCEPT !.version = l.version]]
            ELSE [ok |-> FALSE, req |-> r]

RECURSIVE HttpParse(_)
(* HttpContext::parseRequest: the loop over the lines of the buffer.  A    *)
(* line without a colon ends the headers, whatever it holds.               *)
HttpParse(c) ==
  IF c.buf = <<>> THEN c
  ELSE LET l == Head(c.buf)
           r == HttpProcessLine(c.req, l)
       IN CASE c.st = "line" /\ r.ok ->
                 HttpParse([c EXCEPT !.st = "headers", !.req = r.req, !.buf = Tail(@)])
            [] c.st = "line" /\ ~r.ok -> [c EXCEPT !.ok = FALSE, !.req = r.req]
            [] c.st = "headers" /\ l.k = "header" ->
                 HttpParse([c EXCEPT !.req = HttpAddHeader(@, l), !.buf = Tail(@)])
            [] OTHER -> [c EXCEPT !.st = "all", !.buf = Tail(@)]

HttpReset_KeepsRequest(c) == [c EXCEPT !.st = "line", !.req.method = "invalid"]
(* HttpContext::reset *)
HttpReset(c) == [c EXCEPT !.st = "line", !.req = HttpEmpty]

-----------------------------------------------------------------------------
HttpAnswer(s, c) == [status |-> s, close |-> c]

(* split *)
HttpSplit(path) == SelectSeq(path, LAMBDA n : n # "")

(* Inspector::onRequest *)
HttpInspect(req, close) ==
  LET names == HttpSplit(req.path)
      found == CASE req.path = <<"">> -> TRUE
                 [] Len(names) = 0 -> FALSE
                 [] Len(names) = 1 -> names[1] = "favicon.ico"
                 [] OTHER -> /\ names[1] \in DOMAIN http.modules
                             /\ names[2] \in http.modules[names[1]]
  IN HttpAnswer(IF found THEN 200 ELSE 404, close)

(* onRequest of shorturl.cc *)
HttpShort(req, close) ==
  CASE req.path \in {<<"1">>, <<"2">>} -> HttpAnswer(301, close)
    [] req.path \in {<<"">>, <<"favicon.ico">>} -> HttpAnswer(200, close)
    [] OTHER -> HttpAnswer(404, TRUE)

(* defaultHttpCallback *)
HttpDefault == HttpAnswer(404, TRUE)

(* HttpServer::onRequest, with the response it sends.                      *)
HttpOnRequest(req) ==
  LET connection == HttpGetHeader(req, "Connection")
      close == connection = "close" \/ (req.version = 0 /\ connection # "Keep-Alive")
  IN CASE http.kind = "inspector" -> HttpInspect(req, close)
       [] http.kind = "shorturl" -> HttpShort(req, close)
       [] OTHER -> HttpDefault

(* TcpConnection::send drops what is sent after a shutdown.                *)
HttpSendTo(h, a) ==
  IF h.conn = "up" THEN [h EXCEPT !.answers = Append(@, a), !.conn = IF a.close THEN "half" ELSE @]
  ELSE h

(* HttpServer::onMessage.  A refused request line stays in the buffer and, *)
(* when its method was good, in the context: the next call then fails the  *)
(* assertion of setMethod.                                                 *)
HttpMessage(h) ==
  LET c == HttpParse([st |-> h.st, req |-> h.req, buf |-> h.buf, ok |-> TRUE])
      parsed(d) == [h EXCEPT !.st = d.st, !.req = d.req, !.buf = d.buf]
  IN CASE h.st = "line" /\ h.buf # <<>> /\ h.req.method # "invalid" -> [h EXCEPT !.abort = TRUE]
       [] ~c.ok -> HttpSendTo(parsed(c), HttpAnswer(400, TRUE))
       [] c.ok /\ c.st = "all" -> HttpSendTo(parsed(HttpReset(c)), HttpOnRequest(c.req))
       [] OTHER -> parsed(c)

-----------------------------------------------------------------------------
HttpLive == ~http.abort

(* Inspector::start, or the application's call of HttpServer::start.       *)
HttpStart ==
  /\ ~http.started
  /\ http' = [http EXCEPT !.started = TRUE]

(* HttpServer::onConnection: a fresh HttpContext.                          *)
HttpConnect ==
  /\ http.started /\ http.conn = "none"
  /\ http' = [http EXCEPT !.conn = "up", !.st = "line", !.req = HttpEmpty]

(* The client sends a request, with or without waiting for the answers to  *)
(* the earlier ones.                                                       *)
HttpClientSend == \E u \in HttpMenu :
  /\ http.conn \in {"up", "half"} /\ HttpLive
  /\ Len(http.sent) < HttpRequests
  /\ http' = [http EXCEPT !.sent = Append(@, u), !.wire = @ \o u,
                          !.calm = @ /\ Len(http.answers) = Len(http.sent)]

(* A read: n whole lines, then perhaps a part of the next.                 *)
HttpRead == \E n \in 0..Len(http.wire), p \in BOOLEAN :
  /\ http.conn \in {"up", "half"} /\ HttpLive
  /\ p => n < Len(http.wire)
  /\ n = 0 => p /\ ~http.part
  /\ http' = HttpMessage([http EXCEPT !.buf = @ \o SubSeq(http.wire, 1, n), !.part = p,
                                      !.wire = SubSeq(@, n + 1, Len(@))])

HttpDown ==
  /\ http.conn \in {"up", "half"} /\ HttpLive
  /\ http' = [http EXCEPT !.conn = "down", !.wire = <<>>]

(* Inspector::add and Inspector::remove, called by any thread under the    *)
(* mutex the request's callback also runs under.                           *)
HttpAdd ==
  /\ http.kind = "inspector" /\ HttpLive
  /\ "dump" \notin http.modules["app"]
  /\ http' = [http EXCEPT !.modules["app"] = @ \cup {"dump"}, !.helps["app"] = @ \cup {"dump"}]

HttpRemove_Helps ==
  /\ http.kind = "inspector" /\ HttpLive
  /\ "dump" \in http.modules["app"]
  /\ http' = [http EXCEPT !.modules["app"] = @ \ {"dump"}]

HttpRemove ==
  /\ http.kind = "inspector" /\ HttpLive
  /\ "dump" \in http.modules["app"]
  /\ http' = [http EXCEPT !.modules["app"] = @ \ {"dump"}, !.helps["app"] = @ \ {"dump"}]

HttpNext == \/ HttpStart \/ HttpConnect \/ HttpClientSend \/ HttpRead \/ HttpDown
            \/ HttpAdd \/ HttpRemove

-----------------------------------------------------------------------------
(* What the request u, taken by itself, is owed: its statuses and whether  *)
(* the connection is closed after it.                                      *)
HttpGood(u) == u[1].k = "line" /\ u[1].version # 9
HttpOwed(u) ==
  LET p == u[1].path
      values == {i \in DOMAIN u : u[i].k = "header" /\ u[i].field = "Connection"}
      last == IF values = {} THEN "" ELSE u[CHOOSE i \in values : \A j \in values : j <= i].value
      asked == CASE last = "close" -> TRUE [] last = "Keep-Alive" -> FALSE [] OTHER -> u[1].version = 0
  IN CASE ~HttpGood(u) -> {HttpAnswer(400, TRUE)}
       [] http.kind = "default" -> {HttpAnswer(404, TRUE)}
       [] http.kind = "shorturl" ->
            IF p = <<"1">> THEN {HttpAnswer(301, asked)}
            ELSE IF p \in {<<"">>, <<"favicon.ico">>} THEN {HttpAnswer(200, asked)}
            ELSE {HttpAnswer(404, TRUE)}
       [] OTHER ->
            IF p \in {<<"">>, <<"favicon.ico">>, <<"proc", "pid">>} THEN {HttpAnswer(200, asked)}
            ELSE IF p[1] = "app" THEN {HttpAnswer(200, asked), HttpAnswer(404, asked)}
            ELSE {HttpAnswer(404, asked)}

(* Answers come in the order of the requests, each one fixed by its own    *)
(* request however the bytes were cut into reads and whatever was asked    *)
(* before it on the same connection.                                       *)
HttpInOrder ==
  /\ Len(http.answers) <= Len(http.sent)
  /\ \A i \in DOMAIN http.answers : http.answers[i] \in HttpOwed(http.sent[i])

(* An answer without Content-Length ends with the connection: nothing is   *)
(* sent after it, and the connection is being shut down.                   *)
HttpFramed == \A i \in DOMAIN http.answers : http.answers[i].close =>
                i = Len(http.answers) /\ http.conn \in {"half", "down"}

(* A client that waits for each answer before it asks again gets one as    *)
(* soon as its request has been read.  Without the wait onMessage answers  *)
(* one request per read, and a request that came with another one waits.   *)
HttpPrompt ==
  http.calm /\ http.conn = "up" /\ http.wire = <<>> => Len(http.answers) = Len(http.sent)

(* The Inspector lists exactly the commands it would run.                  *)
HttpListed == http.modules = http.helps

(* The assertion of setMethod fails only for what a client still sends     *)
(* after the server closed its side, and only behind a bad request line.   *)
HttpClosedFirst == http.abort =>
  /\ http.conn # "up" /\ Last(http.answers).close
  /\ \E i \in DOMAIN http.sent : ~HttpGood(http.sent[i])

(* The HTTP server, whole.                                                 *)
HttpSound == HttpInOrder /\ HttpFramed /\ HttpPrompt /\ HttpListed /\ HttpClosedFirst
=============================================================================
