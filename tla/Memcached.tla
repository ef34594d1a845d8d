------------------------------ MODULE Memcached ------------------------------
(***************************************************************************)
(* The memcached example: sessions in several threads parse requests from  *)
(* their connections and share a table of items in shards, each under its  *)
(* lock.  A session's input is a sequence of units: a command line, a byte *)
(* ("b") of a value, or the line end ("crlf") after it.  A client may send *)
(* one byte more than it announced.  An item is [val, cas]; a value is the *)
(* sequence of the requests whose bytes it holds.                          *)
(*                                                                         *)
(* ses[s]: state_, the current request (line, noreply_, the last unit of   *)
(* the value so far, what is still needed or to discard, the keys a get    *)
(* has left), and the number of replies sent.  History: seen[s], the versions gets told client s of;    *)
(* asked[s], the number of replies its requests are due; fault, a failed assertion;  *)
(* overrun, a cas that replaced a version its client had not seen.         *)
(***************************************************************************)
EXTENDS Integers, Sequences, FiniteSets, SequencesExt

CONSTANTS McSessions, McKeys,
          McLongest,      \* the longest value that is stored
          McRequests      \* bound: requests of all the sessions

VARIABLE mc

McNone == [val |-> << >>, cas |-> 0]
McIdle == [st |-> "kNewCommand", line |-> << >>, noreply |-> FALSE, got |-> << >>, need |-> 0, discard |-> 0,
           left |-> << >>]
McNew == McIdle @@ [open |-> TRUE, in |-> << >>, rest |-> << >>, replies |-> 0]
McGone == [McNew EXCEPT !.open = FALSE]

\* The table may hold what earlier sessions stored.
McInit == mc = [items |-> [k \in McKeys |-> [val |-> <<0>>, cas |-> 1]], cas |-> 1, sent |-> 0, ses |-> [s \in McSessions |-> McNew],
                seen |-> [s \in McSessions |-> {}], asked |-> [s \in McSessions |-> 0],
                fault |-> FALSE, overrun |-> FALSE]

\* A unit of input.  The requests a client may send: verb, length, noreply, and a byte too many.
McUnit(verb) == [verb |-> verb, key |-> CHOOSE k \in McKeys : TRUE, len |-> 0, cas |-> 0, id |-> 0, quiet |-> FALSE]
McByte == McUnit("b")
McEnd == McUnit("crlf")
McStores == {"set", "add", "replace", "append", "prepend", "cas"}
McMenu == ({"gets", "quit"} \X {0} \X {FALSE} \X {0}) \cup ({"get", "delete"} \X {0} \X {TRUE} \X {0})
            \cup (McStores \X {1} \X {FALSE} \X {0})
            \cup {<<"set", 1, TRUE, 1>>, <<"add", McLongest + 1, FALSE, 0>>}
McBytes(r, extra) == IF r.verb \in McStores THEN [i \in 1..(r.len + extra) |-> McByte] \o <<McEnd>> ELSE << >>
\* The number of replies a request is due: a byte too many makes a line of its own.
McDue(r, extra) == (IF r.verb = "quit" \/ (r.quiet /\ r.verb # "get") THEN 0 ELSE 1) + extra

\* Session::reply.
McReply(m, s) == IF m.ses[s].noreply \/ ~m.ses[s].open THEN m
                       ELSE [m EXCEPT !.ses[s].replies = @ + 1]
\* Session::resetRequest, and back to kNewCommand.
McReset_KeepsNoreply(m, s) == [m EXCEPT !.ses[s] = [McIdle EXCEPT !.noreply = m.ses[s].noreply] @@ @]
McReset(m, s) == [m EXCEPT !.ses[s] = McIdle @@ @]

-----------------------------------------------------------------------------
\* MemcacheServer::storeItem, under the shard's lock: the new table, or the old one if refused.
McExists(m, k) == m.items[k] # McNone
McVersion(m, k, val) == [m EXCEPT !.cas = @ + 1, !.items[k] = [val |-> val, cas |-> m.cas + 1]]
McAllowed_AnyCas(m, r) ==
  CASE r.verb = "set" -> TRUE
    [] r.verb = "add" -> ~McExists(m, r.key)
    [] OTHER -> McExists(m, r.key)
McAllowed(m, r) ==
  CASE r.verb = "set" -> TRUE
    [] r.verb = "add" -> ~McExists(m, r.key)
    [] r.verb \in {"replace", "append", "prepend"} -> McExists(m, r.key)
    [] r.verb = "cas" -> McExists(m, r.key) /\ m.items[r.key].cas = r.cas
McStored(m, r) ==
  LET new == [i \in 1..r.len |-> r.id]
      old == m.items[r.key].val
  IN  McVersion(m, r.key, CASE r.verb = "append" -> old \o new
                            [] r.verb = "prepend" -> new \o old
                            [] OTHER -> new)
McStoreItem(m, s, r) ==
  IF McAllowed(m, r)
  THEN McReply([McStored(m, r) EXCEPT !.overrun = @ \/ (r.verb = "cas" /\ <<r.key, m.items[r.key]>> \notin m.seen[s])],
               s)
  ELSE McReply(m, s)

\* doUpdate: an object too large removes the key and is skipped.
McDoUpdate(m, s, r) ==
  IF r.len > McLongest
  THEN [McReply([m EXCEPT !.items[r.key] = McNone], s) EXCEPT
          !.ses[s].discard = r.len + 1, !.ses[s].st = "kDiscardValue"]
  ELSE [m EXCEPT !.ses[s].need = r.len + 1, !.ses[s].st = "kReceiveValue"]

McDoDelete(m, s, k) == [McReply(m, s) EXCEPT !.items[k] = McNone]

\* processRequest for a whole line; get and gets go on key by key.
McProcess(m, s, r) ==
  LET n == [m EXCEPT !.ses[s].line = <<r>>, !.ses[s].noreply = r.quiet,
                     !.fault = @ \/ m.ses[s].line # << >> \/ m.ses[s].noreply \/ m.ses[s].got # << >> \/ m.ses[s].discard # 0]
  IN  CASE r.verb \in McStores -> McDoUpdate(n, s, r)
        [] r.verb \in {"get", "gets"} -> [n EXCEPT !.ses[s].left = SetToSeq(McKeys)]
        [] r.verb = "delete" -> McReset(McDoDelete(n, s, r.key), s)
        [] r.verb = "quit" -> McReset([n EXCEPT !.ses[s].open = FALSE], s)

\* Bytes that no request announced make a line of their own with what follows them.
McUnknown(m, s) == McReset(McReply(m, s), s)

-----------------------------------------------------------------------------
\* Session::onMessage, one request line, piece of value or key at a time.
McInput(s) == mc.ses[s].in
McDropped(s, k) == [mc EXCEPT !.ses[s].in = SubSeq(@, k + 1, Len(@))]
McUpTo(s, n) == IF Len(McInput(s)) < n THEN Len(McInput(s)) ELSE n

McCommandLine(s) ==
  /\ mc.ses[s].st = "kNewCommand" /\ mc.ses[s].left = << >>
  /\ \E k \in DOMAIN McInput(s) :
       /\ McInput(s)[k] # McByte /\ \A j \in 1..(k - 1) : McInput(s)[j] = McByte
       /\ mc' = IF k = 1 /\ McInput(s)[1] # McEnd THEN McProcess(McDropped(s, 1), s, McInput(s)[1])
                ELSE McUnknown(McDropped(s, k), s)

McGetKey(s) ==
  /\ mc.ses[s].left # << >>
  /\ LET k == Head(mc.ses[s].left)
         m == [mc EXCEPT !.ses[s].left = Tail(@),
                         !.seen[s] = IF mc.ses[s].line[1].verb = "gets" /\ McExists(mc, k)
                                     THEN @ \cup {<<k, mc.items[k]>>} ELSE @]
     IN  mc' = IF Len(mc.ses[s].left) > 1 THEN m ELSE McReset([m EXCEPT !.ses[s].replies = IF mc.ses[s].open THEN @ + 1 ELSE @], s)

McReceiveValue(s) ==
  LET k == McUpTo(s, mc.ses[s].need)
      m == [McDropped(s, k) EXCEPT !.ses[s].got = SubSeq(McInput(s), k, k), !.ses[s].need = @ - k]
  IN  /\ mc.ses[s].st = "kReceiveValue" /\ k > 0
      /\ mc' = CASE m.ses[s].need > 0 -> m
                 [] m.ses[s].need = 0 /\ m.ses[s].got = <<McEnd>> ->
                      McReset(McStoreItem(m, s, m.ses[s].line[1]), s)
                 [] OTHER -> McReset(McReply(m, s), s)

McDiscardValue(s) ==
  LET k == McUpTo(s, mc.ses[s].discard)
      m == [McDropped(s, k) EXCEPT !.ses[s].discard = @ - k]
  IN  /\ mc.ses[s].st = "kDiscardValue" /\ k > 0
      /\ mc' = IF m.ses[s].discard > 0 THEN m ELSE McReset(m, s)

\* The client sends a request line, with its value or before it: a cas names a version it was told of.
McClientLine(s) ==
  /\ mc.ses[s].open /\ mc.sent < McRequests /\ mc.ses[s].rest = << >> /\ Len(McInput(s)) <= 1
  /\ \E q \in McMenu, k \in McKeys : \E v \in {<<k, McNone>>} \cup mc.seen[s] :
       LET r == [McUnit(q[1]) EXCEPT !.key = k, !.len = q[2], !.quiet = q[3], !.cas = v[2].cas,
                                     !.id = mc.sent + 1]
       IN  /\ v[1] = k /\ (q[1] # "cas" => v[2] = McNone)
           /\ mc' = [mc EXCEPT !.sent = @ + 1, !.ses[s].in = Append(@, r), !.ses[s].rest = McBytes(r, q[4]),
                               !.asked[s] = @ + McDue(r, q[4])]
McClientBytes(s) ==
  \E k \in 1..Len(mc.ses[s].rest) :
    mc' = [mc EXCEPT !.ses[s].in = @ \o SubSeq(mc.ses[s].rest, 1, k), !.ses[s].rest = SubSeq(@, k + 1, Len(@))]

\* MemcacheServer::onConnection: the connection goes down and its session with it.
McDown(s) == /\ mc.ses[s] # McGone
             /\ mc' = [mc EXCEPT !.ses[s] = McGone]

McNext == \E s \in McSessions : \/ McCommandLine(s) \/ McGetKey(s) \/ McReceiveValue(s) \/ McDiscardValue(s)
                                \/ McClientLine(s) \/ McClientBytes(s) \/ McDown(s)

-----------------------------------------------------------------------------
\* A version number stands for one value: what gets told a client of is still what that number holds.
McVersions == \A s \in McSessions : \A v \in mc.seen[s] :
  mc.items[v[1]].cas = v[2].cas => mc.items[v[1]] = v[2]
\* Every request is answered once, or not at all under noreply, and no request outlives its answer.
McAnswers == \A s \in McSessions :
  LET x == mc.ses[s]
  IN  /\ x.replies <= mc.asked[s]
      /\ (x.open /\ x.in = << >> /\ x.rest = << >> /\ x.line = << >>) => x.replies = mc.asked[s]
      /\ x.st = "kNewCommand" /\ x.left = << >> => x.line = << >> /\ ~x.noreply /\ x.got = << >> /\ x.discard = 0

\* Sessions that share the table (Session.cc, MemcacheServer.cc): no assertion of a session fails, a cas
\* never replaces a version that its client was not told of, although other sessions store, append and
\* delete between the gets and the cas; a version number is never given to another value; and each request is answered
\* once and in turn however its bytes are cut, a value that is too large or too long included.
MemcachedSound == ~mc.fault /\ ~mc.overrun /\ McVersions /\ McAnswers
=============================================================================
