------------------------------ MODULE Broadcast ------------------------------
(***************************************************************************)
(* Servers that send what one client says to the others: the chat servers  *)
(* and the publish/subscribe hub.                                          *)
(***************************************************************************)
EXTENDS Integers, Sequences, FiniteSets, SequencesExt

(***************************************************************************)
(* The four chat servers of examples/asio/chat: each sends a member's      *)
(* message to all members.  kind: "server", one thread; "threaded", one    *)
(* list under a mutex held for the whole broadcast; "efficient", a list    *)
(* that is copied when it changes under a reader; "local", one list per    *)
(* loop, to which the message is queued.                                   *)
(*                                                                         *)
(* st[c]: a member's connection, "new", "up", "down"; dead: those whose    *)
(* connectDestroyed has run.  job[t]: the broadcast thread t is in: its    *)
(* message, whom is left, the member whose state was found connected, the  *)
(* list it reads and whether that is still the current one.  q[t]: functors *)
(* of loop t.  holder: who has the mutex.  got[c]: what c was sent.        *)
(* History: aud[m], the members when m's broadcast began; fault; late, a   *)
(* send was queued after its connection had closed.                        *)
(***************************************************************************)

CONSTANTS ChatMembers, ChatLoops,
          ChatMessages      \* bound: messages in all

VARIABLE ch

ChatIdle == [m |-> 0, left |-> {}, to |-> {}, list |-> {}, shared |-> FALSE]
ChatHome(c) == IF ch.kind = "server" THEN CHOOSE t \in ChatLoops : TRUE ELSE (c % Cardinality(ChatLoops)) + 1

ChatInit ==
  ch \in {[kind |-> k, list |-> {}, local |-> [t \in ChatLoops |-> {}], loops |-> {}, holder |-> {},
           st |-> [c \in ChatMembers |-> "new"], dead |-> {}, job |-> [t \in ChatLoops |-> ChatIdle],
           q |-> [t \in ChatLoops |-> << >>], got |-> [c \in ChatMembers |-> << >>], aud |-> << >>,
           from |-> << >>, fault |-> "none", late |-> FALSE] : k \in {"server", "threaded", "efficient", "local"}}

ChatRuns == ch.fault = "none"
\* A thread is between two callbacks.
ChatFree(t) == ChatRuns /\ ch.job[t] = ChatIdle
\* The threads that read the current list right now.
ChatReaders == {t \in ChatLoops : ch.job[t].shared}

\* threadInit, in each loop's thread before start() returns.
ChatThreadInit(t) == /\ t \notin ch.loops
                     /\ ch' = [ch EXCEPT !.loops = @ \cup {t}]

\* onConnection: the list changes in place, under the mutex or in the only thread; for a copy if somebody
\* reads it; or it is the thread's own.
ChatInPlace(x, new) ==
  [x EXCEPT !.list = new, !.fault = IF ChatReaders # {} THEN "list changed under a reader" ELSE @]
ChatThreadedChange(x, new) == ChatInPlace(x, new)
ChatEfficientChange_InPlace(x, new) == ChatInPlace(x, new)
ChatEfficientChange(x, new) ==
  [x EXCEPT !.list = new, !.job = [u \in ChatLoops |-> [@[u] EXCEPT !.shared = FALSE]]]
ChatLocalChange(x, t, new) == [x EXCEPT !.local[t] = new]
ChatChange(x, t, new) == CASE x.kind = "server" -> ChatInPlace(x, new)
                           [] x.kind = "threaded" -> ChatThreadedChange(x, new)
                           [] x.kind = "efficient" -> ChatEfficientChange(x, new)
                           [] x.kind = "local" -> ChatLocalChange(x, t, new)
ChatOf(x, t) == IF x.kind = "local" THEN x.local[t] ELSE x.list
ChatUp(c) ==
  LET t == ChatHome(c)
  IN  /\ ch.loops = ChatLoops /\ ChatFree(t) /\ ch.st[c] = "new" /\ ch.holder = {}
      /\ ch' = ChatChange([ch EXCEPT !.st[c] = "up"], t, ChatOf(ch, t) \cup {c})
\* TcpConnection::handleClose: the server's loop will queue connectDestroyed.
ChatDown(c) ==
  LET t == ChatHome(c)
  IN  /\ ChatFree(t) /\ ch.st[c] = "up" /\ ch.holder = {}
      /\ ch' = ChatChange([ch EXCEPT !.st[c] = "down"], t, ChatOf(ch, t) \ {c})
ChatRemoveConnection(c) ==
  LET t == ChatHome(c)
  IN  /\ ChatRuns /\ ch.st[c] = "down"
      /\ ch' = [ch EXCEPT !.st[c] = "removed", !.q[t] = Append(@, [do |-> "destroy", c |-> c, m |-> 0])]

-----------------------------------------------------------------------------
\* onStringMessage: what is left to do, and whether the mutex is held until it is done.
ChatBegins(c, left, reads, locks) ==
  LET t == ChatHome(c)
      m == Len(ch.aud) + 1
  IN  /\ ChatFree(t) /\ ch.st[c] = "up" /\ m <= ChatMessages
      /\ locks => ch.holder = {}
      /\ ch' = [ch EXCEPT !.holder = IF locks THEN {t} ELSE @,
                          !.aud = Append(@, {d \in ChatMembers : ch.st[d] = "up"}), !.from = Append(@, c),
                          !.job[t] = [m |-> m, left |-> left, to |-> {}, list |-> ch.list, shared |-> reads]]
ChatServerMessage(c) == ch.kind = "server" /\ ChatBegins(c, ch.list, TRUE, FALSE)
ChatThreadedMessage(c) == ch.kind = "threaded" /\ ChatBegins(c, ch.list, TRUE, TRUE)
ChatEfficientMessage(c) == ch.kind = "efficient" /\ ChatBegins(c, ch.list, TRUE, FALSE)
ChatLocalMessage(c) == ch.kind = "local" /\ ChatBegins(c, ch.loops, FALSE, TRUE)
\* LengthHeaderCodec::send to one member: TcpConnection::send tests the state, then sends or queues.
ChatTest(t) ==
  /\ ChatRuns /\ ch.kind # "local" /\ ch.job[t].to = {}
  /\ \E d \in ch.job[t].left :
       ch' = [ch EXCEPT !.job[t].left = @ \ {d}, !.job[t].to = IF ch.st[d] = "up" THEN {d} ELSE {}]
ChatSend(t) ==
  \E d \in ch.job[t].to :
    /\ ChatRuns
    /\ ch' = IF ChatHome(d) = t THEN [ch EXCEPT !.job[t].to = {}, !.got[d] = Append(@, ch.job[t].m)]
             ELSE [ch EXCEPT !.job[t].to = {}, !.late = @ \/ ch.st[d] # "up",
                             !.q[ChatHome(d)] = Append(@, [do |-> "send", c |-> d, m |-> ch.job[t].m])]
\* The server with a list per loop queues distributeMessage to every loop.
ChatQueue(t) ==
  /\ ChatRuns /\ ch.kind = "local"
  /\ \E u \in ch.job[t].left :
       ch' = [ch EXCEPT !.job[t].left = @ \ {u},
                        !.q[u] = Append(@, [do |-> "distribute", c |-> ch.from[ch.job[t].m], m |-> ch.job[t].m])]
ChatDone(t) ==
  /\ ChatRuns /\ ch.job[t] # ChatIdle /\ ch.job[t].left = {} /\ ch.job[t].to = {}
  /\ ch' = [ch EXCEPT !.job[t] = ChatIdle, !.holder = @ \ {t}]

\* sendInLoop of a queued message: its connection may have gone with the last list that held it.
ChatHeld(d) == d \in ch.list \/ \E t \in ChatLoops : ch.job[t] # ChatIdle /\ d \in ch.job[t].list
ChatSendInLoop(x, d, m) ==
  CASE d \in x.dead /\ ~ChatHeld(d) -> [x EXCEPT !.fault = "connection has gone"]
    [] d \notin x.dead /\ x.st[d] = "up" -> [x EXCEPT !.got[d] = Append(@, m)]
    [] OTHER -> x
\* distributeMessage.
ChatDistribute_Others(x, t, m) ==
  [x EXCEPT !.got = [d \in ChatMembers |-> IF d \in x.local[t] \ {x.from[m]} THEN Append(@[d], m) ELSE @[d]]]
ChatDistribute(x, t, m) ==
  [x EXCEPT !.got = [d \in ChatMembers |-> IF d \in x.local[t] THEN Append(@[d], m) ELSE @[d]]]
ChatFunctor(t) ==
  /\ ChatFree(t) /\ ch.q[t] # << >>
  /\ LET f == Head(ch.q[t])
         x == [ch EXCEPT !.q[t] = Tail(@)]
     IN  ch' = CASE f.do = "send" -> ChatSendInLoop(x, f.c, f.m)
                 [] f.do = "distribute" -> ChatDistribute(x, t, f.m)
                 [] f.do = "destroy" -> [x EXCEPT !.dead = @ \cup {f.c}]

ChatNext == \/ \E t \in ChatLoops : ChatThreadInit(t) \/ ChatTest(t) \/ ChatSend(t) \/ ChatQueue(t) \/ ChatDone(t) \/ ChatFunctor(t)
            \/ \E c \in ChatMembers : ChatUp(c) \/ ChatDown(c) \/ ChatRemoveConnection(c)
                                     \/ ChatServerMessage(c) \/ ChatThreadedMessage(c)
                                     \/ ChatEfficientMessage(c) \/ ChatLocalMessage(c)

-----------------------------------------------------------------------------
ChatFrom(c, d) == SelectSeq(ch.got[d], LAMBDA m : ch.from[m] = c)
\* Each member gets a sender's messages once and in the order they were sent.
ChatInOrder == \A c, d \in ChatMembers :
  LET s == ChatFrom(c, d) IN \A i \in 1..(Len(s) - 1) : s[i] < s[i + 1]
\* When all broadcasts are over, everybody who was and still is a member has every message.
ChatQuiet == \A t \in ChatLoops : ch.job[t] = ChatIdle /\ ch.q[t] = << >>
ChatComplete == ChatQuiet => \A m \in DOMAIN ch.aud : \A d \in ch.aud[m] :
  ch.st[d] = "up" => m \in Range(ch.got[d])

\* The chat servers, with broadcasts of two threads at once and members that come and go in between: each
\* member gets every message once, a sender's in order; no list changes while a thread reads it; and a queued
\* send finds its connection unless it was queued after the connection had closed ("FIXME" at
\* TcpConnection.cc:101: the functor holds a bare pointer).
ChatSound == /\ ChatInOrder
             /\ ChatComplete
             /\ ch.fault \in {"none", "connection has gone"}
             /\ ch.fault # "none" => ch.late

-----------------------------------------------------------------------------
(***************************************************************************)
(* The publish/subscribe hub of examples/hub and its clients.  Everything  *)
(* the hub does is in one loop.  A line is [w, t]: a command with its      *)
(* topic, or the content after "pub", which may read like a command.       *)
(*                                                                         *)
(* Per client: conn ("off", "up", "half" after the hub's shutdown()), wire *)
(* (lines on their way), in (the hub's input buffer), ctx (its             *)
(* ConnectionSubscription), told[t] (the value of topic t it was sent last *)
(* on this connection).  Per topic: content, the number of its publication *)
(* (0: none), and aud, its audiences_.  busy: whose onMessage is running.  *)
(* History: said[c] and did[c], the commands c sent and the hub carried    *)
(* out on this connection.                                                 *)
(***************************************************************************)

CONSTANTS HubClients, HubTopics,
          HubCommands,     \* bound: commands of all clients
          HubTicks         \* bound: publications of the timer

VARIABLE hb

HubLine(w, t) == [w |-> w, t |-> t]
HubTime == CHOOSE t \in HubTopics : TRUE      \* stands for "utc_time"
HubNobody == 0
HubFresh(x, c, st) == [x EXCEPT !.conn[c] = st, !.wire[c] = << >>, !.in[c] = << >>, !.ctx[c] = {},
                                !.told[c] = [t \in HubTopics |-> 0], !.said[c] = << >>, !.did[c] = << >>]
HubInit ==
  hb = [conn |-> [c \in HubClients |-> "off"], wire |-> [c \in HubClients |-> << >>], in |-> [c \in HubClients |-> << >>],
        ctx |-> [c \in HubClients |-> {}], told |-> [c \in HubClients |-> [t \in HubTopics |-> 0]],
        content |-> [t \in HubTopics |-> 0], aud |-> [t \in HubTopics |-> {}], busy |-> HubNobody, n |-> 0, ticks |-> 0,
        pubs |-> 0, said |-> [c \in HubClients |-> << >>], did |-> [c \in HubClients |-> << >>]]
HubFree == hb.busy = HubNobody

\* TcpConnection::send of topic t's message: nothing once the hub has shut the connection down.
HubTell(x, who, t) == [x EXCEPT !.told = [c \in HubClients |-> IF c \in who /\ x.conn[c] = "up"
                                                               THEN [@[c] EXCEPT ![t] = x.content[t]] ELSE @[c]]]
\* Topic::publish, and doPublish through getTopic.
HubDoPublish(x, t) ==
  LET y == [x EXCEPT !.pubs = @ + 1, !.content[t] = x.pubs + 1] IN HubTell(y, y.aud[t], t)
\* doSubscribe with Topic::add: a topic that was published is sent at once.
HubDoSubscribe_NoLast(x, c, t) == [x EXCEPT !.ctx[c] = @ \cup {t}, !.aud[t] = @ \cup {c}]
HubDoSubscribe(x, c, t) ==
  LET y == [x EXCEPT !.ctx[c] = @ \cup {t}, !.aud[t] = @ \cup {c}]
  IN  IF x.content[t] > 0 THEN HubTell(y, {c}, t) ELSE y
\* doUnsubscribe.
HubDoUnsubscribe(x, c, t) == [x EXCEPT !.aud[t] = @ \ {c}, !.ctx[c] = @ \ {t}]

\* onConnection.
HubUp(c) == /\ HubFree /\ hb.conn[c] = "off" /\ hb.n < HubCommands
            /\ hb' = HubFresh(hb, c, "up")
HubDown_Forgets(c) == /\ HubFree /\ hb.conn[c] # "off"
                      /\ hb' = HubFresh(hb, c, "off")
HubDown(c) == /\ HubFree /\ hb.conn[c] # "off"
              /\ hb' = HubFresh([hb EXCEPT !.aud = [t \in HubTopics |-> @[t] \ {d \in {c} : t \in hb.ctx[c]}]], c, "off")

\* timePublish.
HubTimePublish == /\ HubFree /\ hb.ticks < HubTicks
                  /\ hb' = [HubDoPublish(hb, HubTime) EXCEPT !.ticks = @ + 1]

-----------------------------------------------------------------------------
\* PubSubClient::subscribe, unsubscribe and publish, whose message has two lines; and lines of a broken client.
HubCall(c, w, t, lines) ==
  /\ hb.conn[c] # "off" /\ hb.n < HubCommands
  /\ hb' = [hb EXCEPT !.n = @ + 1, !.wire[c] = @ \o lines, !.said[c] = Append(@, HubLine(w, t))]
HubSubscribe(c, t) == HubCall(c, "sub", t, <<HubLine("sub", t)>>)
HubUnsubscribe(c, t) == HubCall(c, "unsub", t, <<HubLine("unsub", t)>>)
HubPublish(c, t) == \E w \in {"text", "sub"} : HubCall(c, "pub", t, <<HubLine("pub", t), HubLine(w, t)>>)
HubBroken(c) == \E w \in {"no space", "other"} : HubCall(c, w, HubTime, <<HubLine(w, HubTime)>>)

\* Some lines arrive: onMessage begins.
HubArrive(c) == /\ HubFree /\ hb.conn[c] # "off"
                /\ \E k \in 1..Len(hb.wire[c]) :
                     hb' = [hb EXCEPT !.in[c] = @ \o SubSeq(hb.wire[c], 1, k),
                                      !.wire[c] = SubSeq(@, k + 1, Len(@)), !.busy = c]

\* parseMessage: how many lines the next message takes, 0 if it is not whole yet, -1 for an error.
HubParse_Line(in) == IF in = << >> THEN 0 ELSE IF in[1].w = "no space" THEN -1 ELSE 1
HubParse(in) ==
  CASE in = << >> -> 0
    [] in # << >> /\ in[1].w = "no space" -> -1
    [] in # << >> /\ in[1].w = "pub" -> IF Len(in) > 1 THEN 2 ELSE 0
    [] OTHER -> 1
\* PubSubServer::onMessage, one turn of its loop.
HubShutdown(x, c) == [x EXCEPT !.conn[c] = IF @ = "up" THEN "half" ELSE @, !.busy = HubNobody]
HubOnMessage(c) ==
  /\ hb.busy = c
  /\ LET k == HubParse(hb.in[c])
         f == Head(hb.in[c])
         x == [hb EXCEPT !.in[c] = SubSeq(@, k + 1, Len(@)), !.did[c] = Append(@, HubLine(f.w, f.t))]
     IN  hb' = CASE k = 0 -> [hb EXCEPT !.busy = HubNobody]
                 [] k < 0 -> HubShutdown(hb, c)
                 [] k > 0 /\ f.w = "pub" -> HubDoPublish(x, f.t)
                 [] k > 0 /\ f.w = "sub" -> HubDoSubscribe(x, c, f.t)
                 [] k > 0 /\ f.w = "unsub" -> HubDoUnsubscribe(x, c, f.t)
                 [] OTHER -> HubShutdown(x, c)

HubNext == \/ HubTimePublish
           \/ \E c \in HubClients : \/ HubUp(c) \/ HubDown(c) \/ HubBroken(c) \/ HubArrive(c) \/ HubOnMessage(c)
                                    \/ \E t \in HubTopics : HubSubscribe(c, t) \/ HubUnsubscribe(c, t) \/ HubPublish(c, t)

-----------------------------------------------------------------------------
\* A topic's audience and the subscriptions of the connections are the same relation, of open connections.
HubAgrees == \A c \in HubClients, t \in HubTopics :
  /\ c \in hb.aud[t] <=> t \in hb.ctx[c]
  /\ c \in hb.aud[t] => hb.conn[c] # "off"
\* Who is subscribed was sent the topic's latest value.
HubFreshest == \A c \in HubClients : \A t \in hb.ctx[c] : hb.conn[c] = "up" => hb.told[c][t] = hb.content[t]
\* The hub carries out what a client sent, command by command.
HubFraming == \A c \in HubClients : IsPrefix(hb.did[c], hb.said[c])

\* The hub (hub.cc) with clients that connect, break the protocol and leave in any order, their lines arriving in any pieces:
\* no topic keeps a connection that left, a subscriber has the latest value of its topics, and contents are
\* never taken for commands.
HubSound == HubAgrees /\ HubFreshest /\ HubFraming
=============================================================================
