-------------------------------- MODULE Idle ---------------------------------
(***************************************************************************)
(* Servers that get rid of connections (examples/idleconnection and        *)
(* examples/maxconnection).  kind "wheel": a ring of buckets of entries, a *)
(* connection is shut down when the last bucket with its entry drops out;  *)
(* "list": connections in the order of their last message, the timer shuts *)
(* down those at its head that are too old; "max": at most so many.        *)
(*                                                                         *)
(* st[c]: "new", "up", "half" (shut down), "down".  wheel: the buckets;    *)
(* list, last: the list and the times in its nodes; num: numConnected_.    *)
(* now: the clock in seconds, read the moment it is asked; poll: when the  *)
(* loop woke, the time a message is given; next: when the timer is due.    *)
(* due[c]: when forceCloseWithDelay closes c.  History: quiet[c], the      *)
(* wheel's ticks since c was heard of.                                     *)
(***************************************************************************)
EXTENDS Integers, Sequences, FiniteSets, SequencesExt

CONSTANTS IdleConns, IdleSeconds, MaxConnections,
          ForceDelay,      \* 3 s or 3.5 s in the code
          IdleEnd          \* bound: the last second

VARIABLE idl

IdleKinds == {"wheel", "list", "max"}
IdleNever == -1
IdleInit ==
  idl \in {[kind |-> k, st |-> [c \in IdleConns |-> "new"], wheel |-> [i \in 1..IdleSeconds |-> {}], list |-> << >>,
            last |-> [c \in IdleConns |-> 0], num |-> 0, now |-> 0, poll |-> 0, next |-> 1,
            due |-> [c \in IdleConns |-> IdleNever], quiet |-> [c \in IdleConns |-> 0], fault |-> FALSE] : k \in IdleKinds}

IdleOpen == {c \in IdleConns : idl.st[c] \in {"up", "half"}}
IdleUp == {c \in IdleConns : idl.st[c] = "up"}
\* TcpConnection::shutdown and forceCloseWithDelay.
IdleShut(x, cs) == [x EXCEPT !.st = [c \in IdleConns |-> IF c \in cs /\ @[c] = "up" THEN "half" ELSE @[c]]]
IdleForce(x, cs) == [x EXCEPT !.due = [c \in IdleConns |-> IF c \in cs THEN x.now + ForceDelay ELSE @[c]]]

\* onConnection, up: into the last bucket; to the end of the list; one more, or one too many.
IdleWheelUp(x, c) == [x EXCEPT !.wheel[IdleSeconds] = @ \cup {c}]
IdleListUp_Front(x, c) == [x EXCEPT !.list = <<c>> \o @, !.last[c] = x.now]
IdleListUp(x, c) == [x EXCEPT !.list = Append(@, c), !.last[c] = x.now]
IdleMaxUp(x, c) == IF x.num < MaxConnections THEN [x EXCEPT !.num = @ + 1]
                   ELSE IdleForce(IdleShut([x EXCEPT !.num = @ + 1], {c}), {c})
IdleConnect(c) ==
  /\ idl.st[c] = "new"
  /\ LET x == [idl EXCEPT !.st[c] = "up", !.quiet[c] = 0]
     IN  idl' = CASE x.kind = "wheel" -> IdleWheelUp(x, c)
                  [] x.kind = "list" -> IdleListUp(x, c)
                  [] x.kind = "max" -> IdleMaxUp(x, c)

\* onConnection, down: the peer closes, or the delayed close comes.
IdleListDown(x, c) == [x EXCEPT !.list = Remove(@, c), !.fault = @ \/ c \notin Range(x.list)]
IdleMaxDown_Never(x) == x
IdleMaxDown(x) == [x EXCEPT !.num = @ - 1]
IdleClosed(x, c) ==
  LET y == [x EXCEPT !.st[c] = "down", !.due[c] = IdleNever, !.last[c] = 0, !.quiet[c] = 0]
  IN  CASE y.kind = "wheel" -> y
        [] y.kind = "list" -> IdleListDown(y, c)
        [] y.kind = "max" -> IdleMaxDown(y)
IdleClose(c) == /\ idl.st[c] \in {"up", "half"}
                /\ idl' = IdleClosed(idl, c)
\* The descriptor and the name are used again.
IdleReuse(c) == /\ idl.st[c] = "down" /\ \A i \in 1..IdleSeconds : c \notin idl.wheel[i]
                /\ idl' = [idl EXCEPT !.st[c] = "new"]
IdleForceClose(c) == /\ idl.due[c] # IdleNever /\ idl.due[c] <= idl.now
                     /\ idl' = IdleClosed(idl, c)

\* onMessage: the weak pointer finds an entry that is still in a bucket; the list's node moves to the end.
IdleWheelMessage_Ignored(x, c) == x
IdleWheelMessage(x, c) ==
  IF \E i \in 1..IdleSeconds : c \in x.wheel[i] THEN [x EXCEPT !.wheel[IdleSeconds] = @ \cup {c}] ELSE x
IdleListMessage(x, c) == [x EXCEPT !.last[c] = x.poll, !.list = Append(Remove(@, c), c)]
IdleMessage(c) ==
  /\ idl.st[c] \in {"up", "half"}
  /\ LET x == [idl EXCEPT !.quiet[c] = 0]
     IN  idl' = CASE x.kind = "wheel" -> IdleWheelMessage(x, c)
                  [] x.kind = "list" -> IdleListMessage(x, c)
                  [] x.kind = "max" -> x

-----------------------------------------------------------------------------
\* onTimer of the wheel: a new bucket pushes the oldest out; ~Entry shuts down what only that one held.
IdleTurn(x) ==
  LET kept == Tail(x.wheel)
      gone == {c \in x.wheel[1] : \A i \in DOMAIN kept : c \notin kept[i]}
  IN  IdleShut([x EXCEPT !.wheel = Append(kept, {})], gone)
\* onTimer of the list: from its head up to the first connection that is young enough.
IdleSweep(x) ==
  LET Old(c) == x.now - x.last[c] > IdleSeconds
      head == {i \in DOMAIN x.list : \A j \in 1..i : Old(x.list[j])}
      shut == {x.list[i] : i \in head} \cap IdleUp
  IN  IdleForce(IdleShut(x, shut), shut)
IdleTimer ==
  /\ idl.next <= idl.poll
  /\ LET x == [idl EXCEPT !.next = @ + 1, !.quiet = [c \in IdleConns |-> IF idl.kind = "wheel" /\ c \in IdleOpen THEN @[c] + 1 ELSE 0]]
     IN  idl' = CASE x.kind = "wheel" -> IdleTurn(x) [] x.kind = "list" -> IdleSweep(x) [] x.kind = "max" -> x

\* Time passes while the loop works, and the loop polls again once the timer has run.
IdleClock == /\ idl.now = idl.poll /\ idl.now < IdleEnd
             /\ idl' = [idl EXCEPT !.now = @ + 1]
IdlePoll == /\ idl.next > idl.poll /\ idl.poll < idl.now /\ \A c \in IdleConns : idl.due[c] = IdleNever \/ idl.due[c] > idl.poll
            /\ idl' = [idl EXCEPT !.poll = idl.now]

IdleNext == \/ IdleTimer \/ IdleClock \/ IdlePoll
            \/ \E c \in IdleConns : IdleConnect(c) \/ IdleClose(c) \/ IdleReuse(c) \/ IdleForceClose(c) \/ IdleMessage(c)

-----------------------------------------------------------------------------
\* The wheel shuts a connection down at the IdleSeconds-th tick without a message, neither earlier nor later.
IdleWheel == idl.kind = "wheel" =>
  /\ \A c \in IdleUp : idl.quiet[c] < IdleSeconds
  /\ \A c \in IdleOpen \ IdleUp : idl.quiet[c] < IdleSeconds => ~\E i \in 1..IdleSeconds : c \in idl.wheel[i]
  /\ \A c \in IdleUp : \E i \in 1..IdleSeconds : c \in idl.wheel[i] /\ i = IdleSeconds - idl.quiet[c]
\* The list holds each open connection once, out of order by no more than the time of one turn of the loop, and the timer
\* leaves nobody behind who is older than that.
IdleList == idl.kind = "list" =>
  /\ Range(idl.list) = IdleOpen /\ IsInjective(idl.list)
  /\ \A i, j \in DOMAIN idl.list : i < j => idl.last[idl.list[i]] <= idl.last[idl.list[j]] + 1
  /\ \A c \in IdleUp : idl.next > idl.now => idl.now - idl.last[c] <= IdleSeconds + 1
\* No more than the maximum stay up, and those over it are closed in the end by the delayed close.
IdleMax == idl.kind = "max" =>
  /\ idl.num = Cardinality(IdleOpen) /\ Cardinality(IdleUp) <= MaxConnections
  /\ \A c \in IdleOpen \ IdleUp : idl.due[c] # IdleNever /\ idl.due[c] <= idl.poll + ForceDelay + 1

\* Connections that come, talk and leave at any time between the ticks (echo.cc, sortedlist.cc,
\* maxconnection/echo.cc): each server's bookkeeping stays exact, an idle connection is shut down in time and
\* an active one never.
IdleSound == IdleWheel /\ IdleList /\ IdleMax /\ ~idl.fault
=============================================================================
