----------------------------- MODULE TimerQueue -----------------------------
(***************************************************************************)
(* Timers of an upstream EventLoop: TimerQueue, Timer and the timerfd.     *)
(*                                                                         *)
(* tmr.heap[a] is the Timer at address a (addresses are reused), a TimerId *)
(* is <<address, sequence>>, made[s] the address of Timer number s.  timers *)
(* and active are timers_ and activeTimers_, armed the time the timerfd     *)
(* fires (0: disarmed), queue the functors of other threads.  While calling, the loop *)
(* is in handleRead, and expired[next - 1] is the callback in hand.        *)
(* cancelled is history.  The unit of time is the least delay of           *)
(* howMuchTimeFromNow.                                                     *)
(***************************************************************************)
EXTENDS Integers, Sequences, FiniteSetsExt

CONSTANTS TimerAddrs,     \* addresses, positive numbers
          TimerDelays,    \* delays and intervals that are asked for; 0: no repetition
          MaxTimers,      \* bound: Timers created
          MaxTime         \* bound: of the clock

ASSUME TimerAssumption == TimerAddrs \subseteq Nat \ {0} /\ TimerDelays \subseteq Nat

VARIABLE tmr

NoTimer == [seq |-> 0, exp |-> 0, interval |-> 0]

TimerInit == tmr = [now |-> 1, heap |-> [a \in TimerAddrs |-> NoTimer], made |-> << >>,
                    timers |-> {}, active |-> {}, canceling |-> {}, cancelled |-> {},
                    calling |-> FALSE, expired |-> << >>, next |-> 1, readAt |-> 0,
                    armed |-> 0, queue |-> << >>]

TimerIdAt(q, a) == <<a, q.heap[a].seq>>
TimerExpired(q) == {TimerIdAt(q, q.expired[i][2]) : i \in DOMAIN q.expired}
TimerTick == tmr.now < MaxTime /\ tmr' = [tmr EXCEPT !.now = @ + 1]

TimerResetFd(q, when) == [q EXCEPT !.armed = IF when > q.now THEN when ELSE q.now + 1]

TimerInsert(q, a) == [q EXCEPT !.timers = @ \cup {<<q.heap[a].exp, a>>},
                               !.active = @ \cup {TimerIdAt(q, a)}]

TimerEarliest_Later(q, a) == \A e \in q.timers : q.heap[a].exp > e[1]
TimerEarliest(q, a) == \A e \in q.timers : q.heap[a].exp < e[1]

TimerAddInLoop(q, a) ==
  IF TimerEarliest(q, a) THEN TimerResetFd(TimerInsert(q, a), q.heap[a].exp) ELSE TimerInsert(q, a)

TimerCancelInLoop_KeepsEntry(q, id) ==
  IF id \in q.active THEN [q EXCEPT !.active = @ \ {id}, !.heap[id[1]] = NoTimer] ELSE q
TimerCancelInLoop(q, id) ==
  CASE id \in q.active -> [q EXCEPT !.timers = @ \ {<<q.heap[id[1]].exp, id[1]>>},
                                    !.active = @ \ {id}, !.heap[id[1]] = NoTimer,
                                    !.cancelled = @ \cup {id}]
    [] id \notin q.active /\ q.calling ->
         [q EXCEPT !.canceling = @ \cup {id},
                   !.cancelled = IF id \in TimerExpired(q) THEN @ \cup {id} ELSE @]
    [] OTHER -> q

\* The loop's thread is in a callback or a functor, where the application may call.
TimerUserCode == tmr.calling => tmr.next > 1

\* runAt, runAfter, runEvery: the Timer is made in the caller's thread and added
\* in the loop's.
TimerAdd(a, delay, interval, inLoop) ==
  LET new == [tmr EXCEPT !.made = Append(@, a),
                         !.heap[a] = [seq |-> Len(tmr.made) + 1, exp |-> tmr.now + delay, interval |-> interval]]
  IN  /\ tmr.heap[a] = NoTimer /\ Len(tmr.made) < MaxTimers
      /\ inLoop => TimerUserCode
      /\ tmr' = IF inLoop THEN TimerAddInLoop(new, a)
                          ELSE [new EXCEPT !.queue = Append(@, <<"add", TimerIdAt(new, a)>>)]

TimerCancel(id, inLoop) ==
  /\ inLoop => TimerUserCode
  /\ ~inLoop => Len(tmr.queue) < 2     \* bound
  /\ tmr' = IF inLoop THEN TimerCancelInLoop(tmr, id)
                      ELSE [tmr EXCEPT !.queue = Append(@, <<"cancel", id>>)]

TimerFunctor == /\ ~tmr.calling /\ tmr.queue # << >>
                /\ LET f == Head(tmr.queue)
                       q == [tmr EXCEPT !.queue = Tail(@)]
                   IN  tmr' = IF f[1] = "add" THEN TimerAddInLoop(q, f[2][1]) ELSE TimerCancelInLoop(q, f[2])

\* The entries of due in the order of timers_: by expiration, then by address.
TimerSorted(s, due) ==
  /\ Range(s) = due
  /\ \A i, j \in DOMAIN s : i < j => s[i][1] < s[j][1] \/ (s[i][1] = s[j][1] /\ s[i][2] < s[j][2])

\* handleRead up to the callbacks: getExpired takes the due entries in order.
TimerHandleRead ==
  LET due == {e \in tmr.timers : e[1] <= tmr.now}
  IN  /\ ~tmr.calling /\ tmr.armed # 0 /\ tmr.armed <= tmr.now
      /\ \E s \in [1 .. Cardinality(due) -> due] :
           /\ TimerSorted(s, due)
           /\ tmr' = [tmr EXCEPT !.armed = 0, !.readAt = tmr.now, !.calling = TRUE, !.next = 1,
                                 !.canceling = {}, !.timers = @ \ due, !.expired = s,
                                 !.active = @ \ {TimerIdAt(tmr, e[2]) : e \in due}]

TimerRun == /\ tmr.calling /\ tmr.next <= Len(tmr.expired)
            /\ tmr' = [tmr EXCEPT !.next = @ + 1]

TimerRestarts_Cancelled(q, a) == q.heap[a].interval > 0
TimerRestarts(q, a) == q.heap[a].interval > 0 /\ TimerIdAt(q, a) \notin q.canceling

\* reset: each expired Timer is restarted or deleted, then the timerfd is armed.
TimerReset ==
  LET done == {e[2] : e \in Range(tmr.expired)}
      again == {a \in done : TimerRestarts(tmr, a)}
      heap == [a \in TimerAddrs |->
                 CASE a \in again -> [tmr.heap[a] EXCEPT !.exp = tmr.readAt + tmr.heap[a].interval]
                   [] a \in done \ again -> NoTimer
                   [] OTHER -> tmr.heap[a]]
      q == [tmr EXCEPT !.calling = FALSE, !.expired = << >>, !.heap = heap,
                       !.timers = @ \cup {<<heap[a].exp, a>> : a \in again},
                       !.active = @ \cup {<<a, heap[a].seq>> : a \in again}]
  IN  /\ tmr.calling /\ tmr.next > Len(tmr.expired)
      /\ tmr' = IF q.timers = {} THEN q ELSE TimerResetFd(q, Min({e[1] : e \in q.timers}))

TimerNext == \/ TimerTick \/ TimerFunctor \/ TimerHandleRead \/ TimerRun \/ TimerReset
             \/ \E a \in TimerAddrs, d \in TimerDelays, i \in TimerDelays, b \in BOOLEAN : TimerAdd(a, d, i, b)
             \/ \E s \in DOMAIN tmr.made, b \in BOOLEAN : TimerCancel(<<tmr.made[s], s>>, b)

TimerSpec == TimerInit /\ [][TimerNext]_tmr

(* timers_ and activeTimers_ hold the same Timers, all of them allocated, and so *)
(* are the ones being called or still queued, whatever callbacks and other      *)
(* threads add and cancel and however addresses are reused.                     *)
TimerSetsInStep ==
  LET adding == {tmr.queue[i][2] : i \in {j \in DOMAIN tmr.queue : tmr.queue[j][1] = "add"}}
  IN  /\ tmr.active = {TimerIdAt(tmr, e[2]) : e \in tmr.timers}
      /\ Cardinality(tmr.active) = Cardinality(tmr.timers)
      /\ \A e \in tmr.timers \cup Range(tmr.expired) : tmr.heap[e[2]].seq > 0 /\ tmr.heap[e[2]].exp = e[1]
      /\ \A id \in adding : TimerIdAt(tmr, id[1]) = id
      /\ tmr.active \cap (TimerExpired(tmr) \cup adding) = {}

(* A timer whose cancellation took effect is never due again: it is out of the   *)
(* sets, or in the batch in hand and marked so that reset deletes it.            *)
TimerStaysCancelled ==
  \A id \in tmr.cancelled : id \notin tmr.active /\ (id \in TimerExpired(tmr) => id \in tmr.canceling)

(* No timer is slept through: outside handleRead the timerfd is set to fire by   *)
(* the earliest expiration, or in one unit if that has passed.                   *)
TimerfdArmed ==
  ~tmr.calling => \A e \in tmr.timers : tmr.armed # 0 /\ (tmr.armed <= e[1] \/ tmr.armed <= tmr.now + 1)

(* What TimerQueue owes its users.                                               *)
TimersKept == TimerSetsInStep /\ TimerStaysCancelled /\ TimerfdArmed
=============================================================================
