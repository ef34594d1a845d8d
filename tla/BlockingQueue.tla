---------------------------- MODULE BlockingQueue ----------------------------
(***************************************************************************)
(* muduo/base BlockingQueue and BoundedBlockingQueue: threads that put and *)
(* threads that take share a queue under one mutex, and sleep on the       *)
(* conditions notEmpty_ and notFull_.  One step is one critical section:   *)
(* the mutex makes it atomic, and a wait releases the mutex as it starts.  *)
(***************************************************************************)
EXTENDS Naturals, Sequences, FiniteSets

CONSTANTS Putters, Takers, \* the threads
          MaxSize,         \* capacity given to BoundedBlockingQueue
          MaxPuts          \* bound: calls of put per thread

ASSUME QueueAssumption == /\ IsFiniteSet(Putters) /\ IsFiniteSet(Takers)
                          /\ Putters \cap Takers = {}
                          /\ MaxSize \in Nat /\ MaxPuts \in Nat

VARIABLE bq

\* bounded: which of the two classes the object is; at[t]: t is outside any call,
\* asleep on a condition or woken; got is history, the items in the order taken.
QueueThreads == Putters \cup Takers
QueueInit == bq \in [bounded : BOOLEAN, queue : {<< >>}, at : {[t \in QueueThreads |-> "out"]},
                     puts : {[p \in Putters |-> 0]}, got : {<< >>}]

\* Condition::notify wakes one of the sleepers, if there is one.
QueueNotify(at, cond) ==
  LET sleepers == {t \in QueueThreads : at[t] = cond}
  IN  IF sleepers = {} THEN {at} ELSE {[at EXCEPT ![t] = "woken"] : t \in sleepers}

QueueFull == Len(bq.queue) = MaxSize
QueueIn(t) == bq.at[t] \in {"out", "woken"}
QueueOut(t) == [bq.at EXCEPT ![t] = "out"]
QueueSleep(t, cond) == bq' = [bq EXCEPT !.at[t] = cond]

QueuePush_SignalIfEmpty(p) ==
  \E at \in IF bq.queue = << >> THEN QueueNotify(QueueOut(p), "notEmpty") ELSE {QueueOut(p)} :
     bq' = [bq EXCEPT !.queue = Append(@, <<p, bq.puts[p] + 1>>), !.puts[p] = @ + 1, !.at = at]

QueuePush(p) ==
  \E at \in QueueNotify(QueueOut(p), "notEmpty") :
     bq' = [bq EXCEPT !.queue = Append(@, <<p, bq.puts[p] + 1>>), !.puts[p] = @ + 1, !.at = at]

QueuePop(c, ats) ==
  /\ bq.queue # << >>
  /\ \E at \in ats : bq' = [bq EXCEPT !.queue = Tail(@), !.got = Append(@, Head(bq.queue)), !.at = at]

QueuePut(p) == ~bq.bounded /\ QueueIn(p) /\ bq.puts[p] < MaxPuts /\ QueuePush(p)

QueueTake(c) == /\ ~bq.bounded /\ QueueIn(c)
                /\ \/ bq.queue = << >> /\ QueueSleep(c, "notEmpty")
                   \/ QueuePop(c, {QueueOut(c)})

\* A woken put that does not look again: the circular buffer overwrites its oldest item.
QueueBoundedPut_If(p) ==
  /\ bq.bounded /\ QueueIn(p) /\ bq.puts[p] < MaxPuts
  /\ \/ QueueFull /\ bq.at[p] = "out" /\ QueueSleep(p, "notFull")
     \/ ~QueueFull /\ QueuePush(p)
     \/ /\ QueueFull /\ bq.at[p] = "woken"
        /\ bq' = [bq EXCEPT !.queue = Append(Tail(@), <<p, bq.puts[p] + 1>>), !.puts[p] = @ + 1,
                            !.at = QueueOut(p)]

QueueBoundedPut(p) == /\ bq.bounded /\ QueueIn(p) /\ bq.puts[p] < MaxPuts
                      /\ \/ QueueFull /\ QueueSleep(p, "notFull")
                         \/ ~QueueFull /\ QueuePush(p)

QueueBoundedTake_NoSignal(c) == /\ bq.bounded /\ QueueIn(c)
                                /\ \/ bq.queue = << >> /\ QueueSleep(c, "notEmpty")
                                   \/ QueuePop(c, {QueueOut(c)})

QueueBoundedTake(c) == /\ bq.bounded /\ QueueIn(c)
                       /\ \/ bq.queue = << >> /\ QueueSleep(c, "notEmpty")
                          \/ QueuePop(c, QueueNotify(QueueOut(c), "notFull"))

\* pthread_cond_wait may return without a signal.
QueueSpurious(t) == /\ bq.at[t] \in {"notEmpty", "notFull"}
                    /\ bq' = [bq EXCEPT !.at[t] = "woken"]

QueueNext == \/ \E p \in Putters : QueuePut(p) \/ QueueBoundedPut(p)
             \/ \E c \in Takers : QueueTake(c) \/ QueueBoundedTake(c)
             \/ \E t \in QueueThreads : QueueSpurious(t)

QueueSpec == QueueInit /\ [][QueueNext]_bq

QueueAt(S, place) == {t \in S : bq.at[t] = place}

(* put and take signal once per item.  While a taker sleeps on notEmpty_,   *)
(* every item in the queue has a woken taker of its own on the way; while a  *)
(* putter sleeps on notFull_, every free slot has a woken putter: no signal  *)
(* is lost, whoever else overtakes the woken thread.                         *)
QueueNoSleeperForgotten ==
  /\ QueueAt(Takers, "notEmpty") # {} =>
       Cardinality(QueueAt(Takers, "woken")) >= Len(bq.queue)
  /\ QueueAt(Putters, "notFull") # {} =>
       Cardinality(QueueAt(Putters, "woken")) + Len(bq.queue) >= MaxSize

\* got and queue together: everything put, in the order it leaves.
QueueAll == bq.got \o bq.queue

(* Each thread's items leave the queue in the order it put them, each once:   *)
(* none is lost, doubled or made up.                                         *)
QueueFifoPerPutter ==
  /\ \A i \in DOMAIN QueueAll : \E p \in Putters : \E n \in 1..bq.puts[p] : QueueAll[i] = <<p, n>>
  /\ \A i, j \in DOMAIN QueueAll :
       i < j /\ QueueAll[i][1] = QueueAll[j][1] => QueueAll[i][2] < QueueAll[j][2]
  /\ \A p \in Putters : \A n \in 1..bq.puts[p] : \E i \in DOMAIN QueueAll : QueueAll[i] = <<p, n>>

(* A thread asleep in put of a bounded queue gets to finish, if the takers    *)
(* keep taking.                                                              *)
QueueBlockedPutReturns == \A p \in Putters : bq.at[p] = "notFull" ~> bq.at[p] = "out"

(* What put and take promise together: items go over in order, each once, and *)
(* nobody sleeps through one that is meant for it.                            *)
QueueHandsOver == QueueNoSleeperForgotten /\ QueueFifoPerPutter

(* QueueHandsOver with the types it rests on, which every step keeps: takers  *)
(* sleep on notEmpty_ only, and putters on notFull_, of a bounded queue.      *)
QueueInv ==
  /\ bq \in [bounded : BOOLEAN, queue : Seq(Putters \X Nat), puts : [Putters -> Nat], got : Seq(Putters \X Nat),
             at : [QueueThreads -> {"out", "woken", "notEmpty", "notFull"}]]
  /\ \A p \in Putters : bq.at[p] # "notEmpty" /\ (bq.at[p] = "notFull" => bq.bounded)
  /\ \A c \in Takers : bq.at[c] # "notFull"
  /\ QueueHandsOver
=============================================================================
