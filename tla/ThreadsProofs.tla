---------------------------- MODULE ThreadsProofs ----------------------------
(***************************************************************************)
(* Proofs about the threads of muduo/base and muduo/net, for any number of *)
(* them: the start-up handshake of Thread, the blocking queues, ThreadPool *)
(* and EventLoopThreadPool.  Each has an inductive invariant in the module *)
(* of its component; here it is cut into parts (Parts), each over the      *)
(* fields it is about, and every step is shown to keep the parts.          *)
(***************************************************************************)
EXTENDS Thread, BlockingQueue, ThreadPool, EventLoopThread, FiniteSetTheorems, TLAPS

(***************************************************************************)
(* Thread, CountDownLatch, MutexLock and Condition.                        *)
(***************************************************************************)

\* Every step of the two threads keeps ThreadInv.
LEMMA ThreadStep ==
  ASSUME ThreadInv, ThreadNext
  PROVE  ThreadInv'
<1> USE DEF Both, Creator, Child, Nobody, CreatorPlaces, ChildPlaces, Owning, Holding, PastLatch, PastWait
<1>1. CASE ThreadStart
  <2>1. CASE thr' = [thr EXCEPT !.at[Creator] = "aborted"]
    BY <1>1, <2>1 DEF ThreadInv, ThreadStart
  <2> DEFINE at == [t \in Both |-> IF t = Creator THEN "lock" ELSE "tid"]
  <2>2. CASE thr' = [thr EXCEPT !.started = TRUE, !.at = at]
    <3>1. /\ at \in [Both -> CreatorPlaces \cup ChildPlaces]
          /\ at[Creator] = "lock" /\ at[Child] = "tid"
      OBVIOUS
    <3> HIDE DEF at
    <3>2. thr.at[Child] = "none"
      BY <1>1 DEF ThreadInv, ThreadStart
    <3>3. QED
      BY <1>1, <2>2, <3>1, <3>2, Zenon DEF ThreadInv, ThreadStart
  <2>3. QED
    BY <1>1, <2>1, <2>2 DEF ThreadStart
<1>2. CASE CondUnassign
  BY <1>2, ZenonT(40) DEF ThreadInv, CondUnassign
<1>3. CASE CondWait
  BY <1>3, ZenonT(40) DEF ThreadInv, CondWait
<1>4. CASE CondSpurious
  BY <1>4 DEF ThreadInv, CondSpurious, ThreadGo
<1>5. CASE LatchWait
  BY <1>5 DEF ThreadInv, LatchWait
<1>6. CASE LatchCountDown
  <2> DEFINE at == [IF thr.count = 1 THEN LatchNotifyAll(thr.at) ELSE thr.at EXCEPT ![Child] = "unlock"]
  <2>1. /\ at \in [Both -> CreatorPlaces \cup ChildPlaces]
        /\ at[Child] = "unlock"
        /\ at[Creator] = thr.at[Creator] \/ (thr.at[Creator] = "asleep" /\ at[Creator] = "lock")
    BY <1>6 DEF ThreadInv, LatchCountDown, LatchNotifyAll
  <2>2. thr' = [thr EXCEPT !.count = thr.count - 1, !.at = at]
    BY <1>6 DEF LatchCountDown
  <2>3. thr.at[Child] = "locked" /\ thr.count = 1 /\ thr.count - 1 = 0
    BY <1>6 DEF LatchCountDown, ThreadInv
  <2> HIDE DEF at
  <2>4. /\ thr'.count = 0 /\ thr'.at = at /\ thr'.owner = thr.owner /\ thr'.holder = thr.holder
        /\ thr'.tid = thr.tid /\ thr'.alive = thr.alive /\ thr'.started = thr.started /\ thr'.joined = thr.joined
    BY <2>2, <2>3 DEF ThreadInv
  <2>5. thr' \in [owner : Both \cup {Nobody}, holder : Both \cup {Nobody}, count : {0, 1}, tid : BOOLEAN,
                  alive : BOOLEAN, started : BOOLEAN, joined : BOOLEAN,
                  at : [Both -> CreatorPlaces \cup ChildPlaces]]
    BY <2>1, <2>2, <2>3, Zenon DEF ThreadInv
  <2>6. QED
    BY <2>1, <2>3, <2>4, <2>5 DEF ThreadInv
<1>7. CASE ThreadStoreTid
  BY <1>7, ZenonT(40) DEF ThreadInv, ThreadStoreTid
<1>8. CASE ThreadFunc
  BY <1>8 DEF ThreadInv, ThreadFunc
<1>9. CASE ThreadJoin
  BY <1>9, ZenonT(40) DEF ThreadInv, ThreadJoin
<1>10. CASE ThreadJoined
  BY <1>10 DEF ThreadInv, ThreadJoined, ThreadGo
<1>11. CASE ThreadDestroy
  BY <1>11, Zenon DEF ThreadInv, ThreadDestroy
<1>12. ASSUME NEW t \in Both, MutexAcquire(t)  PROVE ThreadInv'
  BY <1>12, ZenonT(40) DEF ThreadInv, MutexAcquire
<1>13. ASSUME NEW t \in Both, MutexAssign(t)  PROVE ThreadInv'
  BY <1>13, ZenonT(40) DEF ThreadInv, MutexAssign
<1>14. ASSUME NEW t \in Both, MutexUnassign(t)  PROVE ThreadInv'
  BY <1>14, ZenonT(40) DEF ThreadInv, MutexUnassign
<1>15. ASSUME NEW t \in Both, MutexRelease(t)  PROVE ThreadInv'
  BY <1>15, ZenonT(40) DEF ThreadInv, MutexRelease
<1>16. QED
  BY <1>1, <1>2, <1>3, <1>4, <1>5, <1>6, <1>7, <1>8, <1>9, <1>10, <1>11, <1>12, <1>13, <1>14, <1>15, SMTT(40)
     DEF ThreadNext

(* The mutex and its holder_ belong to one thread at a time, a wait on the     *)
(* condition included, and the Thread object with its latch is destroyed only  *)
(* when the new thread is through with it: CountDownLatch::wait and countDown  *)
(* as Thread::start and runInThread use them.                                  *)
THEOREM StartIsAHandshake == ThreadSpec => []ThreadHandshake
<1>1. ThreadInit => ThreadInv
  BY DEF ThreadInit, ThreadInv, Both, Creator, Child, Nobody, CreatorPlaces, ChildPlaces, Owning, Holding,
         PastLatch, PastWait
<1>2. ThreadInv /\ [ThreadNext]_thr => ThreadInv'
  BY ThreadStep DEF ThreadInv
<1>3. ThreadInv => ThreadHandshake
  BY DEF ThreadInv, ThreadHandshake, MutexHolderIsOwner, ThreadLatchOutlivesUse, Both, Creator, Child, Nobody,
         Owning, Holding, PastLatch, PastWait
<1>4. QED
  BY <1>1, <1>2, <1>3, PTL DEF ThreadSpec
(***************************************************************************)
(* Counting the threads at a place.                                        *)
(***************************************************************************)
ThreadsAt(S, at, place) == {t \in S : at[t] = place}

\* The threads at a place are finitely many, so there is a number of them.
LEMMA CountAt ==
  ASSUME NEW S, IsFiniteSet(S), NEW at, NEW place
  PROVE  IsFiniteSet(ThreadsAt(S, at, place)) /\ Cardinality(ThreadsAt(S, at, place)) \in Nat
<1>1. ThreadsAt(S, at, place) \subseteq S
  BY DEF ThreadsAt
<1>2. QED
  BY <1>1, FS_Subset, FS_CardinalityType

\* Only thread u moves: the count at a place changes by that thread only.
LEMMA CountMove ==
  ASSUME NEW S, IsFiniteSet(S), NEW at, NEW moved, NEW place,
         NEW u, \A t \in S \ {u} : moved[t] = at[t]
  PROVE  /\ Cardinality(ThreadsAt(S, moved, place)) \in Nat /\ Cardinality(ThreadsAt(S, at, place)) \in Nat
         /\ Cardinality(ThreadsAt(S, moved, place)) >= Cardinality(ThreadsAt(S, at, place)) - 1
         /\ moved[u] = place \/ at[u] # place =>
              Cardinality(ThreadsAt(S, moved, place)) >= Cardinality(ThreadsAt(S, at, place))
         /\ moved[u] = place /\ at[u] # place /\ u \in S =>
              Cardinality(ThreadsAt(S, moved, place)) = Cardinality(ThreadsAt(S, at, place)) + 1
<1> DEFINE before == ThreadsAt(S, at, place)
           after == ThreadsAt(S, moved, place)
<1>1. u \notin S => after = before
  BY DEF ThreadsAt
<1>2. moved[u] # place => after = before \ {u}
  BY DEF ThreadsAt
<1>3. moved[u] = place /\ u \in S => after = before \cup {u}
  BY DEF ThreadsAt
<1>4. at[u] # place => u \notin before
  BY DEF ThreadsAt
<1>5. IsFiniteSet(before) /\ Cardinality(before) \in Nat /\ Cardinality(after) \in Nat
  BY CountAt
<1> HIDE DEF before, after
<1>6. Cardinality(before \ {u}) = IF u \in before THEN Cardinality(before) - 1 ELSE Cardinality(before)
  BY <1>5, FS_RemoveElement
<1>7. Cardinality(before \cup {u}) = IF u \in before THEN Cardinality(before) ELSE Cardinality(before) + 1
  BY <1>5, FS_AddElement, Zenon
<1>8. \/ Cardinality(after) = Cardinality(before)
      \/ moved[u] # place /\ Cardinality(after) = Cardinality(before \ {u})
      \/ moved[u] = place /\ u \in S /\ Cardinality(after) = Cardinality(before \cup {u})
  BY <1>1, <1>2, <1>3
<1>9. moved[u] = place /\ u \in S => Cardinality(after) = Cardinality(before \cup {u})
  BY <1>3
<1>10. Cardinality(after) >= Cardinality(before) - 1
  BY <1>5, <1>6, <1>7, <1>8
<1>11. moved[u] = place \/ at[u] # place => Cardinality(after) >= Cardinality(before)
  BY <1>4, <1>5, <1>6, <1>7, <1>8
<1>12. moved[u] = place /\ at[u] # place /\ u \in S => Cardinality(after) = Cardinality(before) + 1
  BY <1>4, <1>5, <1>7, <1>9
<1>13. QED
  BY <1>5, <1>10, <1>11, <1>12 DEF before, after

\* A thread that comes to a place makes one more there.
LEMMA OneMore ==
  ASSUME NEW S, IsFiniteSet(S), NEW at, NEW moved, NEW place, NEW u \in S,
         \A t \in S \ {u} : moved[t] = at[t], moved[u] = place, at[u] # place
  PROVE  Cardinality(ThreadsAt(S, moved, place)) = Cardinality(ThreadsAt(S, at, place)) + 1
BY CountMove

(***************************************************************************)
(* BlockingQueue and BoundedBlockingQueue.                                 *)
(***************************************************************************)
QueuePlaces == {"out", "woken", "notEmpty", "notFull"}

\* QueueNoSleeperForgotten of threads at places and a number of items.
Awake(at, len) ==
  /\ ThreadsAt(Takers, at, "notEmpty") # {} => Cardinality(ThreadsAt(Takers, at, "woken")) >= len
  /\ ThreadsAt(Putters, at, "notFull") # {} => Cardinality(ThreadsAt(Putters, at, "woken")) + len >= MaxSize

\* Where QueueInv lets the threads be.
Placed(at, bounded) ==
  /\ at \in [QueueThreads -> QueuePlaces]
  /\ \A p \in Putters : at[p] # "notEmpty" /\ (at[p] = "notFull" => bounded)
  /\ \A c \in Takers : at[c] # "notFull"

\* notify leaves the places as they are, and then nobody sleeps on the condition, or
\* wakes one thread that did.
LEMMA Notified ==
  ASSUME NEW at, NEW cond, NEW after \in QueueNotify(at, cond)
  PROVE  \/ after = at /\ \A t \in QueueThreads : at[t] # cond
         \/ \E t \in QueueThreads : at[t] = cond /\ after = [at EXCEPT ![t] = "woken"]
BY DEF QueueNotify

\* A putter leaves with one item more, and a taker is woken for it.
LEMMA AwakeAfterPush ==
  ASSUME NEW at, NEW bounded \in BOOLEAN, Placed(at, bounded), NEW len \in Nat, Awake(at, len), NEW p \in Putters,
         NEW after \in QueueNotify([at EXCEPT ![p] = "out"], "notEmpty")
  PROVE  Placed(after, bounded) /\ Awake(after, len + 1)
<1> DEFINE left == [at EXCEPT ![p] = "out"]
<1>1. p \notin Takers /\ IsFiniteSet(Putters) /\ IsFiniteSet(Takers)
  BY QueueAssumption
<1>2. /\ Placed(left, bounded)
      /\ left[p] = "out" /\ \A t \in Putters \ {p} : left[t] = at[t]
      /\ \A t \in Takers : left[t] = at[t]
  BY <1>1 DEF Placed, QueueThreads, QueuePlaces
<1>3. after \in QueueNotify(left, "notEmpty")
  OBVIOUS
<1> HIDE DEF left
<1>a. /\ ThreadsAt(Takers, left, "notEmpty") = ThreadsAt(Takers, at, "notEmpty")
      /\ ThreadsAt(Takers, left, "woken") = ThreadsAt(Takers, at, "woken")
  BY <1>2 DEF ThreadsAt
<1>c. ThreadsAt(Putters, left, "notFull") \subseteq ThreadsAt(Putters, at, "notFull")
  BY <1>2 DEF ThreadsAt
<1>d. /\ Cardinality(ThreadsAt(Putters, left, "woken")) >= Cardinality(ThreadsAt(Putters, at, "woken")) - 1
      /\ Cardinality(ThreadsAt(Putters, at, "woken")) \in Nat
      /\ Cardinality(ThreadsAt(Putters, left, "woken")) \in Nat
  BY <1>1, <1>2, CountMove, Zenon
<1>e. Cardinality(ThreadsAt(Takers, left, "woken")) \in Nat
  BY <1>1, CountAt
<1>4. CASE after = left /\ \A t \in QueueThreads : left[t] # "notEmpty"
  <2>1. ThreadsAt(Takers, left, "notEmpty") = {}
    BY <1>4 DEF ThreadsAt, QueueThreads
  <2>2. QED
    BY QueueAssumption, <1>2, <1>4, <1>c, <1>d, <2>1 DEF Awake
<1>5. ASSUME NEW t \in QueueThreads, left[t] = "notEmpty", after = [left EXCEPT ![t] = "woken"]
      PROVE  Placed(after, bounded) /\ Awake(after, len + 1)
  <2>1. t \in Takers /\ t \notin Putters
    BY QueueAssumption, <1>2, <1>5 DEF Placed, QueueThreads
  <2>2. /\ Placed(after, bounded)
        /\ after[t] = "woken" /\ \A o \in Takers \ {t} : after[o] = left[o]
        /\ \A o \in Putters : after[o] = left[o]
    BY <1>2, <1>5, <2>1 DEF Placed, QueueThreads, QueuePlaces
  <2>3. Cardinality(ThreadsAt(Takers, after, "woken")) = Cardinality(ThreadsAt(Takers, left, "woken")) + 1
    <3>1. left[t] # "woken"
      BY <1>5
    <3>2. after[t] = "woken" /\ \A o \in Takers \ {t} : after[o] = left[o]
      BY <2>2
    <3>3. QED
      BY <1>1, <2>1, <3>1, <3>2, OneMore
  <2>4. /\ ThreadsAt(Putters, after, "woken") = ThreadsAt(Putters, left, "woken")
        /\ ThreadsAt(Putters, after, "notFull") = ThreadsAt(Putters, left, "notFull")
    BY <2>2 DEF ThreadsAt
  <2>5. t \in ThreadsAt(Takers, left, "notEmpty")
    BY <1>5, <2>1 DEF ThreadsAt
  <2>6. Cardinality(ThreadsAt(Takers, after, "woken")) >= len + 1
    BY <1>a, <1>e, <2>3, <2>5 DEF Awake
  <2>7. QED
    BY QueueAssumption, <1>c, <1>d, <2>2, <2>4, <2>6 DEF Awake
<1>6. QED
  BY <1>3, <1>4, <1>5, Notified

\* A taker leaves with one item less; of a bounded queue, a putter is woken for the slot.
LEMMA AwakeAfterPop ==
  ASSUME NEW at, NEW bounded \in BOOLEAN, Placed(at, bounded), NEW len \in Nat \ {0}, Awake(at, len), NEW c \in Takers,
         NEW after, \/ ~bounded /\ after = [at EXCEPT ![c] = "out"]
                    \/ after \in QueueNotify([at EXCEPT ![c] = "out"], "notFull")
  PROVE  Placed(after, bounded) /\ Awake(after, len - 1)
<1> DEFINE left == [at EXCEPT ![c] = "out"]
<1>1. c \notin Putters /\ IsFiniteSet(Putters) /\ IsFiniteSet(Takers)
  BY QueueAssumption
<1>2. /\ Placed(left, bounded)
      /\ left[c] = "out" /\ \A t \in Takers \ {c} : left[t] = at[t]
      /\ \A t \in Putters : left[t] = at[t]
  BY <1>1 DEF Placed, QueueThreads, QueuePlaces
<1>3. (~bounded /\ after = left) \/ after \in QueueNotify(left, "notFull")
  OBVIOUS
<1> HIDE DEF left
<1>a. /\ ThreadsAt(Putters, left, "notFull") = ThreadsAt(Putters, at, "notFull")
      /\ ThreadsAt(Putters, left, "woken") = ThreadsAt(Putters, at, "woken")
  BY <1>2 DEF ThreadsAt
<1>c. ThreadsAt(Takers, left, "notEmpty") \subseteq ThreadsAt(Takers, at, "notEmpty")
  BY <1>2 DEF ThreadsAt
<1>d. /\ Cardinality(ThreadsAt(Takers, left, "woken")) >= Cardinality(ThreadsAt(Takers, at, "woken")) - 1
      /\ Cardinality(ThreadsAt(Takers, at, "woken")) \in Nat
      /\ Cardinality(ThreadsAt(Takers, left, "woken")) \in Nat
  BY <1>1, <1>2, CountMove, Zenon
<1>e. Cardinality(ThreadsAt(Putters, left, "woken")) \in Nat
  BY <1>1, CountAt
<1>4. CASE after = left /\ \A t \in Putters : left[t] # "notFull"
  <2>1. ThreadsAt(Putters, left, "notFull") = {}
    BY <1>4 DEF ThreadsAt
  <2>2. QED
    BY <1>2, <1>4, <1>c, <1>d, <2>1 DEF Awake
<1>5. ASSUME NEW t \in QueueThreads, left[t] = "notFull", after = [left EXCEPT ![t] = "woken"]
      PROVE  Placed(after, bounded) /\ Awake(after, len - 1)
  <2>1. t \in Putters /\ t \notin Takers
    BY QueueAssumption, <1>2, <1>5 DEF Placed, QueueThreads
  <2>2. /\ Placed(after, bounded)
        /\ after[t] = "woken" /\ \A o \in Putters \ {t} : after[o] = left[o]
        /\ \A o \in Takers : after[o] = left[o]
    BY <1>2, <1>5, <2>1 DEF Placed, QueueThreads, QueuePlaces
  <2>3. Cardinality(ThreadsAt(Putters, after, "woken")) = Cardinality(ThreadsAt(Putters, left, "woken")) + 1
    <3>1. left[t] # "woken"
      BY <1>5
    <3>2. after[t] = "woken" /\ \A o \in Putters \ {t} : after[o] = left[o]
      BY <2>2
    <3>3. QED
      BY <1>1, <2>1, <3>1, <3>2, OneMore, SMTT(40)
  <2>4. /\ ThreadsAt(Takers, after, "woken") = ThreadsAt(Takers, left, "woken")
        /\ ThreadsAt(Takers, after, "notEmpty") = ThreadsAt(Takers, left, "notEmpty")
    BY <2>2 DEF ThreadsAt
  <2>5. t \in ThreadsAt(Putters, left, "notFull")
    BY <1>5, <2>1 DEF ThreadsAt
  <2>6. Cardinality(ThreadsAt(Putters, after, "woken")) + (len - 1) >= MaxSize
    BY QueueAssumption, <1>a, <1>e, <2>3, <2>5 DEF Awake
  <2>7. QED
    BY <1>c, <1>d, <2>2, <2>4, <2>6 DEF Awake
<1>6. ~bounded => \A t \in Putters : left[t] # "notFull"
  BY <1>2 DEF Placed
<1>7. Putters \subseteq QueueThreads
  BY DEF QueueThreads
<1>8. QED
  BY <1>3, <1>4, <1>5, <1>6, <1>7, Notified

\* A thread goes to sleep only where its condition asks for it, and may wake by itself.
LEMMA AwakeAfterMove ==
  ASSUME NEW at, NEW bounded \in BOOLEAN, Placed(at, bounded), NEW len \in Nat, Awake(at, len),
         NEW t \in QueueThreads, NEW place,
         \/ place = "notEmpty" /\ t \in Takers /\ len = 0
         \/ place = "notFull" /\ t \in Putters /\ len = MaxSize /\ bounded
         \/ place = "woken"
  PROVE  Placed([at EXCEPT ![t] = place], bounded) /\ Awake([at EXCEPT ![t] = place], len)
<1> DEFINE after == [at EXCEPT ![t] = place]
<1>1. /\ Takers \cap Putters = {} /\ IsFiniteSet(Putters) /\ IsFiniteSet(Takers)
      /\ Takers \subseteq QueueThreads /\ Putters \subseteq QueueThreads
  BY QueueAssumption DEF QueueThreads
<1>2. /\ Placed(after, bounded) /\ after[t] = place
      /\ \A o \in Takers \ {t} : after[o] = at[o]
      /\ \A o \in Putters \ {t} : after[o] = at[o]
  BY <1>1 DEF Placed, QueuePlaces
<1> SUFFICES Placed(after, bounded) /\ Awake(after, len)
  OBVIOUS
<1> HIDE DEF after
<1>3. /\ Cardinality(ThreadsAt(Takers, after, "woken")) \in Nat
      /\ Cardinality(ThreadsAt(Takers, at, "woken")) \in Nat
      /\ place = "woken" => Cardinality(ThreadsAt(Takers, after, "woken")) >= Cardinality(ThreadsAt(Takers, at, "woken"))
  BY <1>1, <1>2, CountMove
<1>4. /\ Cardinality(ThreadsAt(Putters, after, "woken")) \in Nat
      /\ Cardinality(ThreadsAt(Putters, at, "woken")) \in Nat
      /\ place = "woken" => Cardinality(ThreadsAt(Putters, after, "woken")) >= Cardinality(ThreadsAt(Putters, at, "woken"))
  BY <1>1, <1>2, CountMove
<1>5. CASE place = "woken"
  <2>1. /\ ThreadsAt(Takers, after, "notEmpty") \subseteq ThreadsAt(Takers, at, "notEmpty")
        /\ ThreadsAt(Putters, after, "notFull") \subseteq ThreadsAt(Putters, at, "notFull")
    BY <1>2, <1>5 DEF ThreadsAt
  <2>2. QED
    BY QueueAssumption, <1>2, <1>3, <1>4, <1>5, <2>1 DEF Awake
<1>6. CASE place = "notEmpty" /\ t \in Takers /\ len = 0
  <2>1. ThreadsAt(Putters, after, "woken") = ThreadsAt(Putters, at, "woken")
    BY <1>1, <1>2, <1>6 DEF ThreadsAt
  <2>2. ThreadsAt(Putters, after, "notFull") = ThreadsAt(Putters, at, "notFull")
    BY <1>1, <1>2, <1>6 DEF ThreadsAt
  <2>3. QED
    BY QueueAssumption, <1>2, <1>3, <1>6, <2>1, <2>2 DEF Awake
<1>7. CASE place = "notFull" /\ t \in Putters /\ len = MaxSize /\ bounded
  <2>1. ThreadsAt(Takers, after, "woken") = ThreadsAt(Takers, at, "woken")
    BY <1>1, <1>2, <1>7 DEF ThreadsAt
  <2>2. ThreadsAt(Takers, after, "notEmpty") = ThreadsAt(Takers, at, "notEmpty")
    BY <1>1, <1>2, <1>7 DEF ThreadsAt
  <2>3. QED
    BY QueueAssumption, <1>2, <1>4, <1>7, <2>1, <2>2 DEF Awake
<1>8. QED
  BY <1>5, <1>6, <1>7

\* QueueFifoPerPutter of the items in the order they leave.
Fifo(all, puts) ==
  /\ \A i \in DOMAIN all : \E p \in Putters : \E n \in 1..puts[p] : all[i] = <<p, n>>
  /\ \A i, j \in DOMAIN all : i < j /\ all[i][1] = all[j][1] => all[i][2] < all[j][2]
  /\ \A p \in Putters : \A n \in 1..puts[p] : \E i \in DOMAIN all : all[i] = <<p, n>>

\* Taking moves an item from the queue to what was got: the order is what it was.
LEMMA PopKeepsAll ==
  ASSUME NEW S, NEW got \in Seq(S), NEW queue \in Seq(S), queue # << >>
  PROVE  Append(got, Head(queue)) \o Tail(queue) = got \o queue
BY SMTT(40)

\* Putting appends to everything put.
LEMMA PushAddsToAll ==
  ASSUME NEW S, NEW got \in Seq(S), NEW queue \in Seq(S), NEW e \in S
  PROVE  got \o Append(queue, e) = Append(got \o queue, e)
OBVIOUS

\* A putter's next item comes after all of its own.
LEMMA FifoAfterPush ==
  ASSUME NEW all \in Seq(Putters \X Nat), NEW puts \in [Putters -> Nat], Fifo(all, puts), NEW p \in Putters
  PROVE  Fifo(Append(all, <<p, puts[p] + 1>>), [puts EXCEPT ![p] = @ + 1])
<1> DEFINE more == Append(all, <<p, puts[p] + 1>>)
           after == [puts EXCEPT ![p] = @ + 1]
<1>1. /\ DOMAIN more = 1..(Len(all) + 1) /\ DOMAIN all = 1..Len(all) /\ Len(all) \in Nat
      /\ more[Len(all) + 1] = <<p, puts[p] + 1>> /\ \A i \in DOMAIN all : more[i] = all[i]
  BY SMTT(40)
<1>2. /\ after \in [Putters -> Nat] /\ after[p] = puts[p] + 1 /\ puts[p] \in Nat
      /\ \A q \in Putters : puts[q] \in Nat /\ 1..puts[q] \subseteq 1..after[q]
      /\ \A q \in Putters : q # p => after[q] = puts[q]
  OBVIOUS
<1> HIDE DEF more, after
<1>3. \A i \in DOMAIN more : \E q \in Putters : \E n \in 1..after[q] : more[i] = <<q, n>>
  <2> SUFFICES ASSUME NEW i \in DOMAIN more
               PROVE  \E q \in Putters : \E n \in 1..after[q] : more[i] = <<q, n>>
    OBVIOUS
  <2>1. CASE i \in DOMAIN all
    <3>1. PICK q \in Putters, n \in Nat : n \in 1..puts[q] /\ all[i] = <<q, n>>
      BY <1>2, <2>1 DEF Fifo
    <3>2. n \in 1..after[q] /\ more[i] = <<q, n>>
      BY <1>1, <1>2, <2>1, <3>1, Zenon
    <3>3. QED
      BY <3>2, Zenon
  <2>2. CASE i = Len(all) + 1
    BY <1>1, <1>2, <2>2, SMTT(40)
  <2>3. QED
    BY <1>1, <2>1, <2>2, SMTT(40)
<1>4. \A i, j \in DOMAIN more : i < j /\ more[i][1] = more[j][1] => more[i][2] < more[j][2]
  <2> SUFFICES ASSUME NEW i \in DOMAIN more, NEW j \in DOMAIN more, i < j, more[i][1] = more[j][1]
               PROVE  more[i][2] < more[j][2]
    OBVIOUS
  <2>1. i \in DOMAIN all /\ more[i] = all[i]
    BY <1>1, SMTT(40)
  <2>2. CASE j \in DOMAIN all
    BY <1>1, <2>1, <2>2 DEF Fifo
  <2>3. CASE j = Len(all) + 1
    <3>1. PICK q \in Putters : \E n \in 1..puts[q] : all[i] = <<q, n>>
      BY <2>1 DEF Fifo
    <3>2. PICK n \in 1..puts[q] : all[i] = <<q, n>>
      BY <3>1
    <3>3. q = p
      BY <1>1, <2>1, <2>3, <3>2
    <3>4. more[i][2] = n /\ more[j][2] = puts[p] + 1
      BY <1>1, <2>1, <2>3, <3>2
    <3>5. n \in 1..puts[p]
      BY <3>2, <3>3
    <3>6. QED
      BY <1>2, <3>4, <3>5
  <2>4. QED
    BY <1>1, <2>2, <2>3
<1>5. \A q \in Putters : \A n \in 1..after[q] : \E i \in DOMAIN more : more[i] = <<q, n>>
  <2> SUFFICES ASSUME NEW q \in Putters, NEW n \in 1..after[q]
               PROVE  \E i \in DOMAIN more : more[i] = <<q, n>>
    OBVIOUS
  <2>1. CASE n \in 1..puts[q]
    <3>1. PICK i \in DOMAIN all : all[i] = <<q, n>>
      BY <2>1 DEF Fifo
    <3>2. i \in DOMAIN more /\ more[i] = all[i]
      BY <1>1
    <3>3. QED
      BY <3>1, <3>2
  <2>2. CASE q = p /\ n = puts[p] + 1
    <3>1. Len(all) + 1 \in DOMAIN more /\ more[Len(all) + 1] = <<q, n>>
      BY <1>1, <2>2
    <3>2. QED
      BY <3>1, Zenon
  <2>3. QED
    BY <1>2, <2>1, <2>2
<1>6. QED
  BY <1>3, <1>4, <1>5, Zenon DEF Fifo, more, after

\* QueueInv in the words of the lemmas above, of a state and of the next one.
QueueTypes == [bounded : BOOLEAN, queue : Seq(Putters \X Nat), puts : [Putters -> Nat],
               got : Seq(Putters \X Nat), at : [QueueThreads -> QueuePlaces]]
QueueParts == /\ bq \in QueueTypes /\ Placed(bq.at, bq.bounded)
              /\ Awake(bq.at, Len(bq.queue)) /\ Fifo(bq.got \o bq.queue, bq.puts)

\* Regrouped, these are QueueInv, now and in the next state.
LEMMA QueueInvParts == (QueueInv <=> QueueParts) /\ (QueueInv' <=> QueueParts')
<1>1. QueueNoSleeperForgotten <=> Awake(bq.at, Len(bq.queue))
  BY DEF QueueNoSleeperForgotten, Awake, QueueAt, ThreadsAt
<1>2. QueueFifoPerPutter <=> Fifo(bq.got \o bq.queue, bq.puts)
  BY DEF QueueFifoPerPutter, Fifo, QueueAll
<1>3. QueueNoSleeperForgotten' <=> Awake(bq'.at, Len(bq'.queue))
  BY DEF QueueNoSleeperForgotten, Awake, QueueAt, ThreadsAt
<1>4. QueueFifoPerPutter' <=> Fifo(bq'.got \o bq'.queue, bq'.puts)
  BY DEF QueueFifoPerPutter, Fifo, QueueAll
<1>5. QueueInv <=> QueueParts
  BY <1>1, <1>2 DEF QueueInv, QueueHandsOver, QueueParts, QueueTypes, Placed, QueuePlaces
<1>6. QueueInv' <=> QueueParts'
  BY <1>3, <1>4 DEF QueueInv, QueueHandsOver, QueueParts, QueueTypes, Placed, QueuePlaces
<1>7. QED
  BY <1>5, <1>6

\* The fields of a queue have the types QueueParts gives them.
LEMMA QueueFields ==
  ASSUME QueueParts
  PROVE  /\ bq.bounded \in BOOLEAN /\ bq.queue \in Seq(Putters \X Nat) /\ bq.got \in Seq(Putters \X Nat)
         /\ bq.puts \in [Putters -> Nat] /\ bq.at \in [QueueThreads -> QueuePlaces]
         /\ Len(bq.queue) \in Nat /\ bq.got \o bq.queue \in Seq(Putters \X Nat)
BY DEF QueueParts, QueueTypes

\* A step that pushes keeps QueueInv.
LEMMA PushStep ==
  ASSUME QueueParts, NEW p \in Putters, QueuePush(p)
  PROVE  QueueParts'
<1> DEFINE item == <<p, bq.puts[p] + 1>>
           puts == [bq.puts EXCEPT ![p] = @ + 1]
<1>1. PICK at \in QueueNotify([bq.at EXCEPT ![p] = "out"], "notEmpty") :
        bq' = [bq EXCEPT !.queue = Append(@, item), !.puts[p] = @ + 1, !.at = at]
  BY Zenon DEF QueuePush, QueueOut
<1>2. Placed(at, bq.bounded) /\ Awake(at, Len(bq.queue) + 1)
  BY <1>1, AwakeAfterPush, QueueFields, Zenon DEF QueueParts
<1>3. item \in Putters \X Nat /\ puts \in [Putters -> Nat]
  BY QueueFields
<1>4. Fifo(Append(bq.got \o bq.queue, item), puts)
  BY <1>3, FifoAfterPush, QueueFields, Zenon DEF QueueParts
<1>5. bq' = [bq EXCEPT !.queue = Append(@, item), !.puts = puts, !.at = at]
  BY <1>1
<1> HIDE DEF item, puts
<1>6. /\ bq'.queue = Append(bq.queue, item) /\ bq'.puts = puts /\ bq'.at = at
      /\ bq'.got = bq.got /\ bq'.bounded = bq.bounded
  BY <1>5 DEF QueueParts, QueueTypes
<1>7. bq' \in QueueTypes
  <2>1. Append(bq.queue, item) \in Seq(Putters \X Nat)
    BY <1>3, QueueFields
  <2>2. at \in [QueueThreads -> QueuePlaces] /\ bq \in QueueTypes
    BY <1>2 DEF Placed, QueueParts
  <2>3. QED
    BY <1>3, <1>5, <2>1, <2>2, Zenon DEF QueueTypes
<1>8. Len(bq'.queue) = Len(bq.queue) + 1
  BY <1>3, <1>6, QueueFields
<1>9. bq'.got \o bq'.queue = Append(bq.got \o bq.queue, item)
  <2>1. bq.got \o Append(bq.queue, item) = Append(bq.got \o bq.queue, item)
    <3>1. /\ bq.got \in Seq(Putters \X Nat) /\ bq.queue \in Seq(Putters \X Nat) /\ item \in Putters \X Nat
      BY <1>3, QueueFields
    <3>2. \A got, queue \in Seq(Putters \X Nat) : got \o Append(queue, item) = Append(got \o queue, item)
      BY <3>1, PushAddsToAll, SMTT(40)
    <3>3. QED
      BY <3>1, <3>2, Zenon
  <2>2. QED
    BY <1>6, <2>1
<1>10. QED
  BY <1>2, <1>4, <1>6, <1>7, <1>8, <1>9, SMTT(40) DEF QueueParts

\* A step that pops keeps QueueInv, and so does one that only moves a thread.
LEMMA PopStep ==
  ASSUME QueueParts, NEW c \in Takers, NEW ats,
         \A at \in ats : \/ ~bq.bounded /\ at = [bq.at EXCEPT ![c] = "out"]
                         \/ at \in QueueNotify([bq.at EXCEPT ![c] = "out"], "notFull"),
         QueuePop(c, ats)
  PROVE  QueueParts'
<1>1. PICK at \in ats : bq' = [bq EXCEPT !.queue = Tail(@), !.got = Append(@, Head(bq.queue)), !.at = at]
  BY Zenon DEF QueuePop
<1>2. /\ bq.queue # << >> /\ Len(bq.queue) \in Nat \ {0} /\ Head(bq.queue) \in Putters \X Nat
      /\ Tail(bq.queue) \in Seq(Putters \X Nat) /\ Len(Tail(bq.queue)) = Len(bq.queue) - 1
      /\ Append(bq.got, Head(bq.queue)) \in Seq(Putters \X Nat)
  BY QueueFields DEF QueuePop
<1>3. Placed(at, bq.bounded) /\ Awake(at, Len(bq.queue) - 1)
  BY <1>1, <1>2, AwakeAfterPop, QueueFields, Zenon DEF QueueParts
<1>4. /\ bq'.queue = Tail(bq.queue) /\ bq'.puts = bq.puts /\ bq'.at = at
      /\ bq'.got = Append(bq.got, Head(bq.queue)) /\ bq'.bounded = bq.bounded
  BY <1>1 DEF QueueParts, QueueTypes
<1>5. bq' \in QueueTypes
  <2>1. at \in [QueueThreads -> QueuePlaces] /\ bq \in QueueTypes
    BY <1>3 DEF Placed, QueueParts
  <2>2. QED
    BY <1>1, <1>2, <2>1, Zenon DEF QueueTypes
<1>6. bq'.got \o bq'.queue = bq.got \o bq.queue
  <2>1. Append(bq.got, Head(bq.queue)) \o Tail(bq.queue) = bq.got \o bq.queue
    BY <1>2, PopKeepsAll, QueueFields, Zenon
  <2>2. QED
    BY <1>4, <2>1, Zenon
<1>7. QED
  BY <1>2, <1>3, <1>4, <1>5, <1>6, Zenon DEF QueueParts

\* A thread that goes to sleep for a good reason, or wakes, changes nothing else.
LEMMA MoveStep ==
  ASSUME QueueParts, NEW t \in QueueThreads, NEW place, bq' = [bq EXCEPT !.at[t] = place],
         \/ place = "notEmpty" /\ t \in Takers /\ bq.queue = << >>
         \/ place = "notFull" /\ t \in Putters /\ Len(bq.queue) = MaxSize /\ bq.bounded
         \/ place = "woken"
  PROVE  QueueParts'
<1> DEFINE at == [bq.at EXCEPT ![t] = place]
<1>1. /\ bq.queue = << >> => Len(bq.queue) = 0
      /\ Len(bq.queue) \in Nat /\ bq.bounded \in BOOLEAN
  BY QueueFields
<1>2. Placed(at, bq.bounded) /\ Awake(at, Len(bq.queue))
  BY <1>1, AwakeAfterMove, Zenon DEF QueueParts
<1>3. bq' = [bq EXCEPT !.at = at]
  OBVIOUS
<1> HIDE DEF at
<1>4. /\ bq'.queue = bq.queue /\ bq'.puts = bq.puts /\ bq'.at = at /\ bq'.got = bq.got /\ bq'.bounded = bq.bounded
  BY <1>3 DEF QueueParts, QueueTypes
<1>5. bq' \in QueueTypes
  BY <1>2, <1>3, Zenon DEF Placed, QueueParts, QueueTypes
<1>6. QED
  BY <1>2, <1>4, <1>5 DEF QueueParts

\* Every step of the putters and takers keeps QueueInv.
LEMMA QueueStep ==
  ASSUME QueueParts, QueueNext
  PROVE  QueueParts'
<1>1. ASSUME NEW p \in Putters, QueuePut(p)  PROVE QueueParts'
  BY <1>1, PushStep DEF QueuePut
<1>2. ASSUME NEW p \in Putters, QueueBoundedPut(p)  PROVE QueueParts'
  <2>1. CASE QueuePush(p)
    BY <2>1, PushStep
  <2>2. CASE QueueFull /\ QueueSleep(p, "notFull")
    <3>1. p \in QueueThreads /\ bq.bounded /\ Len(bq.queue) = MaxSize /\ bq' = [bq EXCEPT !.at[p] = "notFull"]
      BY <1>2, <2>2 DEF QueueThreads, QueueBoundedPut, QueueFull, QueueSleep
    <3>2. QED
      BY <3>1, MoveStep
  <2>3. QED
    BY <1>2, <2>1, <2>2 DEF QueueBoundedPut
<1>3. ASSUME NEW c \in Takers, bq.queue = << >> /\ QueueSleep(c, "notEmpty")  PROVE QueueParts'
  <2>1. c \in QueueThreads /\ bq' = [bq EXCEPT !.at[c] = "notEmpty"]
    BY <1>3 DEF QueueThreads, QueueSleep
  <2>2. QED
    BY <1>3, <2>1, MoveStep
<1>4. ASSUME NEW c \in Takers, QueueTake(c)  PROVE QueueParts'
  <2>1. CASE QueuePop(c, {QueueOut(c)})
    <3>1. \A at \in {QueueOut(c)} : ~bq.bounded /\ at = [bq.at EXCEPT ![c] = "out"]
      BY <1>4 DEF QueueTake, QueueOut
    <3>2. QED
      BY <2>1, <3>1, PopStep
  <2>2. QED
    BY <1>3, <1>4, <2>1 DEF QueueTake
<1>5. ASSUME NEW c \in Takers, QueueBoundedTake(c)  PROVE QueueParts'
  <2>1. CASE QueuePop(c, QueueNotify(QueueOut(c), "notFull"))
    <3>1. \A at \in QueueNotify(QueueOut(c), "notFull") : at \in QueueNotify([bq.at EXCEPT ![c] = "out"], "notFull")
      BY DEF QueueOut
    <3>2. QED
      BY <2>1, <3>1, PopStep
  <2>2. QED
    BY <1>3, <1>5, <2>1 DEF QueueBoundedTake
<1>6. ASSUME NEW t \in QueueThreads, QueueSpurious(t)  PROVE QueueParts'
  BY <1>6, MoveStep DEF QueueSpurious
<1>7. QED
  BY <1>1, <1>2, <1>4, <1>5, <1>6 DEF QueueNext

(* Whatever the threads and the capacity: items leave in the order each putter *)
(* put them, each once, and no putter or taker sleeps on its condition while   *)
(* there is room or an item that no woken thread is on the way to: one notify  *)
(* per put and per take is enough.                                             *)
THEOREM QueueAlwaysHandsOver == QueueSpec => []QueueHandsOver
<1>1. QueueInit => QueueInv
  <2> SUFFICES ASSUME QueueInit  PROVE QueueParts
    BY QueueInvParts
  <2>1. /\ bq.queue = << >> /\ bq.got = << >> /\ bq.puts = [p \in Putters |-> 0]
        /\ bq.at = [t \in QueueThreads |-> "out"]
        /\ bq = [bounded |-> bq.bounded, queue |-> bq.queue, at |-> bq.at, puts |-> bq.puts, got |-> bq.got]
    BY DEF QueueInit
  <2>a. bq.bounded \in BOOLEAN
    BY DEF QueueInit
  <2>b. bq.at \in [QueueThreads -> QueuePlaces] /\ bq.puts \in [Putters -> Nat] /\ << >> \in Seq(Putters \X Nat)
    BY <2>1 DEF QueuePlaces
  <2>c. bq \in QueueTypes
    BY <2>1, <2>a, <2>b, Zenon DEF QueueTypes
  <2>2. Placed(bq.at, bq.bounded)
    BY <2>1 DEF Placed, QueueThreads, QueuePlaces
  <2>3. Awake(bq.at, Len(bq.queue))
    BY <2>1 DEF Awake, ThreadsAt, QueueThreads
  <2>4. Fifo(bq.got \o bq.queue, bq.puts)
    <3>1. bq.got \o bq.queue = << >>
      BY <2>1
    <3>2. QED
      BY <2>1, <3>1 DEF Fifo
  <2>5. QED
    BY <2>c, <2>2, <2>3, <2>4 DEF QueueParts
<1>2. QueueInv /\ [QueueNext]_bq => QueueInv'
  <2>1. QueueInv /\ QueueNext => QueueInv'
    BY QueueStep, QueueInvParts
  <2>2. QueueInv /\ bq' = bq => QueueInv'
    <3>1. QueueParts /\ bq' = bq => QueueParts'
      BY DEF QueueParts
    <3>2. QED
      BY <3>1, QueueInvParts
  <2>3. QED
    BY <2>1, <2>2
<1>3. QueueInv => QueueHandsOver
  BY DEF QueueInv
<1>4. QED
  BY <1>1, <1>2, <1>3, PTL DEF QueueSpec

(***************************************************************************)
(* ThreadPool.                                                             *)
(***************************************************************************)

\* PoolNoSleeperForgotten of threads at places, a number of tasks and the pool's settings.
PoolAwake(at, len, running, max) ==
  /\ running /\ ThreadsAt(PoolThreads, at, "notEmpty") # {} =>
       Cardinality(ThreadsAt(PoolThreads, at, "take")) >= len
  /\ ThreadsAt(PoolThreads, at, "notFull") # {} =>
       Cardinality(ThreadsAt(PoolThreads, at, "run")) + len >= max

PoolPlaced(at) ==
  /\ at \in [PoolThreads -> WorkerPlaces \cup ClientPlaces]
  /\ \A w \in PoolWorkers : at[w] \in WorkerPlaces
  /\ \A c \in PoolClients : at[c] \in ClientPlaces

\* The places a thread of the pool may be at.
PoolFits(t, b) == (t \in PoolWorkers => b \in WorkerPlaces) /\ (t \in PoolClients => b \in ClientPlaces)

\* One thread of the pool goes to another place.
PoolGoes(at, t, b, after) == after = [at EXCEPT ![t] = b]

\* There are finitely many threads, so a number of them at each place.
LEMMA PoolCount ==
  ASSUME NEW at, NEW place
  PROVE  IsFiniteSet(PoolThreads) /\ Cardinality(ThreadsAt(PoolThreads, at, place)) \in Nat
<1>1. IsFiniteSet(PoolThreads)
  BY PoolAssumption, FS_Union, Zenon DEF PoolThreads
<1>2. QED
  BY <1>1, CountAt

\* notify wakes nobody, when nobody sleeps, or one thread that does.
LEMMA PoolNotified ==
  ASSUME NEW at, NEW cond, NEW back, NEW after \in PoolNotify(at, cond, back)
  PROVE  \/ after = at /\ ThreadsAt(PoolThreads, at, cond) = {}
         \/ \E t \in PoolThreads : at[t] = cond /\ PoolGoes(at, t, back, after)
BY DEF PoolGoes, PoolNotify, PoolAt, ThreadsAt

\* What becomes of thread t when u goes to b and notify then wakes perhaps another one.
PoolEffect(t, u, b, cond, back, at, after) ==
  \/ t # u /\ after[t] = at[t]
  \/ t = u /\ after[t] = b
  \/ t # u /\ at[t] = cond /\ after[t] = back

\* notify wakes at most one thread, and only one that sleeps on its condition.
LEMMA WakeOne ==
  ASSUME NEW at, NEW left, DOMAIN left = PoolThreads, NEW u \in PoolThreads, NEW b, left[u] = b,
         \A t \in PoolThreads \ {u} : left[t] = at[t],
         NEW cond, b # cond, NEW back, NEW after, after = left \/ after \in PoolNotify(left, cond, back)
  PROVE  \A t \in PoolThreads : PoolEffect(t, u, b, cond, back, at, after)
<1> SUFFICES ASSUME NEW t \in PoolThreads
             PROVE  PoolEffect(t, u, b, cond, back, at, after)
  OBVIOUS
<1>1. CASE after = left
  BY <1>1 DEF PoolEffect
<1>2. ASSUME NEW o \in PoolThreads, left[o] = cond, PoolGoes(left, o, back, after)
      PROVE  PoolEffect(t, u, b, cond, back, at, after)
  <2>1. after[o] = back /\ \A a \in PoolThreads \ {o} : after[a] = left[a]
    BY <1>2 DEF PoolGoes
  <2>2. o # u
    BY <1>2
  <2>3. CASE t = o
    BY <1>2, <2>1, <2>2, <2>3 DEF PoolEffect
  <2>4. CASE t # o
    BY <2>1, <2>4 DEF PoolEffect
  <2>5. QED
    BY <2>3, <2>4
<1>3. QED
  BY <1>1, <1>2, PoolNotified

\* What moving one thread changes, for the two conditions and the two ways back.
LEMMA PoolMove ==
  ASSUME NEW at, PoolPlaced(at), NEW t \in PoolThreads, NEW b, PoolFits(t, b),
         NEW after, PoolGoes(at, t, b, after)
  PROVE  /\ PoolPlaced(after) /\ after[t] = b /\ \A o \in PoolThreads \ {t} : after[o] = at[o]
         /\ b # "notEmpty" => ThreadsAt(PoolThreads, after, "notEmpty") \subseteq ThreadsAt(PoolThreads, at, "notEmpty")
         /\ b # "notFull" => ThreadsAt(PoolThreads, after, "notFull") \subseteq ThreadsAt(PoolThreads, at, "notFull")
<1>1. t \in PoolWorkers \/ t \in PoolClients
  BY DEF PoolThreads
<1>2. PoolPlaced(after) /\ after[t] = b /\ \A o \in PoolThreads \ {t} : after[o] = at[o]
  BY <1>1, PoolAssumption DEF PoolPlaced, PoolThreads, PoolFits, PoolGoes
<1>3. QED
  BY <1>2 DEF ThreadsAt

\* A thread moves: it leaves "take" or "run", where it is counted on, only when nothing
\* or enough is queued, and goes to sleep only then.
LEMMA PoolAwakeAfterMove ==
  ASSUME NEW at, PoolPlaced(at), NEW len \in Nat, NEW max \in Nat, NEW running \in BOOLEAN,
         PoolAwake(at, len, running, max),
         NEW t \in PoolThreads, NEW b, PoolFits(t, b),
         len = 0 \/ (at[t] # "take" /\ b # "notEmpty"),
         len >= max \/ (at[t] # "run" /\ b # "notFull"),
         NEW after, PoolGoes(at, t, b, after)
  PROVE  PoolPlaced(after) /\ PoolAwake(after, len, running, max)
<1>1. /\ PoolPlaced(after) /\ after[t] = b /\ \A o \in PoolThreads \ {t} : after[o] = at[o]
      /\ b # "notEmpty" => ThreadsAt(PoolThreads, after, "notEmpty") \subseteq ThreadsAt(PoolThreads, at, "notEmpty")
      /\ b # "notFull" => ThreadsAt(PoolThreads, after, "notFull") \subseteq ThreadsAt(PoolThreads, at, "notFull")
  BY PoolMove
<1>2. /\ Cardinality(ThreadsAt(PoolThreads, after, "take")) \in Nat
      /\ Cardinality(ThreadsAt(PoolThreads, at, "take")) \in Nat
      /\ Cardinality(ThreadsAt(PoolThreads, after, "run")) \in Nat
      /\ Cardinality(ThreadsAt(PoolThreads, at, "run")) \in Nat
      /\ IsFiniteSet(PoolThreads)
  BY PoolCount
<1>3. at[t] # "take" => Cardinality(ThreadsAt(PoolThreads, after, "take")) >= Cardinality(ThreadsAt(PoolThreads, at, "take"))
  BY <1>1, <1>2, CountMove
<1>4. at[t] # "run" => Cardinality(ThreadsAt(PoolThreads, after, "run")) >= Cardinality(ThreadsAt(PoolThreads, at, "run"))
  BY <1>1, <1>2, CountMove
<1>5. running /\ ThreadsAt(PoolThreads, after, "notEmpty") # {} =>
        Cardinality(ThreadsAt(PoolThreads, after, "take")) >= len
  <2> SUFFICES ASSUME running, ThreadsAt(PoolThreads, after, "notEmpty") # {}
               PROVE  Cardinality(ThreadsAt(PoolThreads, after, "take")) >= len
    OBVIOUS
  <2>1. CASE len = 0
    BY <1>2, <2>1
  <2>2. CASE at[t] # "take" /\ b # "notEmpty"
    <3>1. ThreadsAt(PoolThreads, at, "notEmpty") # {}
      BY <1>1, <2>2
    <3>2. Cardinality(ThreadsAt(PoolThreads, at, "take")) >= len
      BY <3>1 DEF PoolAwake
    <3>3. QED
      BY <1>2, <1>3, <2>2, <3>2, SMTT(40)
  <2>3. QED
    BY <2>1, <2>2
<1>6. ThreadsAt(PoolThreads, after, "notFull") # {} =>
        Cardinality(ThreadsAt(PoolThreads, after, "run")) + len >= max
  <2> SUFFICES ASSUME ThreadsAt(PoolThreads, after, "notFull") # {}
               PROVE  Cardinality(ThreadsAt(PoolThreads, after, "run")) + len >= max
    OBVIOUS
  <2>1. CASE len >= max
    BY <1>2, <2>1
  <2>2. CASE at[t] # "run" /\ b # "notFull"
    <3>1. ThreadsAt(PoolThreads, at, "notFull") # {}
      BY <1>1, <2>2
    <3>2. Cardinality(ThreadsAt(PoolThreads, at, "run")) + len >= max
      BY <3>1 DEF PoolAwake
    <3>3. QED
      BY <1>2, <1>4, <2>2, <3>2, SMTT(40)
  <2>3. QED
    BY <2>1, <2>2
<1>7. QED
  BY <1>1, <1>5, <1>6 DEF PoolAwake

\* A client leaves with one task more, and a worker is woken for it.
LEMMA PoolAwakeAfterPush ==
  ASSUME NEW at, PoolPlaced(at), NEW len \in Nat, NEW max \in Nat, NEW running \in BOOLEAN,
         PoolAwake(at, len, running, max), NEW c \in PoolClients, NEW left, PoolGoes(at, c, "out", left),
         NEW after \in PoolNotify(left, "notEmpty", "take")
  PROVE  PoolPlaced(after) /\ PoolAwake(after, len + 1, running, max)
<1>1. c \in PoolThreads /\ PoolFits(c, "out")
  BY PoolAssumption DEF PoolThreads, ClientPlaces, PoolFits
<1>3. /\ PoolPlaced(left) /\ left[c] = "out" /\ \A o \in PoolThreads \ {c} : left[o] = at[o]
      /\ ThreadsAt(PoolThreads, left, "notEmpty") \subseteq ThreadsAt(PoolThreads, at, "notEmpty")
      /\ ThreadsAt(PoolThreads, left, "notFull") \subseteq ThreadsAt(PoolThreads, at, "notFull")
  BY <1>1, PoolMove
<1>4. /\ Cardinality(ThreadsAt(PoolThreads, left, "take")) \in Nat
      /\ Cardinality(ThreadsAt(PoolThreads, at, "take")) \in Nat
      /\ Cardinality(ThreadsAt(PoolThreads, left, "run")) \in Nat
      /\ Cardinality(ThreadsAt(PoolThreads, at, "run")) \in Nat
      /\ Cardinality(ThreadsAt(PoolThreads, after, "run")) \in Nat
      /\ IsFiniteSet(PoolThreads)
  BY PoolCount
<1>5. at[c] # "take"
  BY DEF PoolPlaced, ClientPlaces
<1>6. Cardinality(ThreadsAt(PoolThreads, left, "take")) >= Cardinality(ThreadsAt(PoolThreads, at, "take"))
  BY <1>3, <1>4, <1>5, CountMove, Zenon
<1>7. Cardinality(ThreadsAt(PoolThreads, left, "run")) >= Cardinality(ThreadsAt(PoolThreads, at, "run")) - 1
  BY <1>3, <1>4, CountMove, Zenon
<1>8. CASE after = left /\ ThreadsAt(PoolThreads, left, "notEmpty") = {}
  BY <1>3, <1>4, <1>7, <1>8, SMTT(40) DEF PoolAwake
<1>9. ASSUME NEW t \in PoolThreads, left[t] = "notEmpty", PoolGoes(left, t, "take", after)
      PROVE  PoolPlaced(after) /\ PoolAwake(after, len + 1, running, max)
  <2>1. PoolFits(t, "take")
    BY <1>3, <1>9, SMTT(40) DEF PoolPlaced, ClientPlaces, WorkerPlaces, PoolFits
  <2>2. /\ PoolPlaced(after) /\ after[t] = "take" /\ \A o \in PoolThreads \ {t} : after[o] = left[o]
        /\ ThreadsAt(PoolThreads, after, "notEmpty") \subseteq ThreadsAt(PoolThreads, left, "notEmpty")
        /\ ThreadsAt(PoolThreads, after, "notFull") \subseteq ThreadsAt(PoolThreads, left, "notFull")
    BY <1>3, <1>9, <2>1, PoolMove
  <2>3. left[t] # "take" /\ left[t] # "run"
    BY <1>9
  <2>4. Cardinality(ThreadsAt(PoolThreads, after, "take")) = Cardinality(ThreadsAt(PoolThreads, left, "take")) + 1
    BY <1>4, <2>2, <2>3, OneMore, SMTT(40)
  <2>5. Cardinality(ThreadsAt(PoolThreads, after, "run")) >= Cardinality(ThreadsAt(PoolThreads, left, "run"))
    BY <1>4, <2>2, <2>3, CountMove, Zenon
  <2>6. QED
    BY <1>3, <1>4, <1>6, <1>7, <2>2, <2>4, <2>5, SMTT(40) DEF PoolAwake
<1>10. QED
  BY <1>8, <1>9, PoolNotified

\* A worker leaves with one task less; of a bounded pool, a client is woken for the slot.
LEMMA PoolAwakeAfterPop ==
  ASSUME NEW at, PoolPlaced(at), NEW len \in Nat \ {0}, NEW max \in Nat, NEW running \in BOOLEAN,
         PoolAwake(at, len, running, max), NEW w \in PoolWorkers, NEW left, PoolGoes(at, w, "task", left),
         at[w] = "take",
         NEW after, (max = 0 /\ after = left) \/ after \in PoolNotify(left, "notFull", "run")
  PROVE  PoolPlaced(after) /\ PoolAwake(after, len - 1, running, max)
<1>1. w \in PoolThreads /\ PoolFits(w, "task")
  BY PoolAssumption DEF PoolThreads, WorkerPlaces, PoolFits
<1>3. /\ PoolPlaced(left) /\ left[w] = "task" /\ \A o \in PoolThreads \ {w} : left[o] = at[o]
      /\ ThreadsAt(PoolThreads, left, "notEmpty") \subseteq ThreadsAt(PoolThreads, at, "notEmpty")
      /\ ThreadsAt(PoolThreads, left, "notFull") \subseteq ThreadsAt(PoolThreads, at, "notFull")
  BY <1>1, PoolMove
<1>4. /\ Cardinality(ThreadsAt(PoolThreads, left, "take")) \in Nat
      /\ Cardinality(ThreadsAt(PoolThreads, at, "take")) \in Nat
      /\ Cardinality(ThreadsAt(PoolThreads, left, "run")) \in Nat
      /\ Cardinality(ThreadsAt(PoolThreads, at, "run")) \in Nat
      /\ Cardinality(ThreadsAt(PoolThreads, after, "take")) \in Nat
      /\ IsFiniteSet(PoolThreads)
  BY PoolCount
<1>5. at[w] # "run"
  OBVIOUS
<1>6. Cardinality(ThreadsAt(PoolThreads, left, "run")) >= Cardinality(ThreadsAt(PoolThreads, at, "run"))
  BY <1>3, <1>4, <1>5, CountMove, Zenon
<1>7. Cardinality(ThreadsAt(PoolThreads, left, "take")) >= Cardinality(ThreadsAt(PoolThreads, at, "take")) - 1
  BY <1>3, <1>4, CountMove, SMTT(40)
<1>8. CASE after = left /\ (max = 0 \/ ThreadsAt(PoolThreads, left, "notFull") = {})
  <2>1. ThreadsAt(PoolThreads, left, "notFull") # {} =>
          Cardinality(ThreadsAt(PoolThreads, left, "run")) + (len - 1) >= max
    BY <1>4, <1>8, SMTT(40)
  <2>2. QED
    BY <1>3, <1>4, <1>7, <1>8, <2>1, SMTT(40) DEF PoolAwake
<1>9. ASSUME NEW t \in PoolThreads, left[t] = "notFull", PoolGoes(left, t, "run", after)
      PROVE  PoolPlaced(after) /\ PoolAwake(after, len - 1, running, max)
  <2>1. PoolFits(t, "run")
    BY <1>3, <1>9 DEF PoolPlaced, ClientPlaces, WorkerPlaces, PoolFits
  <2>2. /\ PoolPlaced(after) /\ after[t] = "run" /\ \A o \in PoolThreads \ {t} : after[o] = left[o]
        /\ ThreadsAt(PoolThreads, after, "notEmpty") \subseteq ThreadsAt(PoolThreads, left, "notEmpty")
        /\ ThreadsAt(PoolThreads, after, "notFull") \subseteq ThreadsAt(PoolThreads, left, "notFull")
    BY <1>3, <1>9, <2>1, PoolMove
  <2>3. left[t] # "take" /\ left[t] # "run"
    BY <1>9
  <2>4. Cardinality(ThreadsAt(PoolThreads, after, "run")) = Cardinality(ThreadsAt(PoolThreads, left, "run")) + 1
    BY <1>4, <2>2, <2>3, OneMore, SMTT(40)
  <2>5. Cardinality(ThreadsAt(PoolThreads, after, "take")) >= Cardinality(ThreadsAt(PoolThreads, left, "take"))
    BY <1>4, <2>2, <2>3, CountMove
  <2>6. QED
    BY <1>3, <1>4, <1>6, <1>7, <2>2, <2>4, <2>5, SMTT(40) DEF PoolAwake
<1>10. QED
  BY <1>8, <1>9, PoolNotified

\* stop() wakes every worker; the clients stay where they are.
LEMMA PoolAwakeAfterStop ==
  ASSUME NEW at, PoolPlaced(at), NEW len \in Nat, NEW max \in Nat, NEW running,
         PoolAwake(at, len, running, max)
  PROVE  LET after == PoolNotifyAll(at, "notEmpty", "take")
         IN  /\ PoolPlaced(after) /\ PoolAwake(after, len, FALSE, max)
             /\ \A t \in PoolThreads : /\ after[t] # "notEmpty"
                                       /\ after[t] = at[t] \/ (at[t] = "notEmpty" /\ after[t] = "take")
<1> DEFINE after == PoolNotifyAll(at, "notEmpty", "take")
<1>1. \A t \in PoolThreads : /\ after[t] # "notEmpty"
                             /\ after[t] = at[t] \/ (at[t] = "notEmpty" /\ after[t] = "take")
  BY DEF PoolNotifyAll
<1>2. after \in [PoolThreads -> WorkerPlaces \cup ClientPlaces]
  BY DEF PoolNotifyAll, PoolPlaced, WorkerPlaces
<1> HIDE DEF after
<1>3. PoolPlaced(after)
  BY <1>1, <1>2 DEF PoolPlaced, PoolThreads, WorkerPlaces, ClientPlaces
<1>4. ThreadsAt(PoolThreads, after, "notFull") = ThreadsAt(PoolThreads, at, "notFull")
  BY <1>1 DEF ThreadsAt
<1>5. ThreadsAt(PoolThreads, after, "run") = ThreadsAt(PoolThreads, at, "run")
  BY <1>1 DEF ThreadsAt
<1>6. PoolAwake(after, len, FALSE, max)
  BY <1>4, <1>5 DEF PoolAwake
<1>7. QED
  BY <1>1, <1>3, <1>6, Zenon DEF after

\* How often an item is in a sequence.
Occurs(s, k) == Cardinality({i \in DOMAIN s : s[i] = k})

\* Appending an item counts it once more, and nothing else.
LEMMA OccursAppend ==
  ASSUME NEW S, NEW s \in Seq(S), NEW e \in S, NEW k
  PROVE  /\ Occurs(s, k) \in Nat
         /\ e = k => Occurs(Append(s, e), k) = Occurs(s, k) + 1
         /\ e # k => Occurs(Append(s, e), k) = Occurs(s, k)
<1> DEFINE before == {i \in DOMAIN s : s[i] = k}
           t == Append(s, e)
           after == {i \in DOMAIN t : t[i] = k}
<1>1. /\ DOMAIN s = 1..Len(s) /\ Len(s) \in Nat /\ DOMAIN t = 1..(Len(s) + 1)
      /\ t[Len(s) + 1] = e /\ \A i \in 1..Len(s) : t[i] = s[i]
  OBVIOUS
<1>2. IsFiniteSet(before) /\ Cardinality(before) \in Nat
  <2>1. IsFiniteSet(1..Len(s))
    BY <1>1, FS_Interval
  <2>2. before \subseteq 1..Len(s)
    BY <1>1
  <2>3. QED
    BY <2>1, <2>2, FS_Subset, FS_CardinalityType
<1>3. Len(s) + 1 \notin before
  BY <1>1
<1> HIDE DEF t
<1>4. e = k => after = before \cup {Len(s) + 1}
  BY <1>1
<1>5. e # k => after = before
  BY <1>1
<1> HIDE DEF before, after
<1>6. Cardinality(before \cup {Len(s) + 1}) = Cardinality(before) + 1
  BY <1>2, <1>3, FS_AddElement, Zenon
<1>7. QED
  BY <1>2, <1>4, <1>5, <1>6, Zenon DEF Occurs, before, after, t

\* Taking the first item counts it once less, and nothing else.
LEMMA OccursTail ==
  ASSUME NEW S, NEW s \in Seq(S), s # << >>, NEW k
  PROVE  /\ Occurs(Tail(s), k) \in Nat
         /\ Head(s) = k => Occurs(s, k) = Occurs(Tail(s), k) + 1
         /\ Head(s) # k => Occurs(s, k) = Occurs(Tail(s), k)
<1> DEFINE t == Tail(s)
           after == {i \in DOMAIN t : t[i] = k}
           before == {i \in DOMAIN s : s[i] = k}
           f == [i \in after |-> i + 1]
<1>1. /\ DOMAIN s = 1..Len(s) /\ Len(s) \in Nat \ {0} /\ DOMAIN t = 1..(Len(s) - 1)
      /\ Head(s) = s[1] /\ \A i \in 1..(Len(s) - 1) : t[i] = s[i + 1]
  OBVIOUS
<1> HIDE DEF t
<1>2. IsFiniteSet(before) /\ IsFiniteSet(after) /\ Cardinality(before) \in Nat /\ Cardinality(after) \in Nat
  <2>1. IsFiniteSet(1..Len(s)) /\ IsFiniteSet(1..(Len(s) - 1))
    BY <1>1, FS_Interval
  <2>2. before \subseteq 1..Len(s) /\ after \subseteq 1..(Len(s) - 1)
    BY <1>1
  <2>3. QED
    BY <2>1, <2>2, FS_Subset, FS_CardinalityType
<1>3. f \in Bijection(after, before \ {1})
  <2>1. f \in [after -> before \ {1}]
    BY <1>1
  <2>2. \A a, b \in after : f[a] = f[b] => a = b
    BY <1>1
  <2>3. \A j \in before \ {1} : \E i \in after : f[i] = j
    <3> SUFFICES ASSUME NEW j \in before \ {1}  PROVE \E i \in after : f[i] = j
      OBVIOUS
    <3>1. j - 1 \in after /\ f[j - 1] = j
      BY <1>1
    <3>2. QED
      BY <3>1
  <2>4. QED
    BY <2>1, <2>2, <2>3 DEF Bijection, Injection, Surjection, IsInjective
<1>4. Cardinality(before \ {1}) = Cardinality(after)
  BY <1>2, <1>3, FS_Bijection DEF ExistsBijection
<1>5. (Head(s) = k) <=> 1 \in before
  BY <1>1
<1> HIDE DEF before, after, f
<1>6. Cardinality(before \ {1}) = IF 1 \in before THEN Cardinality(before) - 1 ELSE Cardinality(before)
  BY <1>2, FS_RemoveElement, Zenon
<1>7. /\ Head(s) = k => Cardinality(before) = Cardinality(after) + 1
      /\ Head(s) # k => Cardinality(before) = Cardinality(after)
  BY <1>2, <1>4, <1>5, <1>6, SMTT(40)
<1>8. QED
  BY <1>2, <1>7, Zenon DEF Occurs, before, after, t

\* PoolEachTaskOnce of a queue, the workers' tasks, the tasks that ran and the calls.
PoolPlacesOf(k, queue, task, ran) == Occurs(queue, k) + Cardinality(ThreadsAt(PoolWorkers, task, k)) + Occurs(ran, k)
PoolOnce(queue, task, ran, runs) ==
  \A c \in PoolClients, n \in 1..MaxRuns :
    PoolPlacesOf(<<c, n>>, queue, task, ran) = IF n <= runs[c] THEN 1 ELSE 0

\* A task more in the queue, or among those that ran, is one place more for that task.
LEMMA OnePlaceMore ==
  ASSUME NEW queue \in Seq(PoolTasks), NEW task, NEW ran \in Seq(PoolTasks), NEW item \in PoolTasks, NEW k
  PROVE  /\ PoolPlacesOf(k, Append(queue, item), task, ran) =
              PoolPlacesOf(k, queue, task, ran) + (IF item = k THEN 1 ELSE 0)
         /\ PoolPlacesOf(k, queue, task, Append(ran, item)) =
              PoolPlacesOf(k, queue, task, ran) + (IF item = k THEN 1 ELSE 0)
         /\ PoolPlacesOf(k, queue, task, ran) \in Nat
<1>1. Cardinality(ThreadsAt(PoolWorkers, task, k)) \in Nat
  BY PoolAssumption, CountAt
<1>2. /\ Occurs(queue, k) \in Nat
      /\ Occurs(Append(queue, item), k) = Occurs(queue, k) + (IF item = k THEN 1 ELSE 0)
  BY OccursAppend
<1>3. /\ Occurs(ran, k) \in Nat
      /\ Occurs(Append(ran, item), k) = Occurs(ran, k) + (IF item = k THEN 1 ELSE 0)
  BY OccursAppend
<1>4. QED
  BY <1>1, <1>2, <1>3, SMTT(40) DEF PoolPlacesOf

\* A task more, queued or run: the next one of its client, which was nowhere.
LEMMA OnceAfterCall ==
  ASSUME NEW queue \in Seq(PoolTasks), NEW task, NEW ran \in Seq(PoolTasks), NEW runs \in [PoolClients -> Nat],
         PoolOnce(queue, task, ran, runs), NEW c \in PoolClients, NEW item, item = <<c, runs[c] + 1>>,
         
         NEW calls, calls[c] = runs[c] + 1, \A d \in PoolClients \ {c} : calls[d] = runs[d]
  PROVE  PoolOnce(Append(queue, item), task, ran, calls) /\ PoolOnce(queue, task, Append(ran, item), calls)
<1>1. item \in PoolTasks
  BY DEF PoolTasks
<1>3. ASSUME NEW d \in PoolClients, NEW n \in 1..MaxRuns
      PROVE  /\ PoolPlacesOf(<<d, n>>, Append(queue, item), task, ran) = IF n <= calls[d] THEN 1 ELSE 0
             /\ PoolPlacesOf(<<d, n>>, queue, task, Append(ran, item)) = IF n <= calls[d] THEN 1 ELSE 0
  <2>1. PoolPlacesOf(<<d, n>>, queue, task, ran) = IF n <= runs[d] THEN 1 ELSE 0
    BY DEF PoolOnce
  <2>2. runs[d] \in Nat /\ runs[c] \in Nat
    OBVIOUS
  <2>3. CASE item = <<d, n>>
    <3>1. d = c /\ n = runs[c] + 1 /\ calls[d] = n
      BY <2>3
    <3>2. PoolPlacesOf(<<d, n>>, queue, task, ran) = 0
      BY <2>1, <2>2, <3>1
    <3>3. /\ PoolPlacesOf(item, Append(queue, item), task, ran) = PoolPlacesOf(item, queue, task, ran) + 1
          /\ PoolPlacesOf(item, queue, task, Append(ran, item)) = PoolPlacesOf(item, queue, task, ran) + 1
      BY <1>1, OnePlaceMore
    <3>4. n <= calls[d]
      BY <2>2, <3>1
    <3>5. PoolPlacesOf(item, queue, task, ran) = 0
      BY <2>3, <3>2, Zenon
    <3>6. /\ PoolPlacesOf(item, Append(queue, item), task, ran) = 1
          /\ PoolPlacesOf(item, queue, task, Append(ran, item)) = 1
      BY <3>3, <3>5, SMTT(40)
    <3>7. QED
      BY <2>3, <3>4, <3>6, Zenon
  <2>4. CASE item # <<d, n>>
    <3>1. (n <= calls[d]) <=> (n <= runs[d])
      <4>1. CASE d = c
        <5>1. n # runs[c] + 1
          BY <2>4, <4>1
        <5>2. QED
          BY <2>2, <4>1, <5>1, SMTT(40)
      <4>2. CASE d # c
        BY <4>2, SMTT(40)
      <4>3. QED
        BY <4>1, <4>2
    <3>2. QED
      BY <1>1, <2>1, <2>4, <3>1, OnePlaceMore, SMTT(40)
  <2>5. QED
    BY <2>3, <2>4
<1>4. QED
  BY <1>3, Zenon DEF PoolOnce

\* A worker takes the first task of the queue, having had none.
LEMMA OnceAfterTake ==
  ASSUME NEW queue \in Seq(PoolTasks), queue # << >>, NEW task \in [PoolWorkers -> PoolTasks \cup {None}],
         NEW ran \in Seq(PoolTasks), NEW runs, PoolOnce(queue, task, ran, runs),
         NEW w \in PoolWorkers, task[w] = None,
         NEW taken, taken[w] = Head(queue), \A o \in PoolWorkers \ {w} : taken[o] = task[o]
  PROVE  PoolOnce(Tail(queue), taken, ran, runs)
<1> SUFFICES ASSUME NEW c \in PoolClients, NEW n \in 1..MaxRuns
             PROVE  PoolPlacesOf(<<c, n>>, Tail(queue), taken, ran) = PoolPlacesOf(<<c, n>>, queue, task, ran)
  BY Zenon DEF PoolOnce
<1> DEFINE k == <<c, n>>
<1>1. /\ Cardinality(ThreadsAt(PoolWorkers, task, k)) \in Nat /\ IsFiniteSet(PoolWorkers)
  BY PoolAssumption, CountAt, SMTT(40)
<1>2. task[w] # k
  BY DEF None
<1>3. taken[w] = Head(queue) /\ \A o \in PoolWorkers \ {w} : taken[o] = task[o]
  OBVIOUS
<1> HIDE DEF k
<1>4. Occurs(ran, k) \in Nat
  <2>1. PICK e : e \in PoolTasks
    BY <1>3
  <2>2. QED
    BY <2>1, OccursAppend
<1>5. /\ Occurs(Tail(queue), k) \in Nat
      /\ Head(queue) = k => Occurs(queue, k) = Occurs(Tail(queue), k) + 1
      /\ Head(queue) # k => Occurs(queue, k) = Occurs(Tail(queue), k)
  BY OccursTail
<1>6. Head(queue) = k =>
        Cardinality(ThreadsAt(PoolWorkers, taken, k)) = Cardinality(ThreadsAt(PoolWorkers, task, k)) + 1
  <2> HAVE Head(queue) = k
  <2> DEFINE had == ThreadsAt(PoolWorkers, task, k)
  <2>1. ThreadsAt(PoolWorkers, taken, k) = had \cup {w} /\ w \notin had
    BY <1>2, <1>3, SMTT(40) DEF ThreadsAt
  <2>2. IsFiniteSet(had)
    BY <1>1, CountAt
  <2> HIDE DEF had
  <2>3. Cardinality(had \cup {w}) = Cardinality(had) + 1
    BY <2>1, <2>2, FS_AddElement, Zenon
  <2>4. QED
    BY <2>1, <2>3 DEF had
<1>7. Head(queue) # k => ThreadsAt(PoolWorkers, taken, k) = ThreadsAt(PoolWorkers, task, k)
  BY <1>2, <1>3, SMTT(40) DEF ThreadsAt
<1>8. PoolPlacesOf(k, Tail(queue), taken, ran) = PoolPlacesOf(k, queue, task, ran)
  BY <1>1, <1>4, <1>5, <1>6, <1>7, SMTT(40) DEF PoolPlacesOf
<1>9. QED
  BY <1>8, SMTT(40) DEF k

\* A worker runs the task it holds.
LEMMA OnceAfterRun ==
  ASSUME NEW queue \in Seq(PoolTasks), NEW task \in [PoolWorkers -> PoolTasks \cup {None}],
         NEW ran \in Seq(PoolTasks), NEW runs, PoolOnce(queue, task, ran, runs),
         NEW w \in PoolWorkers, task[w] # None,
         NEW idle, idle[w] = None, \A o \in PoolWorkers \ {w} : idle[o] = task[o]
  PROVE  PoolOnce(queue, idle, Append(ran, task[w]), runs)
<1> SUFFICES ASSUME NEW c \in PoolClients, NEW n \in 1..MaxRuns
             PROVE  PoolPlacesOf(<<c, n>>, queue, idle, Append(ran, task[w])) = PoolPlacesOf(<<c, n>>, queue, task, ran)
  BY Zenon DEF PoolOnce
<1> DEFINE k == <<c, n>>
<1>1. /\ Cardinality(ThreadsAt(PoolWorkers, idle, k)) \in Nat /\ IsFiniteSet(PoolWorkers)
  BY PoolAssumption, CountAt, Zenon
<1>2. idle[w] # k
  BY DEF None
<1>3. task[w] \in PoolTasks /\ \A o \in PoolWorkers \ {w} : task[o] = idle[o]
  BY SMTT(40)
<1> HIDE DEF k
<1>4. /\ Occurs(ran, k) \in Nat /\ Occurs(queue, k) \in Nat
      /\ task[w] = k => Occurs(Append(ran, task[w]), k) = Occurs(ran, k) + 1
      /\ task[w] # k => Occurs(Append(ran, task[w]), k) = Occurs(ran, k)
  BY <1>3, OccursAppend, SMTT(40)
<1>5. task[w] = k =>
        Cardinality(ThreadsAt(PoolWorkers, task, k)) = Cardinality(ThreadsAt(PoolWorkers, idle, k)) + 1
  <2> HAVE task[w] = k
  <2>1. \A o \in PoolWorkers \ {w} : task[o] = idle[o]
    BY <1>3
  <2>2. QED
    BY <1>1, <1>2, <2>1, OneMore, SMTT(40)
<1>6. task[w] # k => ThreadsAt(PoolWorkers, task, k) = ThreadsAt(PoolWorkers, idle, k)
  BY <1>2, <1>3, Zenon DEF ThreadsAt
<1>7. PoolPlacesOf(k, queue, idle, Append(ran, task[w])) = PoolPlacesOf(k, queue, task, ran)
  BY <1>1, <1>4, <1>5, <1>6, SMTT(40) DEF PoolPlacesOf
<1>8. QED
  BY <1>7, Zenon DEF k

\* PoolInv in the words of the lemmas above.
PoolRest(at, task, main, running) ==
  /\ \A w \in PoolWorkers : at[w] = "task" <=> task[w] # None
  /\ main = "constructed" => \A w \in PoolWorkers : at[w] = "new"
  /\ running <=> main \in {"starting", "started"}
  /\ main \in {"joining", "stopped"} => \A t \in PoolThreads : at[t] # "notEmpty"
PoolTypes == [max : Nat, threads : SUBSET PoolWorkers, running : BOOLEAN, queue : Seq(PoolTasks),
              at : [PoolThreads -> WorkerPlaces \cup ClientPlaces],
              task : [PoolWorkers -> PoolTasks \cup {None}], runs : [PoolClients -> Nat], ran : Seq(PoolTasks),
              main : {"constructed", "starting", "started", "joining", "stopped"}]
PoolParts == /\ pool \in PoolTypes /\ PoolPlaced(pool.at)
             /\ PoolAwake(pool.at, Len(pool.queue), pool.running, pool.max)
             /\ PoolOnce(pool.queue, pool.task, pool.ran, pool.runs)
             /\ PoolRest(pool.at, pool.task, pool.main, pool.running)
             /\ pool.max > 0 => Len(pool.queue) <= pool.max

\* Regrouped, these are PoolInv, now and in the next state.
LEMMA PoolInvParts == (PoolInv <=> PoolParts) /\ (PoolInv' <=> PoolParts')
<1>1. PoolNoSleeperForgotten <=> PoolAwake(pool.at, Len(pool.queue), pool.running, pool.max)
  BY DEF PoolNoSleeperForgotten, PoolAwake, PoolAt, ThreadsAt
<1>2. PoolNoSleeperForgotten' <=> PoolAwake(pool'.at, Len(pool'.queue), pool'.running, pool'.max)
  BY DEF PoolNoSleeperForgotten, PoolAwake, PoolAt, ThreadsAt
<1>3. PoolEachTaskOnce <=> /\ PoolOnce(pool.queue, pool.task, pool.ran, pool.runs)
                           /\ pool.max > 0 => Len(pool.queue) <= pool.max
  BY DEF PoolEachTaskOnce, PoolOnce, PoolPlacesOf, Occurs, ThreadsAt
<1>4. PoolEachTaskOnce' <=> /\ PoolOnce(pool'.queue, pool'.task, pool'.ran, pool'.runs)
                            /\ pool'.max > 0 => Len(pool'.queue) <= pool'.max
  BY DEF PoolEachTaskOnce, PoolOnce, PoolPlacesOf, Occurs, ThreadsAt
<1>5. PoolNobodySleepsAfterStop <=>
        (pool.main \in {"joining", "stopped"} => \A t \in PoolThreads : pool.at[t] # "notEmpty")
  BY DEF PoolNobodySleepsAfterStop, PoolAt
<1>6. PoolNobodySleepsAfterStop' <=>
        (pool'.main \in {"joining", "stopped"} => \A t \in PoolThreads : pool'.at[t] # "notEmpty")
  BY DEF PoolNobodySleepsAfterStop, PoolAt
<1>7. PoolInv <=> PoolParts
  <2>1. ASSUME PoolInv  PROVE PoolParts
    BY <1>1, <1>3, <1>5, <2>1, Zenon DEF PoolInv, PoolHandsOver, PoolParts, PoolTypes, PoolPlaced, PoolRest
  <2>2. ASSUME PoolParts  PROVE PoolInv
    BY <1>1, <1>3, <1>5, <2>2, Zenon DEF PoolInv, PoolHandsOver, PoolParts, PoolTypes, PoolPlaced, PoolRest
  <2>3. QED
    BY <2>1, <2>2, SMTT(40)
<1>8. PoolInv' <=> PoolParts'
  <2>1. ASSUME PoolInv'  PROVE PoolParts'
    BY <1>2, <1>4, <1>6, <2>1, Zenon DEF PoolInv, PoolHandsOver, PoolParts, PoolTypes, PoolPlaced, PoolRest
  <2>2. ASSUME PoolParts'  PROVE PoolInv'
    BY <1>2, <1>4, <1>6, <2>2, Zenon DEF PoolInv, PoolHandsOver, PoolParts, PoolTypes, PoolPlaced, PoolRest
  <2>3. QED
    BY <2>1, <2>2, SMTT(40)
<1>9. QED
  BY <1>7, <1>8

\* The fields of a pool have the types PoolParts gives them.
LEMMA PoolFields ==
  ASSUME PoolParts
  PROVE  /\ pool.max \in Nat /\ pool.threads \subseteq PoolWorkers /\ pool.running \in BOOLEAN
         /\ pool.queue \in Seq(PoolTasks) /\ Len(pool.queue) \in Nat
         /\ pool.at \in [PoolThreads -> WorkerPlaces \cup ClientPlaces]
         /\ pool.task \in [PoolWorkers -> PoolTasks \cup {None}] /\ pool.runs \in [PoolClients -> Nat]
         /\ pool.ran \in Seq(PoolTasks)
         /\ pool.main \in {"constructed", "starting", "started", "joining", "stopped"}
BY DEF PoolParts, PoolTypes

\* A step that only moves a thread, where PoolAwakeAfterMove allows it, and perhaps counts
\* it among threads_.
LEMMA PoolMoveStep ==
  ASSUME PoolParts, NEW t \in PoolThreads, NEW b, PoolFits(t, b), NEW threads, threads \subseteq PoolWorkers,
         NEW at, PoolGoes(pool.at, t, b, at), pool' = [pool EXCEPT !.at = at, !.threads = threads],
         Len(pool.queue) = 0 \/ (pool.at[t] # "take" /\ b # "notEmpty"),
         Len(pool.queue) >= pool.max \/ (pool.at[t] # "run" /\ b # "notFull"),
         pool.at[t] # "task" /\ b # "task",
         pool.main # "constructed" \/ t \notin PoolWorkers,
         pool.main \in {"joining", "stopped"} => b # "notEmpty"
  PROVE  PoolParts'
<1>1. PoolPlaced(at) /\ PoolAwake(at, Len(pool.queue), pool.running, pool.max)
  BY PoolAwakeAfterMove, PoolFields DEF PoolParts
<1>2. at[t] = b /\ \A o \in PoolThreads \ {t} : at[o] = pool.at[o]
  BY PoolMove DEF PoolParts
<1>3. /\ pool'.max = pool.max /\ pool'.running = pool.running /\ pool'.queue = pool.queue /\ pool'.at = at
      /\ pool'.task = pool.task /\ pool'.runs = pool.runs /\ pool'.ran = pool.ran /\ pool'.main = pool.main
  BY DEF PoolParts, PoolTypes
<1>4. PoolRest(at, pool.task, pool.main, pool.running)
  BY <1>2 DEF PoolParts, PoolRest, PoolThreads
<1>5. pool' \in PoolTypes
  BY <1>1, Zenon DEF PoolParts, PoolTypes, PoolPlaced
<1>6. QED
  BY <1>1, <1>3, <1>4, <1>5, SMTT(40) DEF PoolParts

\* run(), with threads or without.
LEMMA PoolRunStep ==
  ASSUME PoolParts, NEW c \in PoolClients, PoolRun(c)
  PROVE  PoolParts'
<1> DEFINE item == <<c, pool.runs[c] + 1>>
           calls == [pool.runs EXCEPT ![c] = @ + 1]
           left == [pool.at EXCEPT ![c] = "out"]
<1>1. /\ item \in PoolTasks /\ calls \in [PoolClients -> Nat]
      /\ calls[c] = pool.runs[c] + 1 /\ \A d \in PoolClients \ {c} : calls[d] = pool.runs[d]
  BY PoolFields DEF PoolTasks
<1>2. item = <<c, pool.runs[c] + 1>>
  OBVIOUS
<1>3. c \in PoolThreads /\ c \notin PoolWorkers /\ PoolFits(c, "out") /\ PoolFits(c, "notFull")
  BY PoolAssumption, SMTT(40) DEF PoolThreads, PoolFits, ClientPlaces
<1>4. \/ pool' = [pool EXCEPT !.ran = Append(@, item), !.runs = calls]
      \/ PoolIsFull /\ pool' = [pool EXCEPT !.at[c] = "notFull"]
      \/ /\ ~PoolIsFull
         /\ \E at \in PoolNotify(left, "notEmpty", "take") :
               pool' = [pool EXCEPT !.queue = Append(@, item), !.runs = calls, !.at = at]
  <2>1. CASE pool' = [pool EXCEPT !.ran = Append(@, item), !.runs[c] = @ + 1]
    BY <2>1, SMTT(40)
  <2>2. ASSUME NEW at \in PoolSignals(left), ~PoolIsFull,
               pool' = [pool EXCEPT !.queue = Append(@, item), !.runs[c] = @ + 1, !.at = at]
        PROVE  /\ ~PoolIsFull
               /\ \E a \in PoolNotify(left, "notEmpty", "take") :
                     pool' = [pool EXCEPT !.queue = Append(@, item), !.runs = calls, !.at = a]
    BY <2>2, ZenonT(40) DEF PoolSignals
  <2>3. QED
    BY <2>1, <2>2, Zenon DEF PoolRun
<1>5. pool.main \notin {"constructed", "starting"} /\ pool.at[c] \in {"out", "run"}
  BY Zenon DEF PoolRun
<1>a. PoolGoes(pool.at, c, "out", left) /\ left[c] = "out" /\ \A t \in PoolThreads \ {c} : left[t] = pool.at[t]
  BY <1>3, PoolFields, Zenon DEF PoolGoes, ClientPlaces
<1> HIDE DEF item, calls, left
<1>6. /\ PoolOnce(Append(pool.queue, item), pool.task, pool.ran, calls)
      /\ PoolOnce(pool.queue, pool.task, Append(pool.ran, item), calls)
  BY <1>1, <1>2, OnceAfterCall, PoolFields, ZenonT(40) DEF PoolParts
<1>7. /\ Append(pool.queue, item) \in Seq(PoolTasks) /\ Append(pool.ran, item) \in Seq(PoolTasks)
      /\ Len(Append(pool.queue, item)) = Len(pool.queue) + 1
  BY <1>1, PoolFields
<1>8. CASE pool' = [pool EXCEPT !.ran = Append(@, item), !.runs = calls]
  <2>1. pool' \in PoolTypes
    BY <1>1, <1>7, <1>8, Zenon DEF PoolParts, PoolTypes
  <2>2. /\ pool'.max = pool.max /\ pool'.running = pool.running /\ pool'.queue = pool.queue /\ pool'.at = pool.at
        /\ pool'.task = pool.task /\ pool'.runs = calls /\ pool'.ran = Append(pool.ran, item)
        /\ pool'.main = pool.main
    BY <1>8 DEF PoolParts, PoolTypes
  <2>3. QED
    BY <1>6, <2>1, <2>2 DEF PoolParts
<1>9. CASE PoolIsFull /\ pool' = [pool EXCEPT !.at[c] = "notFull"]
  <2> DEFINE at == [pool.at EXCEPT ![c] = "notFull"]
  <2>1. PoolGoes(pool.at, c, "notFull", at) /\ pool' = [pool EXCEPT !.at = at, !.threads = pool.threads]
    BY <1>9, Zenon DEF PoolGoes, PoolParts, PoolTypes
  <2> HIDE DEF at
  <2>2. Len(pool.queue) >= pool.max /\ pool.threads \subseteq PoolWorkers
    BY <1>9, PoolFields, SMTT(40) DEF PoolIsFull
  <2>3. pool.at[c] # "take" /\ pool.at[c] # "task"
    BY <1>5, SMTT(40)
  <2>4. QED
    BY <1>3, <2>1, <2>2, <2>3, PoolMoveStep, Zenon
<1>10. ASSUME ~PoolIsFull, NEW at \in PoolNotify(left, "notEmpty", "take"),
              pool' = [pool EXCEPT !.queue = Append(@, item), !.runs = calls, !.at = at]
       PROVE  PoolParts'
  <2>1. PoolPlaced(at) /\ PoolAwake(at, Len(pool.queue) + 1, pool.running, pool.max)
    BY <1>a, <1>10, PoolAwakeAfterPush, PoolFields, SMTT(40) DEF PoolParts
  <2>2. pool' \in PoolTypes
    BY <1>1, <1>7, <1>10, <2>1, ZenonT(40) DEF PoolParts, PoolTypes, PoolPlaced
  <2>3. /\ pool'.max = pool.max /\ pool'.running = pool.running /\ pool'.queue = Append(pool.queue, item)
        /\ pool'.at = at /\ pool'.task = pool.task /\ pool'.runs = calls /\ pool'.ran = pool.ran
        /\ pool'.main = pool.main
    BY <1>10, SMTT(40) DEF PoolParts, PoolTypes
  <2>4. \A t \in PoolThreads : PoolEffect(t, c, "out", "notEmpty", "take", pool.at, at)
    <3>1. DOMAIN left = PoolThreads
      BY <1>3, <1>a, PoolMove, SMTT(40) DEF PoolParts, PoolPlaced
    <3>2. QED
      BY <1>3, <1>a, <3>1, WakeOne, Zenon
  <2>5. PoolRest(at, pool.task, pool.main, pool.running)
    BY <1>3, <1>5, <2>4, Zenon DEF PoolParts, PoolRest, PoolThreads, PoolEffect
  <2>6. pool.max > 0 => Len(pool.queue) + 1 <= pool.max
    BY <1>10, PoolFields DEF PoolIsFull
  <2>7. QED
    BY <1>6, <1>7, <2>1, <2>2, <2>3, <2>5, <2>6, Zenon DEF PoolParts
<1>11. QED
  BY <1>4, <1>8, <1>9, <1>10, Zenon

\* take(), with a task or without.
LEMMA PoolTakeStep ==
  ASSUME PoolParts, NEW w \in PoolWorkers, PoolTake(w)
  PROVE  PoolParts'
<1>1. /\ w \in PoolThreads /\ w \notin PoolClients /\ pool.at[w] = "take"
      /\ PoolFits(w, "notEmpty") /\ PoolFits(w, "loop") /\ PoolFits(w, "task")
  BY PoolAssumption, Zenon DEF PoolThreads, PoolFits, WorkerPlaces, PoolTake
<1>2. pool.main # "constructed" /\ pool.task[w] = None
  BY <1>1, Zenon DEF PoolParts, PoolRest
<1>3. ASSUME pool.queue = << >>, NEW b \in {"notEmpty", "loop"}, pool.running \/ b = "loop",
             pool' = [pool EXCEPT !.at[w] = b]
      PROVE  PoolParts'
  <2> DEFINE at == [pool.at EXCEPT ![w] = b]
  <2>1. PoolGoes(pool.at, w, b, at) /\ pool' = [pool EXCEPT !.at = at, !.threads = pool.threads]
    BY <1>3, ZenonT(40) DEF PoolGoes, PoolParts, PoolTypes
  <2> HIDE DEF at
  <2>2. Len(pool.queue) = 0 /\ pool.threads \subseteq PoolWorkers /\ PoolFits(w, b)
    BY <1>1, <1>3, PoolFields
  <2>3. pool.at[w] # "run" /\ b # "notFull" /\ pool.at[w] # "task" /\ b # "task"
    BY <1>1, <1>3
  <2>4. pool.main \in {"joining", "stopped"} => b # "notEmpty"
    BY <1>3 DEF PoolParts, PoolRest
  <2>5. QED
    BY <1>1, <1>2, <2>1, <2>2, <2>3, <2>4, PoolMoveStep, Zenon
<1> DEFINE left == [pool.at EXCEPT ![w] = "task"]
           taken == [pool.task EXCEPT ![w] = Head(pool.queue)]
<1>4. ASSUME pool.queue # << >>, NEW at, (pool.max = 0 /\ at = left) \/ at \in PoolNotify(left, "notFull", "run"),
             pool' = [pool EXCEPT !.task = taken, !.queue = Tail(@), !.at = at]
      PROVE  PoolParts'
  <2>1. /\ PoolGoes(pool.at, w, "task", left) /\ left[w] = "task"
        /\ \A t \in PoolThreads \ {w} : left[t] = pool.at[t]
    BY <1>1, PoolFields, Zenon DEF PoolGoes
  <2>2. /\ Head(pool.queue) \in PoolTasks /\ Tail(pool.queue) \in Seq(PoolTasks)
        /\ Len(Tail(pool.queue)) = Len(pool.queue) - 1 /\ Len(pool.queue) \in Nat \ {0}
    BY <1>4, PoolFields, SMTT(40)
  <2>3. /\ taken \in [PoolWorkers -> PoolTasks \cup {None}]
        /\ taken[w] = Head(pool.queue) /\ \A o \in PoolWorkers \ {w} : taken[o] = pool.task[o]
    BY <2>2, PoolFields, Zenon
  <2>4. PoolPlaced(left) /\ DOMAIN left = PoolThreads
    BY <1>1, <2>1, PoolMove, Zenon DEF PoolParts, PoolPlaced
  <2> HIDE DEF left, taken
  <2>5. PoolPlaced(at) /\ PoolAwake(at, Len(pool.queue) - 1, pool.running, pool.max)
    <3>1. /\ PoolPlaced(pool.at) /\ PoolAwake(pool.at, Len(pool.queue), pool.running, pool.max)
          /\ pool.max \in Nat /\ pool.running \in BOOLEAN /\ pool.at[w] = "take"
      BY <1>1, PoolFields, Zenon DEF PoolParts
    <3>2. QED
      BY <1>4, <2>1, <2>2, <3>1, PoolAwakeAfterPop, SMTT(40)
  <2>6. PoolOnce(Tail(pool.queue), taken, pool.ran, pool.runs)
    BY <1>2, <1>4, <2>3, OnceAfterTake, PoolFields, Zenon DEF PoolParts
  <2>7. \A t \in PoolThreads : PoolEffect(t, w, "task", "notFull", "run", pool.at, at)
    BY <1>1, <1>4, <2>1, <2>4, WakeOne
  <2>8. PoolRest(at, taken, pool.main, pool.running)
    <3>1. Head(pool.queue) # None
      BY <2>2, SMTT(40) DEF None, PoolTasks
    <3>2. \A o \in PoolWorkers : at[o] = "task" <=> taken[o] # None
      <4> SUFFICES ASSUME NEW o \in PoolWorkers  PROVE at[o] = "task" <=> taken[o] # None
        BY Zenon
      <4>1. CASE o = w
        BY <1>1, <2>3, <2>7, <3>1, <4>1, Zenon DEF PoolEffect
      <4>2. CASE o # w
        <5>1. o \in PoolThreads /\ (pool.at[o] = "task" <=> pool.task[o] # None) /\ pool.at[o] # "notFull"
          BY Zenon DEF PoolParts, PoolRest, PoolThreads, PoolPlaced, WorkerPlaces
        <5>2. QED
          BY <2>3, <2>7, <4>2, <5>1, SMTT(40) DEF PoolEffect
      <4>3. QED
        BY <4>1, <4>2, Zenon
    <3>3. pool.main \in {"joining", "stopped"} => \A t \in PoolThreads : at[t] # "notEmpty"
      BY <2>7, Zenon DEF PoolParts, PoolRest, PoolEffect
    <3>4. QED
      BY <1>2, <3>2, <3>3, Zenon DEF PoolParts, PoolRest
  <2>9. pool' \in PoolTypes
    BY <1>4, <2>2, <2>3, <2>5, ZenonT(40) DEF PoolParts, PoolTypes, PoolPlaced
  <2>10. /\ pool'.max = pool.max /\ pool'.running = pool.running /\ pool'.queue = Tail(pool.queue)
         /\ pool'.at = at /\ pool'.task = taken /\ pool'.runs = pool.runs /\ pool'.ran = pool.ran
         /\ pool'.main = pool.main
    BY <1>4, SMTT(40) DEF PoolParts, PoolTypes
  <2>11. pool.max > 0 => Len(pool.queue) - 1 <= pool.max
    BY PoolFields DEF PoolParts
  <2>12. QED
    BY <2>2, <2>5, <2>6, <2>8, <2>9, <2>10, <2>11, Zenon DEF PoolParts
<1>5. CASE pool.queue = << >>
  BY <1>3, <1>5 DEF PoolTake
<1>6. CASE pool.queue # << >>
  <2>1. PICK at \in IF pool.max > 0 THEN PoolNotify(left, "notFull", "run") ELSE {left} :
          pool' = [pool EXCEPT !.task[w] = Head(pool.queue), !.queue = Tail(@), !.at = at]
    BY <1>6, Zenon DEF PoolTake, PoolPopped
  <2>2. pool' = [pool EXCEPT !.task = taken, !.queue = Tail(@), !.at = at]
    BY <2>1
  <2>3. (pool.max = 0 /\ at = left) \/ at \in PoolNotify(left, "notFull", "run")
    <3> HIDE DEF left
    <3>1. QED
      BY <2>1, PoolFields, SMTT(40)
  <2>4. QED
    BY <1>4, <1>6, <2>2, <2>3, ZenonT(40)
<1>7. QED
  BY <1>5, <1>6, SMTT(40)

\* A task runs, and its worker goes back to the loop.
LEMMA PoolRunTaskStep ==
  ASSUME PoolParts, NEW w \in PoolWorkers, PoolRunTask(w)
  PROVE  PoolParts'
<1> DEFINE at == [pool.at EXCEPT ![w] = "loop"]
           idle == [pool.task EXCEPT ![w] = None]
<1>1. /\ w \in PoolThreads /\ PoolFits(w, "loop") /\ pool.at[w] = "task"
      /\ pool' = [pool EXCEPT !.ran = Append(@, pool.task[w]), !.task = idle, !.at = at]
  BY PoolAssumption DEF PoolThreads, PoolFits, WorkerPlaces, PoolRunTask
<1>2. pool.main # "constructed" /\ pool.task[w] # None /\ pool.task[w] \in PoolTasks
  BY <1>1, PoolFields, SMTT(40) DEF PoolParts, PoolRest
<1>3. /\ idle \in [PoolWorkers -> PoolTasks \cup {None}] /\ idle[w] = None
      /\ \A o \in PoolWorkers \ {w} : idle[o] = pool.task[o]
  BY PoolFields
<1>4. PoolGoes(pool.at, w, "loop", at)
  BY DEF PoolGoes
<1>5. Append(pool.ran, pool.task[w]) \in Seq(PoolTasks)
  BY <1>2, PoolFields
<1> HIDE DEF at, idle
<1>6. pool.at[w] # "take" /\ pool.at[w] # "run"
  BY <1>1
<1>7. PoolPlaced(at) /\ PoolAwake(at, Len(pool.queue), pool.running, pool.max)
  BY <1>1, <1>4, <1>6, PoolAwakeAfterMove, PoolFields, Zenon DEF PoolParts
<1>8. at[w] = "loop" /\ \A o \in PoolThreads \ {w} : at[o] = pool.at[o]
  BY <1>1, <1>4, PoolMove, SMTT(40) DEF PoolParts
<1>9. PoolOnce(pool.queue, idle, Append(pool.ran, pool.task[w]), pool.runs)
  BY <1>2, <1>3, OnceAfterRun, PoolFields, Zenon DEF PoolParts
<1>10. PoolRest(at, idle, pool.main, pool.running)
  BY <1>2, <1>3, <1>8, Zenon DEF PoolParts, PoolRest, PoolThreads
<1>11. pool' \in PoolTypes
  BY <1>1, <1>3, <1>5, <1>7, Zenon DEF PoolParts, PoolTypes, PoolPlaced
<1>12. /\ pool'.max = pool.max /\ pool'.running = pool.running /\ pool'.queue = pool.queue
       /\ pool'.at = at /\ pool'.task = idle /\ pool'.runs = pool.runs
       /\ pool'.ran = Append(pool.ran, pool.task[w]) /\ pool'.main = pool.main
  BY <1>1 DEF PoolParts, PoolTypes
<1>13. QED
  BY <1>7, <1>9, <1>10, <1>11, <1>12, SMTT(40) DEF PoolParts

\* start() begins: no worker exists yet, so none sleeps.
LEMMA PoolStartStep ==
  ASSUME PoolParts, PoolStart
  PROVE  PoolParts'
<1>1. /\ pool'.max = pool.max /\ pool'.running = TRUE /\ pool'.queue = pool.queue /\ pool'.at = pool.at
      /\ pool'.task = pool.task /\ pool'.runs = pool.runs /\ pool'.ran = pool.ran /\ pool'.main = "starting"
      /\ pool' \in PoolTypes
  BY Zenon DEF PoolParts, PoolTypes, PoolStart
<1>2. ThreadsAt(PoolThreads, pool.at, "notEmpty") = {}
  BY DEF PoolParts, PoolRest, PoolPlaced, ClientPlaces, PoolThreads, PoolStart, ThreadsAt
<1>3. PoolAwake(pool.at, Len(pool.queue), TRUE, pool.max)
  BY <1>2, SMTT(40) DEF PoolParts, PoolAwake
<1>4. PoolRest(pool.at, pool.task, "starting", TRUE)
  BY Zenon DEF PoolParts, PoolRest
<1>5. QED
  BY <1>1, <1>3, <1>4, Zenon DEF PoolParts

\* stop() clears running_ and wakes the workers.
LEMMA PoolStopStep ==
  ASSUME PoolParts, PoolStop
  PROVE  PoolParts'
<1> DEFINE at == PoolNotifyAll(pool.at, "notEmpty", "take")
<1>1. /\ PoolPlaced(at) /\ PoolAwake(at, Len(pool.queue), FALSE, pool.max)
      /\ \A t \in PoolThreads : /\ at[t] # "notEmpty"
                                /\ at[t] = pool.at[t] \/ (pool.at[t] = "notEmpty" /\ at[t] = "take")
  <2>1. PoolPlaced(pool.at) /\ PoolAwake(pool.at, Len(pool.queue), pool.running, pool.max)
    BY SMTT(40) DEF PoolParts
  <2>2. pool.max \in Nat /\ Len(pool.queue) \in Nat
    BY PoolFields, Zenon
  <2>3. QED
    BY <2>1, <2>2, PoolAwakeAfterStop, Zenon
<1>2. pool' = [pool EXCEPT !.main = "joining", !.running = FALSE, !.at = at]
  BY DEF PoolStop
<1> HIDE DEF at
<1>3. /\ pool'.max = pool.max /\ pool'.running = FALSE /\ pool'.queue = pool.queue /\ pool'.at = at
      /\ pool'.task = pool.task /\ pool'.runs = pool.runs /\ pool'.ran = pool.ran /\ pool'.main = "joining"
  BY <1>2 DEF PoolParts, PoolTypes
<1>4. pool' \in PoolTypes
  BY <1>1, <1>2, Zenon DEF PoolParts, PoolTypes, PoolPlaced
<1>5. PoolRest(at, pool.task, "joining", FALSE)
  BY <1>1, Zenon DEF PoolParts, PoolRest, PoolThreads
<1>6. QED
  BY <1>1, <1>3, <1>4, <1>5, Zenon DEF PoolParts

\* Every step of the pool's workers, clients and owner keeps PoolInv.
LEMMA PoolStep ==
  ASSUME PoolParts, PoolNext
  PROVE  PoolParts'
<1>1. CASE PoolStarted \/ PoolJoined
  <2>1. /\ pool'.max = pool.max /\ pool'.running = pool.running /\ pool'.queue = pool.queue
        /\ pool'.at = pool.at /\ pool'.task = pool.task /\ pool'.runs = pool.runs /\ pool'.ran = pool.ran
    BY <1>1 DEF PoolParts, PoolTypes, PoolStarted, PoolJoined
  <2>2. pool' \in PoolTypes
    BY <1>1, Zenon DEF PoolParts, PoolTypes, PoolStarted, PoolJoined
  <2>3. \/ pool.main = "starting" /\ pool'.main = "started"
        \/ pool.main = "joining" /\ pool'.main = "stopped"
    BY <1>1 DEF PoolParts, PoolTypes, PoolStarted, PoolJoined
  <2>4. PoolRest(pool.at, pool.task, pool'.main, pool.running)
    BY <2>3, Zenon DEF PoolParts, PoolRest
  <2>5. QED
    BY <2>1, <2>2, <2>4, Zenon DEF PoolParts
<1>2. ASSUME NEW t \in PoolThreads, NEW b, PoolFits(t, b), NEW threads, threads \subseteq PoolWorkers,
             pool' = [pool EXCEPT !.at[t] = b, !.threads = threads],
             pool.at[t] \notin {"take", "run", "task"}, b \notin {"notEmpty", "notFull", "task"},
             pool.main # "constructed" \/ t \notin PoolWorkers
      PROVE  PoolParts'
  <2> DEFINE at == [pool.at EXCEPT ![t] = b]
  <2>1. PoolGoes(pool.at, t, b, at) /\ pool' = [pool EXCEPT !.at = at, !.threads = threads]
    BY <1>2 DEF PoolGoes
  <2> HIDE DEF at
  <2>2. QED
    BY <1>2, <2>1, PoolMoveStep, Zenon
<1>3. ASSUME NEW w \in PoolWorkers, PoolStartThread(w)  PROVE PoolParts'
  <2> DEFINE threads == pool.threads \cup {w}
  <2>1. /\ w \in PoolThreads /\ PoolFits(w, "loop") /\ threads \subseteq PoolWorkers
        /\ pool.at[w] = "new" /\ pool.main # "constructed"
    BY <1>3, PoolAssumption, PoolFields DEF PoolStartThread, PoolThreads, PoolFits, WorkerPlaces
  <2>2. pool' = [pool EXCEPT !.at[w] = "loop", !.threads = threads]
    BY <1>3, Zenon DEF PoolStartThread, PoolParts, PoolTypes
  <2> HIDE DEF threads
  <2>3. pool.at[w] \notin {"take", "run", "task"} /\ "loop" \notin {"notEmpty", "notFull", "task"}
    BY <2>1
  <2>4. QED
    BY <1>2, <2>1, <2>2, <2>3, Zenon
<1>4. ASSUME NEW w \in PoolWorkers, PoolLoop(w)  PROVE PoolParts'
  <2>1. PICK b \in {"take", "exit"} : pool' = [pool EXCEPT !.at[w] = b]
    BY <1>4 DEF PoolLoop
  <2>2. /\ w \in PoolThreads /\ PoolFits(w, b) /\ pool.threads \subseteq PoolWorkers /\ pool.at[w] = "loop"
    BY <1>4, PoolAssumption, PoolFields DEF PoolLoop, PoolThreads, PoolFits, WorkerPlaces
  <2>3. pool' = [pool EXCEPT !.at[w] = b, !.threads = pool.threads]
    BY <2>1, Zenon DEF PoolParts, PoolTypes
  <2>4. pool.main # "constructed"
    BY <2>2, Zenon DEF PoolParts, PoolRest
  <2>5. QED
    BY <1>2, <2>2, <2>3, <2>4, Zenon
<1>5. ASSUME NEW t \in PoolThreads, PoolSpurious(t)  PROVE PoolParts'
  <2> DEFINE b == IF t \in PoolWorkers THEN "take" ELSE "run"
  <2>1. /\ PoolFits(t, b) /\ pool.threads \subseteq PoolWorkers /\ pool.at[t] \in {"notEmpty", "notFull"}
        /\ b \in {"take", "run"}
    BY <1>5, PoolAssumption, PoolFields DEF PoolSpurious, PoolThreads, PoolFits, WorkerPlaces, ClientPlaces
  <2>2. pool' = [pool EXCEPT !.at[t] = b, !.threads = pool.threads]
    BY <1>5, Zenon DEF PoolParts, PoolTypes, PoolSpurious
  <2>3. pool.main # "constructed" \/ t \notin PoolWorkers
    BY <2>1, Zenon DEF PoolParts, PoolRest
  <2> HIDE DEF b
  <2>4. QED
    BY <1>2, <2>1, <2>2, <2>3, Zenon
<1>6. QED
  BY <1>1, <1>3, <1>4, <1>5, PoolStartStep, PoolStopStep, PoolTakeStep, PoolRunTaskStep, PoolRunStep, SMTT(40) DEF PoolNext

(* Whatever the workers, the clients and maxQueueSize_: every task given to    *)
(* run() is in exactly one place, the queue keeps its bound, no worker sleeps  *)
(* while a queued task has nobody on the way, no client while there is room,   *)
(* and none of the workers sleeps once stop() has cleared running_.            *)
THEOREM PoolAlwaysHandsOver == PoolSpec => []PoolHandsOver
<1>1. PoolInit => PoolInv
  <2> SUFFICES ASSUME PoolInit  PROVE PoolParts
    BY PoolInvParts
  <2>1. /\ pool.queue = << >> /\ pool.ran = << >> /\ pool.runs = [c \in PoolClients |-> 0] /\ pool.threads = {}
        /\ pool.running = FALSE /\ pool.task = [w \in PoolWorkers |-> None] /\ pool.main = "constructed"
        /\ pool.at = [t \in PoolThreads |-> IF t \in PoolWorkers THEN "new" ELSE "out"]
        /\ pool.max \in MaxQueueSizes
        /\ pool = [max |-> pool.max, threads |-> pool.threads, running |-> pool.running, queue |-> pool.queue,
                   at |-> pool.at, task |-> pool.task, runs |-> pool.runs, ran |-> pool.ran, main |-> pool.main]
    BY Zenon DEF PoolInit
  <2>2. PoolPlaced(pool.at)
    BY <2>1, PoolAssumption, Zenon DEF PoolPlaced, PoolThreads, WorkerPlaces, ClientPlaces
  <2>3. pool.max \in Nat /\ << >> \in Seq(PoolTasks) /\ pool.runs \in [PoolClients -> Nat]
        /\ pool.task \in [PoolWorkers -> PoolTasks \cup {None}]
    BY <2>1, PoolAssumption
  <2>4. pool \in PoolTypes
    BY <2>1, <2>2, <2>3, Zenon DEF PoolTypes, PoolPlaced
  <2>5. PoolAwake(pool.at, Len(pool.queue), pool.running, pool.max)
    BY <2>1, Zenon DEF PoolAwake, ThreadsAt
  <2>6. PoolRest(pool.at, pool.task, pool.main, pool.running)
    BY <2>1, SMTT(40) DEF PoolRest, PoolThreads
  <2>7. PoolOnce(pool.queue, pool.task, pool.ran, pool.runs)
    <3>1. \A k : Occurs(<< >>, k) = 0
      <4>1. \A k : {i \in DOMAIN << >> : << >>[i] = k} = {}
        OBVIOUS
      <4>2. QED
        BY <4>1, FS_EmptySet DEF Occurs
    <3>2. \A c \in PoolClients, n \in 1..MaxRuns : << >> # <<c, n>>
      OBVIOUS
    <3>3. \A c \in PoolClients, n \in 1..MaxRuns : ThreadsAt(PoolWorkers, pool.task, <<c, n>>) = {}
      BY <2>1, <3>2, SMTT(40) DEF ThreadsAt, None
    <3>4. \A c \in PoolClients, n \in 1..MaxRuns : PoolPlacesOf(<<c, n>>, << >>, pool.task, << >>) = 0
      <4> SUFFICES ASSUME NEW c \in PoolClients, NEW n \in 1..MaxRuns
                   PROVE  PoolPlacesOf(<<c, n>>, << >>, pool.task, << >>) = 0
        BY Zenon
      <4>1. Cardinality(ThreadsAt(PoolWorkers, pool.task, <<c, n>>)) = 0
        BY <3>3, FS_EmptySet
      <4>2. Occurs(<< >>, <<c, n>>) = 0
        BY <3>1, SMTT(40)
      <4>3. QED
        BY <4>1, <4>2 DEF PoolPlacesOf
    <3>5. \A c \in PoolClients, n \in 1..MaxRuns : ~(n <= pool.runs[c])
      BY <2>1, PoolAssumption, SMTT(40)
    <3>6. QED
      BY <2>1, <3>4, <3>5, Zenon DEF PoolOnce
  <2>8. pool.max > 0 => Len(pool.queue) <= pool.max
    BY <2>1, <2>3, SMTT(40)
  <2>9. QED
    BY <2>2, <2>4, <2>5, <2>6, <2>7, <2>8, SMTT(40) DEF PoolParts
<1>2. PoolInv /\ [PoolNext]_pool => PoolInv'
  <2>1. PoolInv /\ PoolNext => PoolInv'
    BY PoolStep, PoolInvParts
  <2>2. PoolInv /\ pool' = pool => PoolInv'
    <3>1. PoolParts /\ pool' = pool => PoolParts'
      BY DEF PoolParts
    <3>2. QED
      BY <3>1, PoolInvParts
  <2>3. QED
    BY <2>1, <2>2
<1>3. PoolInv => PoolHandsOver
  BY SMTT(40) DEF PoolInv
<1>4. QED
  BY <1>1, <1>2, <1>3, PTL DEF PoolSpec

(***************************************************************************)
(* EventLoopThread and EventLoopThreadPool.                                *)
(***************************************************************************)

\* The conjuncts of EltInv, over the fields they are about.
EltTypes == [num : 0..MaxThreads, main : EltStarting \cup {"started"} \cup EltEnding, cur : Nat,
             loops : Seq(LoopThreads), next : Nat, at : [LoopThreads -> EltPlaces],
             loop : [LoopThreads -> BOOLEAN], quit : [LoopThreads -> BOOLEAN], freed : SUBSET LoopThreads,
             gave : Seq(0..MaxThreads), appQuit : BOOLEAN, forgot : BOOLEAN, fault : BOOLEAN]

EltOrder(num, main, cur, loops) ==
  /\ cur \in 1..(num + 1)
  /\ main \in {"semwait", "wait", "asleep", "quit", "join"} => cur <= num
  /\ loops = [i \in 1..(IF main \in EltStarting THEN cur - 1 ELSE num) |-> i]

EltStages(main, cur, len, at, loop) ==
  \A t \in LoopThreads :
    /\ loop[t] <=> at[t] \in {"enter", "loop", "left"}
    /\ t <= len => at[t] \notin {"none", "tid", "callback"}
    /\ main \in EltStarting /\ (t > cur \/ (t = cur /\ main = "start")) => at[t] = "none"

EltTurns(num, main, loops, next, gave) ==
  /\ IF main \in EltStarting THEN gave = << >> /\ next = 0
     ELSE \E base \in 0..Len(gave) : \A l \in 1..num : Occurs(gave, l) = base + (IF l <= next THEN 1 ELSE 0)
  /\ loops # << >> => next < Len(loops)

EltPassed(main, cur, t) == main \in EltEnding /\ (t < cur \/ (t = cur /\ main = "join"))
EltAlive(main, cur, at, quit, freed, fault) ==
  /\ ~fault
  /\ \A t \in freed : at[t] = "gone"
  /\ \A t \in LoopThreads : quit[t] \/ at[t] \in {"left", "cleared", "gone"} => EltPassed(main, cur, t)

EltOrdered == EltOrder(elt.num, elt.main, elt.cur, elt.loops)
EltStaged == EltStages(elt.main, elt.cur, Len(elt.loops), elt.at, elt.loop)
EltTurned == EltTurns(elt.num, elt.main, elt.loops, elt.next, elt.gave)
EltLives == ~elt.appQuit => EltAlive(elt.main, elt.cur, elt.at, elt.quit, elt.freed, elt.fault)
EltParts == elt \in EltTypes /\ EltOrdered /\ EltStaged /\ EltTurned /\ EltLives

\* Regrouped, these are EltInv.
LEMMA EltInvParts == (EltInv <=> EltParts) /\ (EltInv' <=> EltParts')
<1>1. EltInv <=> EltParts
  BY Zenon DEF EltInv, EltParts, EltOrdered, EltStaged, EltTurned, EltLives, EltTypes,
         EltOrder, EltStages, EltTurns, EltAlive, EltPassed, EltReached, EltTimes, Occurs
<1>2. EltInv' <=> EltParts'
  BY Zenon DEF EltInv, EltParts, EltOrdered, EltStaged, EltTurned, EltLives, EltTypes,
         EltOrder, EltStages, EltTurns, EltAlive, EltPassed, EltReached, EltTimes, Occurs
<1>3. QED
  BY <1>1, <1>2

\* The numbers among elt's fields, and what the base thread's place says of them.
LEMMA EltNumbers ==
  ASSUME EltParts
  PROVE  /\ elt.num \in Nat /\ elt.num <= MaxThreads /\ elt.cur \in Nat /\ elt.next \in Nat
         /\ elt.cur \in 1..(elt.num + 1)
         /\ elt.main \in {"semwait", "wait", "asleep", "quit", "join"} => elt.cur \in LoopThreads /\ elt.cur <= elt.num
         /\ elt.loops \in Seq(LoopThreads)
         /\ Len(elt.loops) = IF elt.main \in EltStarting THEN elt.cur - 1 ELSE elt.num
<1>1. elt \in EltTypes /\ EltOrder(elt.num, elt.main, elt.cur, elt.loops)
  BY DEF EltParts, EltOrdered, EltStaged, EltTurned, EltLives
<1>2. /\ elt.num \in Nat /\ elt.num <= MaxThreads /\ elt.cur \in Nat /\ elt.next \in Nat
      /\ elt.loops \in Seq(LoopThreads)
  BY <1>1, EltAssumption, SMTT(40) DEF EltTypes
<1>3. /\ elt.cur \in 1..(elt.num + 1)
      /\ elt.main \in {"semwait", "wait", "asleep", "quit", "join"} => elt.cur \in LoopThreads /\ elt.cur <= elt.num
  BY <1>1, <1>2, EltAssumption, SMTT(40) DEF EltOrder, LoopThreads
<1>4. Len(elt.loops) = IF elt.main \in EltStarting THEN elt.cur - 1 ELSE elt.num
  <2> DEFINE n == IF elt.main \in EltStarting THEN elt.cur - 1 ELSE elt.num
  <2>1. n \in Nat /\ elt.loops = [i \in 1..n |-> i]
    BY <1>1, <1>2, <1>3, SMTT(40) DEF EltOrder
  <2> HIDE DEF n
  <2>2. Len(elt.loops) = n
    BY <1>2, <2>1, SMTT(40)
  <2>3. QED
    BY <2>2, SMTT(40) DEF n
<1>5. QED
  BY <1>2, <1>3, <1>4, Zenon

\* The types of elt's other fields.
LEMMA EltShapes ==
  ASSUME EltParts
  PROVE  /\ elt.main \in EltStarting \cup {"started"} \cup EltEnding
         /\ elt.at \in [LoopThreads -> EltPlaces] /\ elt.loop \in [LoopThreads -> BOOLEAN]
         /\ elt.quit \in [LoopThreads -> BOOLEAN] /\ elt.freed \subseteq LoopThreads
         /\ elt.gave \in Seq(0..MaxThreads) /\ Len(elt.gave) \in Nat
BY SMTT(40) DEF EltParts, EltTypes

\* What a step of one of the pool's threads changes.
EltOwnStep(t) ==
  /\ elt'.num = elt.num /\ elt'.cur = elt.cur /\ elt'.loops = elt.loops /\ elt'.next = elt.next
  /\ elt'.gave = elt.gave /\ elt'.freed = elt.freed
  /\ elt'.main = elt.main \/ (elt.main = "asleep" /\ elt'.main = "wait")
  /\ \A o \in LoopThreads \ {t} : /\ elt'.at[o] = elt.at[o] /\ elt'.loop[o] = elt.loop[o]
                                  /\ elt'.quit[o] = elt.quit[o]
EltGoesOn(t) ==
  \/ elt.at[t] = "tid" /\ elt'.at[t] = "callback" /\ elt'.loop[t] = elt.loop[t]
  \/ elt.at[t] = "callback" /\ elt'.at[t] = "enter" /\ elt'.loop[t] = TRUE
  \/ elt.at[t] = "enter" /\ elt'.at[t] = "loop" /\ elt'.loop[t] = elt.loop[t]
  \/ elt.at[t] = "loop" /\ elt'.at[t] \in {"loop", "left"} /\ elt'.loop[t] = elt.loop[t]
  \/ elt.at[t] = "left" /\ elt'.at[t] = "cleared" /\ elt'.loop[t] = FALSE
  \/ elt.at[t] = "cleared" /\ elt'.at[t] = "gone" /\ elt'.loop[t] = elt.loop[t]
EltQuits(t) ==
  ~elt'.appQuit => /\ ~elt.appQuit
                   /\ elt'.quit[t] => elt.quit[t]
                   /\ elt'.at[t] = "left" => elt.quit[t]
                   /\ elt'.fault => elt.fault \/ (elt.at[t] = "cleared" /\ t \in elt.freed)

\* A step of one of the pool's threads moves it on in threadFunc, may signal loop_ to the
\* base thread, and leaves the pool's own fields alone.
LEMMA EltThreadEffect ==
  ASSUME EltParts, NEW t \in LoopThreads,
         EltTid(t) \/ EltCallback(t) \/ EltEnter(t) \/ EltLeave(t) \/ EltClear(t) \/ EltEnd(t) \/ EltAppQuit(t)
  PROVE  elt' \in EltTypes /\ EltOwnStep(t) /\ EltGoesOn(t) /\ EltQuits(t)
<1>1. CASE EltTid(t)
  <2>1. elt' \in EltTypes
    BY <1>1, Zenon DEF EltTid, EltParts, EltTypes, EltPlaces, EltStarting
  <2>2. EltOwnStep(t)
    BY <1>1 DEF EltOwnStep, EltTid, EltParts, EltTypes
  <2>3. EltGoesOn(t)
    BY <1>1 DEF EltGoesOn, EltTid, EltParts, EltTypes
  <2>4. EltQuits(t)
    BY <1>1, SMTT(40) DEF EltQuits, EltTid, EltParts, EltTypes
  <2>5. QED
    BY <2>1, <2>2, <2>3, <2>4, SMTT(40)
<1>2. CASE EltCallback(t)
  <2>1. elt' \in EltTypes
    BY <1>2, Zenon DEF EltCallback, EltPublish, EltParts, EltTypes, EltPlaces, EltStarting
  <2>2. EltOwnStep(t)
    BY <1>2 DEF EltOwnStep, EltCallback, EltPublish, EltParts, EltTypes
  <2>3. EltGoesOn(t)
    BY <1>2 DEF EltGoesOn, EltCallback, EltPublish, EltParts, EltTypes
  <2>4. EltQuits(t)
    BY <1>2, SMTT(40) DEF EltQuits, EltCallback, EltPublish, EltParts, EltTypes
  <2>5. QED
    BY <2>1, <2>2, <2>3, <2>4
<1>3. CASE EltEnter(t)
  <2>1. elt' \in EltTypes
    BY <1>3, Zenon DEF EltEnter, EltParts, EltTypes, EltPlaces, EltStarting
  <2>2. EltOwnStep(t)
    BY <1>3 DEF EltOwnStep, EltEnter, EltParts, EltTypes
  <2>3. EltGoesOn(t)
    BY <1>3 DEF EltGoesOn, EltEnter, EltParts, EltTypes
  <2>4. EltQuits(t)
    BY <1>3, SMTT(40) DEF EltQuits, EltEnter, EltParts, EltTypes
  <2>5. QED
    BY <2>1, <2>2, <2>3, <2>4
<1>4. CASE EltLeave(t)
  <2>1. elt' \in EltTypes
    BY <1>4, Zenon DEF EltLeave, EltParts, EltTypes, EltPlaces, EltStarting
  <2>2. EltOwnStep(t)
    BY <1>4 DEF EltOwnStep, EltLeave, EltParts, EltTypes
  <2>3. EltGoesOn(t)
    BY <1>4 DEF EltGoesOn, EltLeave, EltParts, EltTypes
  <2>4. EltQuits(t)
    BY <1>4, SMTT(40) DEF EltQuits, EltLeave, EltParts, EltTypes
  <2>5. QED
    BY <2>1, <2>2, <2>3, <2>4
<1>5. CASE EltClear(t)
  <2>1. elt' \in EltTypes
    BY <1>5, Zenon DEF EltClear, EltParts, EltTypes, EltPlaces, EltStarting
  <2>2. EltOwnStep(t)
    BY <1>5 DEF EltOwnStep, EltClear, EltParts, EltTypes
  <2>3. EltGoesOn(t)
    BY <1>5 DEF EltGoesOn, EltClear, EltParts, EltTypes
  <2>4. EltQuits(t)
    BY <1>5, SMTT(40) DEF EltQuits, EltClear, EltParts, EltTypes
  <2>5. QED
    BY <2>1, <2>2, <2>3, <2>4
<1>6. CASE EltEnd(t)
  <2>1. elt' \in EltTypes
    BY <1>6, Zenon DEF EltEnd, EltParts, EltTypes, EltPlaces, EltStarting
  <2>2. EltOwnStep(t)
    BY <1>6 DEF EltOwnStep, EltEnd, EltParts, EltTypes
  <2>3. EltGoesOn(t)
    BY <1>6 DEF EltGoesOn, EltEnd, EltParts, EltTypes
  <2>4. EltQuits(t)
    BY <1>6, SMTT(40) DEF EltQuits, EltEnd, EltParts, EltTypes
  <2>5. QED
    BY <2>1, <2>2, <2>3, <2>4
<1>7. CASE EltAppQuit(t)
  <2>1. elt' \in EltTypes
    BY <1>7, Zenon DEF EltAppQuit, EltParts, EltTypes, EltPlaces, EltStarting
  <2>2. EltOwnStep(t)
    BY <1>7 DEF EltOwnStep, EltAppQuit, EltParts, EltTypes
  <2>3. EltGoesOn(t)
    BY <1>7 DEF EltGoesOn, EltAppQuit, EltParts, EltTypes
  <2>4. EltQuits(t)
    BY <1>7, SMTT(40) DEF EltQuits, EltAppQuit, EltParts, EltTypes
  <2>5. QED
    BY <2>1, <2>2, <2>3, <2>4
<1>8. QED
  BY <1>1, <1>2, <1>3, <1>4, <1>5, <1>6, <1>7, Zenon

\* Every step of the pool's threads keeps EltInv.
LEMMA EltThreadStep ==
  ASSUME EltParts, NEW t \in LoopThreads,
         EltTid(t) \/ EltCallback(t) \/ EltEnter(t) \/ EltLeave(t) \/ EltClear(t) \/ EltEnd(t) \/ EltAppQuit(t)
  PROVE  EltParts'
<1>1. elt' \in EltTypes
  BY EltThreadEffect, Zenon
<1>2. EltOwnStep(t)
  BY EltThreadEffect, Zenon
<1>3. EltGoesOn(t)
  BY EltThreadEffect, Zenon
<1>4. EltOrder(elt'.num, elt'.main, elt'.cur, elt'.loops)
  BY <1>2, Zenon DEF EltParts, EltOrdered, EltOrder, EltStarting, EltOwnStep
<1>5. EltStages(elt'.main, elt'.cur, Len(elt'.loops), elt'.at, elt'.loop)
  <2>1. EltStages(elt.main, elt.cur, Len(elt.loops), elt.at, elt.loop)
    BY DEF EltParts, EltStaged
  <2>2. \A o \in LoopThreads : elt'.loop[o] <=> elt'.at[o] \in {"enter", "loop", "left"}
    BY <1>2, <1>3, <2>1, ZenonT(40) DEF EltStages, EltOwnStep, EltGoesOn
  <2>3. \A o \in LoopThreads : o <= Len(elt.loops) => elt'.at[o] \notin {"none", "tid", "callback"}
    BY <1>2, <1>3, <2>1, ZenonT(40) DEF EltStages, EltOwnStep, EltGoesOn
  <2>4. \A o \in LoopThreads : elt.at[o] = "none" => elt'.at[o] = "none"
    BY <1>2, <1>3, ZenonT(40) DEF EltOwnStep, EltGoesOn
  <2>5. /\ elt'.cur = elt.cur /\ elt'.loops = elt.loops
        /\ elt'.main \in EltStarting => elt.main \in EltStarting
        /\ elt'.main = "start" => elt.main = "start"
    BY <1>2, Zenon DEF EltStarting, EltOwnStep
  <2>6. \A o \in LoopThreads :
          elt'.main \in EltStarting /\ (o > elt.cur \/ (o = elt.cur /\ elt'.main = "start")) => elt'.at[o] = "none"
    BY <2>1, <2>4, <2>5, Zenon DEF EltStages
  <2>7. QED
    BY <2>2, <2>3, <2>5, <2>6, Zenon DEF EltStages
<1>6. EltTurns(elt'.num, elt'.main, elt'.loops, elt'.next, elt'.gave)
  BY <1>2, ZenonT(40) DEF EltParts, EltTurned, EltTurns, EltStarting, EltOwnStep
<1>7. ASSUME ~elt'.appQuit  PROVE EltAlive(elt'.main, elt'.cur, elt'.at, elt'.quit, elt'.freed, elt'.fault)
  <2>1. EltQuits(t)
    BY EltThreadEffect, SMTT(40)
  <2>2. EltAlive(elt.main, elt.cur, elt.at, elt.quit, elt.freed, elt.fault)
    BY <1>7, <2>1, Zenon DEF EltQuits, EltParts, EltLives
  <2>3. ~elt'.fault
    BY <1>7, <2>1, <2>2, Zenon DEF EltAlive, EltQuits
  <2>4. \A o \in elt'.freed : elt'.at[o] = "gone"
    BY <1>2, <1>3, <2>2, EltShapes, ZenonT(40) DEF EltAlive, EltOwnStep, EltGoesOn
  <2>5. (elt'.quit[t] => elt.quit[t]) /\ (elt'.at[t] = "left" => elt.quit[t])
    BY <1>7, <2>1, ZenonT(40) DEF EltQuits
  <2>6. \A o \in LoopThreads : EltPassed(elt.main, elt.cur, o) => EltPassed(elt'.main, elt'.cur, o)
    BY <1>2, Zenon DEF EltPassed, EltEnding, EltOwnStep
  <2>7. \A o \in LoopThreads :
          elt'.quit[o] \/ elt'.at[o] \in {"left", "cleared", "gone"} => EltPassed(elt'.main, elt'.cur, o)
    BY <1>2, <1>3, <2>2, <2>5, <2>6, ZenonT(40) DEF EltAlive, EltOwnStep, EltGoesOn
  <2>8. QED
    BY <2>3, <2>4, <2>7, Zenon DEF EltAlive
<1>8. QED
  BY <1>1, <1>4, <1>5, <1>6, <1>7, Zenon DEF EltParts, EltOrdered, EltStaged, EltTurned, EltLives

\* start() makes the next thread: the thread exists, and nothing of it is published.
LEMMA EltStartLoopStep ==
  ASSUME EltParts, EltStartLoop
  PROVE  EltParts'
<1>1. elt.main = "start" /\ elt.cur <= elt.num /\ elt.cur \in LoopThreads
  BY EltNumbers, EltAssumption DEF EltStartLoop, LoopThreads
<1>2. /\ elt'.num = elt.num /\ elt'.main = "semwait" /\ elt'.cur = elt.cur /\ elt'.loops = elt.loops
      /\ elt'.next = elt.next /\ elt'.gave = elt.gave /\ elt'.loop = elt.loop /\ elt'.quit = elt.quit
      /\ elt'.freed = elt.freed /\ elt'.at = [elt.at EXCEPT ![elt.cur] = "tid"]
  BY DEF EltStartLoop, EltParts, EltTypes
<1>3. elt'.appQuit = elt.appQuit /\ elt'.fault = elt.fault
  BY DEF EltStartLoop, EltParts, EltTypes
<1>4. elt' \in EltTypes
  BY <1>1, ZenonT(40) DEF EltStartLoop, EltParts, EltTypes, EltPlaces, EltStarting
<1>5. EltOrder(elt.num, "semwait", elt.cur, elt.loops)
  BY EltNumbers, <1>1, Zenon DEF EltParts, EltOrdered, EltOrder, EltStarting
<1>6. EltStages("semwait", elt.cur, Len(elt.loops), elt'.at, elt.loop)
  BY EltNumbers, EltShapes, <1>1, <1>2, SMTT(40) DEF EltParts, EltStaged, EltStages, EltStarting
<1>7. EltTurns(elt.num, "semwait", elt.loops, elt.next, elt.gave)
  BY <1>1, Zenon DEF EltParts, EltTurned, EltTurns, EltStarting
<1>8. ~elt.appQuit => EltAlive("semwait", elt.cur, elt'.at, elt.quit, elt.freed, elt.fault)
  <2>1. elt.at[elt.cur] = "none" /\ \A t \in LoopThreads : ~EltPassed(elt.main, elt.cur, t)
    <3>1. EltStages(elt.main, elt.cur, Len(elt.loops), elt.at, elt.loop)
      BY Zenon DEF EltParts, EltStaged
    <3>2. QED
      BY EltNumbers, <1>1, <3>1, Zenon DEF EltStages, EltPassed, EltEnding, EltStarting
  <2>2. QED
    BY <1>2, <2>1, SMTT(40) DEF EltParts, EltLives, EltAlive
<1>9. QED
  BY <1>2, <1>3, <1>4, <1>5, <1>6, <1>7, <1>8, Zenon DEF EltParts, EltOrdered, EltStaged, EltTurned, EltLives

\* The base thread waits for the thread and for loop_, which moves nothing else.
LEMMA EltWaitStep ==
  ASSUME EltParts, EltSemWait \/ EltSpurious \/ (EltWaitLoop /\ ~elt.loop[elt.cur])
  PROVE  EltParts'
<1>1. PICK m \in {"wait", "asleep"} : elt' = [elt EXCEPT !.main = m]
  BY DEF EltSemWait, EltSpurious, EltWaitLoop
<1>2. elt.main \in {"semwait", "wait", "asleep"} /\ elt.cur \in LoopThreads /\ elt.cur <= elt.num
  BY EltNumbers DEF EltSemWait, EltSpurious, EltWaitLoop
<1>3. /\ elt'.num = elt.num /\ elt'.main = m /\ elt'.cur = elt.cur /\ elt'.loops = elt.loops
      /\ elt'.next = elt.next /\ elt'.gave = elt.gave /\ elt'.loop = elt.loop /\ elt'.quit = elt.quit
      /\ elt'.freed = elt.freed /\ elt'.at = elt.at
  BY <1>1 DEF EltParts, EltTypes
<1>4. elt'.appQuit = elt.appQuit /\ elt'.fault = elt.fault
  BY <1>1 DEF EltParts, EltTypes
<1>5. elt' \in EltTypes
  BY <1>1, Zenon DEF EltParts, EltTypes, EltStarting
<1>6. EltOrder(elt.num, m, elt.cur, elt.loops)
  BY EltNumbers, <1>2, Zenon DEF EltParts, EltOrdered, EltOrder, EltStarting
<1>7. EltStages(m, elt.cur, Len(elt.loops), elt.at, elt.loop)
  BY EltNumbers, EltShapes, <1>2, Zenon DEF EltParts, EltStaged, EltStages, EltStarting
<1>8. EltTurns(elt.num, m, elt.loops, elt.next, elt.gave)
  BY <1>2, Zenon DEF EltParts, EltTurned, EltTurns, EltStarting
<1>9. ~elt.appQuit => EltAlive(m, elt.cur, elt.at, elt.quit, elt.freed, elt.fault)
  BY EltShapes, <1>2, Zenon DEF EltParts, EltLives, EltAlive, EltPassed, EltEnding
<1>10. QED
  BY <1>3, <1>4, <1>5, <1>6, <1>7, <1>8, <1>9, Zenon DEF EltParts, EltOrdered, EltStaged, EltTurned, EltLives

\* loop_ is published: the loop joins loops_, after those of the threads before it.
LEMMA EltPublishedStep ==
  ASSUME EltParts, EltWaitLoop, elt.loop[elt.cur]
  PROVE  EltParts'
<1> DEFINE loops == Append(elt.loops, elt.cur)
<1>1. /\ elt.main = "wait" /\ elt.cur \in LoopThreads /\ elt.cur <= elt.num
      /\ elt' = [elt EXCEPT !.main = "start", !.cur = @ + 1, !.loops = loops]
  BY EltNumbers DEF EltWaitLoop
<1>2. loops \in Seq(LoopThreads) /\ Len(loops) = elt.cur /\ loops = [i \in 1..elt.cur |-> i]
  <2>1. elt.loops = [i \in 1..(elt.cur - 1) |-> i] /\ Len(elt.loops) = elt.cur - 1
    BY <1>1 DEF EltParts, EltOrdered, EltOrder, EltStarting
  <2>2. loops \in Seq(LoopThreads) /\ Len(loops) = elt.cur
    BY EltNumbers, <1>1, <2>1, SMTT(40)
  <2>3. \A i \in 1..elt.cur : loops[i] = i
    BY EltNumbers, <2>1
  <2>4. QED
    BY <2>2, <2>3
<1> HIDE DEF loops
<1>3. /\ elt'.num = elt.num /\ elt'.main = "start" /\ elt'.cur = elt.cur + 1 /\ elt'.loops = loops
      /\ elt'.next = elt.next /\ elt'.gave = elt.gave /\ elt'.loop = elt.loop /\ elt'.quit = elt.quit
      /\ elt'.freed = elt.freed /\ elt'.at = elt.at
  BY <1>1 DEF EltParts, EltTypes
<1>4. elt'.appQuit = elt.appQuit /\ elt'.fault = elt.fault
  BY <1>1, SMTT(40) DEF EltParts, EltTypes
<1>5. elt' \in EltTypes
  <2>1. elt.cur + 1 \in Nat
    BY EltNumbers
  <2>2. QED
    BY <1>1, <1>2, <2>1, Zenon DEF EltParts, EltTypes, EltStarting
<1>6. EltOrder(elt.num, "start", elt.cur + 1, loops)
  BY EltNumbers, <1>1, <1>2, SMTT(40) DEF EltOrder, EltStarting
<1>7. EltStages("start", elt.cur + 1, Len(loops), elt.at, elt.loop)
  BY EltNumbers, EltShapes, <1>1, <1>2, SMTT(40) DEF EltParts, EltStaged, EltStages, EltStarting, LoopThreads
<1>8. EltTurns(elt.num, "start", loops, elt.next, elt.gave)
  BY EltNumbers, <1>1, <1>2, SMTT(40) DEF EltParts, EltTurned, EltTurns, EltStarting
<1>9. ~elt.appQuit => EltAlive("start", elt.cur + 1, elt.at, elt.quit, elt.freed, elt.fault)
  BY EltShapes, <1>1, SMTT(40) DEF EltParts, EltLives, EltAlive, EltPassed, EltEnding
<1>10. QED
  BY <1>3, <1>4, <1>5, <1>6, <1>7, <1>8, <1>9, ZenonT(40) DEF EltParts, EltOrdered, EltStaged, EltTurned, EltLives

\* A step between two places of the base thread in which no loop starts or ends, once all
\* the threads are there: start() returns, the destructors begin, look at a loop, or end.
LEMMA EltMainStep ==
  ASSUME EltParts, EltStarted \/ EltDestroy \/ EltDestroyed \/ (EltTestLoop /\ elt.loop[elt.cur])
  PROVE  EltParts'
<1>1. PICK m \in {"started", "destroy", "destroyed", "quit"}, c \in {1, elt.cur} :
        /\ elt' = [elt EXCEPT !.main = m, !.cur = c]
        /\ m = "quit" => elt.cur <= elt.num
        /\ \/ elt.main = "start" /\ elt.cur > elt.num /\ m = "started"
           \/ elt.main = "started"
           \/ elt.main = "destroy" /\ m # "started" /\ c = elt.cur
  <2>1. CASE EltStarted
    <3>1. elt' = [elt EXCEPT !.main = "started", !.cur = elt.cur] /\ elt.main = "start" /\ elt.cur > elt.num
      BY <2>1, Zenon DEF EltStarted, EltParts, EltTypes
    <3>2. QED
      BY <3>1
  <2>2. CASE EltDestroy
    <3>1. elt' = [elt EXCEPT !.main = "destroy", !.cur = 1] /\ elt.main = "started"
      BY <2>2 DEF EltDestroy
    <3>2. QED
      BY <3>1
  <2>3. CASE EltDestroyed
    <3>1. elt' = [elt EXCEPT !.main = "destroyed", !.cur = elt.cur] /\ elt.main = "destroy"
      BY <2>3, Zenon DEF EltDestroyed, EltParts, EltTypes
    <3>2. QED
      BY <3>1
  <2>4. CASE EltTestLoop /\ elt.loop[elt.cur]
    <3>1. elt' = [elt EXCEPT !.main = "quit", !.cur = elt.cur] /\ elt.main = "destroy" /\ elt.cur <= elt.num
      BY <2>4, Zenon DEF EltTestLoop, EltParts, EltTypes
    <3>2. QED
      BY <3>1
  <2>5. QED
    BY <2>1, <2>2, <2>3, <2>4, SMTT(40)
<1>2. /\ elt'.num = elt.num /\ elt'.main = m /\ elt'.cur = c /\ elt'.loops = elt.loops
      /\ elt'.next = elt.next /\ elt'.gave = elt.gave /\ elt'.loop = elt.loop /\ elt'.quit = elt.quit
      /\ elt'.freed = elt.freed /\ elt'.at = elt.at
  BY <1>1 DEF EltParts, EltTypes
<1>3. elt'.appQuit = elt.appQuit /\ elt'.fault = elt.fault
  BY <1>1 DEF EltParts, EltTypes
<1>4. elt' \in EltTypes
  <2>1. c \in Nat /\ m \in EltStarting \cup {"started"} \cup EltEnding
    BY EltNumbers, <1>1, SMTT(40) DEF EltEnding
  <2>2. QED
    BY <1>1, <2>1, Zenon DEF EltParts, EltTypes
<1>5. m \notin EltStarting /\ (elt.main \in EltStarting => elt.main = "start" /\ elt.cur > elt.num)
  BY <1>1, SMTT(40) DEF EltStarting
<1>6. EltOrder(elt.num, m, c, elt.loops)
  <2>1. (IF elt.main \in EltStarting THEN elt.cur - 1 ELSE elt.num) = elt.num
    BY EltNumbers, <1>5, SMTT(40)
  <2>2. elt.loops = [i \in 1..elt.num |-> i]
    BY <2>1 DEF EltParts, EltOrdered, EltOrder
  <2>3. c \in 1..(elt.num + 1)
    BY EltNumbers, <1>1, SMTT(40)
  <2>4. m \in {"semwait", "wait", "asleep", "quit", "join"} => c <= elt.num
    BY EltNumbers, <1>1, SMTT(40)
  <2>5. QED
    BY <1>5, <2>2, <2>3, <2>4, Zenon DEF EltOrder
<1>7. EltStages(m, c, Len(elt.loops), elt.at, elt.loop)
  BY EltNumbers, EltShapes, <1>5, Zenon DEF EltParts, EltStaged, EltStages
<1>8. EltTurns(elt.num, m, elt.loops, elt.next, elt.gave)
  <2>1. CASE elt.main \in EltStarting
    <3>1. elt.gave = << >> /\ elt.next = 0
      BY <2>1, Zenon DEF EltParts, EltTurned, EltTurns
    <3>2. \A l \in 1..elt.num : Occurs(<< >>, l) = 0
      <4>1. \A k : {i \in DOMAIN << >> : << >>[i] = k} = {}
        BY SMTT(40)
      <4>2. QED
        BY <4>1, FS_EmptySet, Zenon DEF Occurs
    <3>3. \A l \in 1..elt.num : Occurs(elt.gave, l) = 0 + (IF l <= elt.next THEN 1 ELSE 0)
      BY <3>1, <3>2, SMTT(40)
    <3>4. 0 \in 0..Len(elt.gave)
      BY <3>1, SMTT(40)
    <3>5. QED
      BY <1>5, <3>3, <3>4, Zenon DEF EltParts, EltTurned, EltTurns
  <2>2. CASE elt.main \notin EltStarting
    BY <1>5, <2>2, Zenon DEF EltParts, EltTurned, EltTurns
  <2>3. QED
    BY <2>1, <2>2, SMTT(40)
<1>9. ~elt.appQuit => EltAlive(m, c, elt.at, elt.quit, elt.freed, elt.fault)
  <2>1. \A t \in LoopThreads : EltPassed(elt.main, elt.cur, t) => EltPassed(m, c, t)
    BY EltNumbers, <1>1, SMTT(40) DEF EltPassed, EltEnding
  <2>2. QED
    BY <2>1, Zenon DEF EltParts, EltLives, EltAlive
<1>10. QED
  BY <1>2, <1>3, <1>4, <1>6, <1>7, <1>8, <1>9, ZenonT(40) DEF EltParts, EltOrdered, EltStaged, EltTurned, EltLives

\* The destructor sets the quit_ of a loop that, unless the application has quit one, is
\* still there.
LEMMA EltQuitStep ==
  ASSUME EltParts, EltQuit
  PROVE  EltParts'
<1>1. elt.main = "quit" /\ elt.cur \in LoopThreads /\ elt.cur <= elt.num
  BY EltNumbers DEF EltQuit
<1>2. /\ elt'.num = elt.num /\ elt'.main = "join" /\ elt'.cur = elt.cur /\ elt'.loops = elt.loops
      /\ elt'.next = elt.next /\ elt'.gave = elt.gave /\ elt'.loop = elt.loop
      /\ elt'.quit = [elt.quit EXCEPT ![elt.cur] = TRUE] /\ elt'.freed = elt.freed /\ elt'.at = elt.at
  BY DEF EltQuit, EltParts, EltTypes
<1>3. elt'.appQuit = elt.appQuit /\ (elt'.fault <=> elt.fault \/ elt.at[elt.cur] = "gone")
  BY Zenon DEF EltQuit, EltParts, EltTypes
<1>4. elt' \in EltTypes
  BY <1>1, ZenonT(40) DEF EltQuit, EltParts, EltTypes, EltEnding
<1>5. EltOrder(elt.num, "join", elt.cur, elt.loops)
  BY EltNumbers, <1>1, Zenon DEF EltParts, EltOrdered, EltOrder, EltStarting
<1>6. EltStages("join", elt.cur, Len(elt.loops), elt.at, elt.loop)
  BY EltNumbers, EltShapes, <1>1, Zenon DEF EltParts, EltStaged, EltStages, EltStarting
<1>7. EltTurns(elt.num, "join", elt.loops, elt.next, elt.gave)
  BY <1>1, Zenon DEF EltParts, EltTurned, EltTurns, EltStarting
<1>8. ASSUME ~elt.appQuit  PROVE EltAlive("join", elt.cur, elt.at, elt'.quit, elt.freed, elt'.fault)
  <2>1. EltAlive("quit", elt.cur, elt.at, elt.quit, elt.freed, elt.fault)
    BY EltShapes, <1>1, <1>8, Zenon DEF EltParts, EltOrdered, EltStaged, EltTurned, EltLives
  <2>2. ~EltPassed("quit", elt.cur, elt.cur)
    BY EltNumbers, SMTT(40) DEF EltPassed
  <2>3. ~elt'.fault
    BY <1>1, <1>3, <2>1, <2>2, Zenon DEF EltAlive
  <2>4. \A t \in LoopThreads : EltPassed("quit", elt.cur, t) \/ t = elt.cur => EltPassed("join", elt.cur, t)
    BY EltNumbers, SMTT(40) DEF EltPassed, EltEnding
  <2>5. QED
    BY <1>2, <2>1, <2>3, <2>4, SMTT(40) DEF EltAlive
<1>9. QED
  BY <1>2, <1>3, <1>4, <1>5, <1>6, <1>7, <1>8, ZenonT(40) DEF EltParts, EltOrdered, EltStaged, EltTurned, EltLives

\* An EventLoopThread is freed: its thread is gone, unless the application has quit a loop.
LEMMA EltFreeStep ==
  ASSUME EltParts, elt.main \in {"destroy", "join"}, elt.cur <= elt.num, elt' = EltFree(elt.cur),
         ~elt.appQuit => elt.at[elt.cur] = "gone"
  PROVE  EltParts'
<1>1. elt.cur \in LoopThreads /\ elt.cur + 1 \in Nat
  BY EltNumbers, EltAssumption, SMTT(40) DEF LoopThreads
<1>2. /\ elt'.num = elt.num /\ elt'.main = "destroy" /\ elt'.cur = elt.cur + 1 /\ elt'.loops = elt.loops
      /\ elt'.next = elt.next /\ elt'.gave = elt.gave /\ elt'.loop = elt.loop
      /\ elt'.quit = elt.quit /\ elt'.freed = elt.freed \cup {elt.cur} /\ elt'.at = elt.at
  BY DEF EltFree, EltParts, EltTypes
<1>3. elt'.appQuit = elt.appQuit /\ elt'.fault = elt.fault
  BY DEF EltFree, EltParts, EltTypes
<1>4. elt' \in EltTypes
  BY <1>1, ZenonT(40) DEF EltFree, EltParts, EltTypes, EltEnding
<1>5. EltOrder(elt.num, "destroy", elt.cur + 1, elt.loops)
  <2>1. EltOrder(elt.num, elt.main, elt.cur, elt.loops)
    BY Zenon DEF EltParts, EltOrdered
  <2>2. QED
    BY EltNumbers, <2>1, SMTT(40) DEF EltOrder, EltStarting
<1>6. EltStages("destroy", elt.cur + 1, Len(elt.loops), elt.at, elt.loop)
  <2>1. EltStages(elt.main, elt.cur, Len(elt.loops), elt.at, elt.loop)
    BY Zenon DEF EltParts, EltStaged
  <2>2. QED
    BY EltNumbers, EltShapes, <2>1, Zenon DEF EltStages, EltStarting
<1>7. EltTurns(elt.num, "destroy", elt.loops, elt.next, elt.gave)
  BY Zenon DEF EltParts, EltTurned, EltTurns, EltStarting
<1>8. ASSUME ~elt.appQuit
      PROVE  EltAlive("destroy", elt.cur + 1, elt.at, elt.quit, elt.freed \cup {elt.cur}, elt.fault)
  <2>1. \A t \in LoopThreads : EltPassed(elt.main, elt.cur, t) => EltPassed("destroy", elt.cur + 1, t)
    BY EltNumbers, SMTT(40) DEF EltPassed, EltEnding, LoopThreads
  <2>2. QED
    BY <1>8, <2>1, Zenon DEF EltParts, EltLives, EltAlive
<1>9. QED
  BY <1>2, <1>3, <1>4, <1>5, <1>6, <1>7, <1>8, ZenonT(40) DEF EltParts, EltOrdered, EltStaged, EltTurned, EltLives

\* getNextLoop hands out the loop at next_, and the loops before it stay one ahead.
LEMMA EltGetStep ==
  ASSUME EltParts, EltGetNextLoop
  PROVE  EltParts'
<1>1. elt.main = "started" /\ Len(elt.loops) = elt.num
  BY EltNumbers, SMTT(40) DEF EltGetNextLoop, EltStarting
<1>2. PICK l \in 0..MaxThreads, n \in Nat :
        /\ elt' = [elt EXCEPT !.gave = Append(elt.gave, l), !.next = n]
        /\ elt.loops # << >> => /\ l = elt.next + 1 /\ l \in 1..elt.num
                                /\ n = IF l >= elt.num THEN 0 ELSE l
        /\ elt.loops = << >> => l = 0
  <2>1. CASE elt.loops = << >>
    <3>1. elt' = [elt EXCEPT !.gave = Append(elt.gave, 0), !.next = elt.next]
      BY <2>1, Zenon DEF EltGetNextLoop, EltParts, EltTypes, BaseLoop
    <3>2. 0 \in 0..MaxThreads /\ elt.next \in Nat
      BY EltNumbers, EltAssumption
    <3>3. QED
      BY <2>1, <3>1, <3>2, Zenon
  <2>2. CASE elt.loops # << >>
    <3>1. elt.next < elt.num
      BY <1>1, <2>2, Zenon DEF EltParts, EltTurned, EltTurns
    <3>2. elt.loops[elt.next + 1] = elt.next + 1
      <4>1. elt.loops = [i \in 1..elt.num |-> i]
        BY <1>1 DEF EltParts, EltOrdered, EltOrder, EltStarting
      <4>2. QED
        BY EltNumbers, <3>1, <4>1, SMTT(40)
    <3>3. EltWrap(elt.next + 1) = (IF elt.next + 1 >= elt.num THEN 0 ELSE elt.next + 1)
      BY <1>1, SMTT(40) DEF EltWrap
    <3> DEFINE l == elt.next + 1
               n == IF l >= elt.num THEN 0 ELSE l
    <3>4. l \in 0..MaxThreads /\ l \in 1..elt.num /\ n \in Nat
      BY EltNumbers, <3>1, EltAssumption, SMTT(40)
    <3>5. elt' = [elt EXCEPT !.gave = Append(elt.gave, l), !.next = n]
      BY <2>2, <3>2, <3>3, Zenon DEF EltGetNextLoop, EltParts, EltTypes
    <3>6. QED
      BY <2>2, <3>4, <3>5, ZenonT(40)
  <2>3. QED
    BY <2>1, <2>2, ZenonT(40)
<1> DEFINE gave == Append(elt.gave, l)
<1>3. gave \in Seq(0..MaxThreads) /\ Len(gave) = Len(elt.gave) + 1
  BY EltShapes
<1>4. \A k : /\ Occurs(elt.gave, k) \in Nat
             /\ l = k => Occurs(gave, k) = Occurs(elt.gave, k) + 1
             /\ l # k => Occurs(gave, k) = Occurs(elt.gave, k)
  <2>1. \A given \in Seq(0..MaxThreads), e \in 0..MaxThreads : \A k :
          /\ Occurs(given, k) \in Nat
          /\ e = k => Occurs(Append(given, e), k) = Occurs(given, k) + 1
          /\ e # k => Occurs(Append(given, e), k) = Occurs(given, k)
    BY OccursAppend, Zenon
  <2>2. elt.gave \in Seq(0..MaxThreads)
    BY EltShapes
  <2>3. QED
    BY <2>1, <2>2, Zenon
<1> HIDE DEF gave
<1>5. elt' = [elt EXCEPT !.gave = gave, !.next = n]
  BY <1>2 DEF gave
<1>6. /\ elt'.num = elt.num /\ elt'.main = elt.main /\ elt'.cur = elt.cur /\ elt'.loops = elt.loops
      /\ elt'.next = n /\ elt'.gave = gave /\ elt'.loop = elt.loop
      /\ elt'.quit = elt.quit /\ elt'.freed = elt.freed /\ elt'.at = elt.at
      /\ elt'.appQuit = elt.appQuit /\ elt'.fault = elt.fault
  BY <1>5 DEF EltParts, EltTypes
<1>7. elt' \in EltTypes
  BY <1>3, <1>5, ZenonT(40) DEF EltParts, EltTypes
<1>8. EltTurns(elt.num, elt.main, elt.loops, n, gave)
  <2>1. PICK base \in 0..Len(elt.gave) :
          \A k \in 1..elt.num : Occurs(elt.gave, k) = base + (IF k <= elt.next THEN 1 ELSE 0)
    BY <1>1, Zenon DEF EltParts, EltTurned, EltTurns, EltStarting
  <2>2. CASE elt.loops = << >>
    <3>1. elt.num = 0
      BY <1>1, <2>2, SMTT(40)
    <3>2. QED
      BY <1>1, <1>3, <2>1, <2>2, <3>1, SMTT(40) DEF EltTurns, EltStarting
  <2>3. CASE elt.loops # << >> /\ l < elt.num
    <3>1. n = l /\ l = elt.next + 1
      BY EltNumbers, <1>2, <2>3, SMTT(40)
    <3>2. \A k \in 1..elt.num : Occurs(gave, k) = base + (IF k <= n THEN 1 ELSE 0)
      <4> SUFFICES ASSUME NEW k \in 1..elt.num  PROVE Occurs(gave, k) = base + (IF k <= n THEN 1 ELSE 0)
        BY SMTT(40)
      <4>1. Occurs(elt.gave, k) = base + (IF k <= elt.next THEN 1 ELSE 0) /\ elt.next \in Nat
        BY EltNumbers, <2>1, SMTT(40)
      <4>2. CASE k = l
        BY <1>4, <3>1, <4>1, <4>2, SMTT(40)
      <4>3. CASE k # l
        BY <1>4, <3>1, <4>1, <4>3, SMTT(40)
      <4>4. QED
        BY <4>2, <4>3, SMTT(40)
    <3>3. base \in 0..Len(gave)
      BY <1>3, SMTT(40)
    <3>4. QED
      BY <1>1, <2>3, <3>1, <3>2, <3>3, SMTT(40) DEF EltTurns, EltStarting
  <2>4. CASE elt.loops # << >> /\ ~(l < elt.num)
    <3>1. n = 0 /\ l = elt.next + 1 /\ l = elt.num
      BY EltNumbers, <1>2, <2>4, SMTT(40)
    <3>2. \A k \in 1..elt.num : Occurs(gave, k) = (base + 1) + (IF k <= n THEN 1 ELSE 0)
      <4> SUFFICES ASSUME NEW k \in 1..elt.num  PROVE Occurs(gave, k) = (base + 1) + (IF k <= n THEN 1 ELSE 0)
        BY SMTT(40)
      <4>1. Occurs(elt.gave, k) = base + (IF k <= elt.next THEN 1 ELSE 0) /\ elt.next \in Nat
        BY EltNumbers, <2>1
      <4>2. CASE k = l
        BY <1>4, <3>1, <4>1, <4>2, SMTT(40)
      <4>3. CASE k # l
        BY <1>4, <3>1, <4>1, <4>3, SMTT(40)
      <4>4. QED
        BY <4>2, <4>3, SMTT(40)
    <3>3. base + 1 \in 0..Len(gave)
      BY <1>3
    <3>4. n < Len(elt.loops)
      BY <1>1, <1>2, <2>4, <3>1, SMTT(40)
    <3>5. QED
      BY <1>1, <3>2, <3>3, <3>4, Zenon DEF EltTurns, EltStarting
  <2>5. QED
    BY <2>2, <2>3, <2>4, Zenon
<1>9. QED
  BY <1>6, <1>7, <1>8, Zenon DEF EltParts, EltOrdered, EltStaged, EltTurned, EltLives

\* Every step keeps EltInv.
LEMMA EltStep ==
  ASSUME EltParts, EltNext
  PROVE  EltParts'
<1>1. CASE EltTestLoop /\ ~elt.loop[elt.cur]
  <2>1. elt.main = "destroy" /\ elt.cur <= elt.num /\ elt' = EltFree(elt.cur) /\ elt.cur \in LoopThreads
    BY EltNumbers, <1>1, EltAssumption, SMTT(40) DEF EltTestLoop, LoopThreads
  <2>2. elt.at[elt.cur] \in {"cleared", "gone"}
    BY EltShapes, EltNumbers, <1>1, <2>1, Zenon DEF EltParts, EltStaged, EltStages, EltStarting, EltPlaces
  <2>3. ~EltPassed(elt.main, elt.cur, elt.cur)
    BY EltNumbers, <2>1, SMTT(40) DEF EltPassed
  <2>4. elt.appQuit
    BY <2>1, <2>2, <2>3, Zenon DEF EltParts, EltLives, EltAlive
  <2>5. QED
    BY <2>1, <2>4, EltFreeStep, SMTT(40)
<1>2. CASE EltJoin
  <2>1. elt.main = "join" /\ elt.cur <= elt.num /\ elt' = EltFree(elt.cur) /\ elt.at[elt.cur] = "gone"
    BY EltNumbers, <1>2, Zenon DEF EltJoin
  <2>2. QED
    BY <2>1, EltFreeStep, SMTT(40)
<1>3. CASE EltWaitLoop
  BY <1>3, EltWaitStep, EltPublishedStep, SMTT(40)
<1>4. QED
  BY <1>1, <1>2, <1>3, EltStartLoopStep, EltWaitStep, EltMainStep, EltGetStep, EltQuitStep, EltThreadStep, Zenon DEF EltNext

(* However many threads, and however often getNextLoop is called: connections *)
(* go to the loops in turn, a hash always finds a loop, and unless the        *)
(* application quits a loop itself the destructors quit loops that still      *)
(* exist and free nothing a thread still uses.                                *)
THEOREM LoopsAlwaysInUse == EltSpec => []EltLoopsInUse
<1>1. EltInit => EltInv
  <2> SUFFICES ASSUME EltInit  PROVE EltParts
    BY EltInvParts
  <2>1. /\ elt.num \in 0..MaxThreads /\ elt.main = "start" /\ elt.cur = 1 /\ elt.loops = << >> /\ elt.next = 0
        /\ elt.at = [t \in LoopThreads |-> "none"] /\ elt.loop = [t \in LoopThreads |-> FALSE]
        /\ elt.quit = [t \in LoopThreads |-> FALSE] /\ elt.freed = {} /\ elt.gave = << >>
        /\ elt.appQuit = FALSE /\ elt.forgot = FALSE /\ elt.fault = FALSE
    BY ZenonT(40) DEF EltInit
  <2>2. elt = [num |-> elt.num, main |-> elt.main, cur |-> elt.cur, loops |-> elt.loops, next |-> elt.next,
               at |-> elt.at, loop |-> elt.loop, quit |-> elt.quit, freed |-> elt.freed, gave |-> elt.gave,
               appQuit |-> elt.appQuit, forgot |-> elt.forgot, fault |-> elt.fault]
    BY Zenon DEF EltInit
  <2>3. elt \in EltTypes
    <3>1. /\ elt.main \in EltStarting /\ elt.at \in [LoopThreads -> EltPlaces]
          /\ elt.loop \in [LoopThreads -> BOOLEAN] /\ elt.quit \in [LoopThreads -> BOOLEAN]
      BY <2>1, Zenon DEF EltStarting, EltPlaces
    <3>2. /\ elt.num \in 0..MaxThreads /\ elt.cur \in Nat /\ elt.next \in Nat /\ elt.freed \in SUBSET LoopThreads
          /\ elt.loops \in Seq(LoopThreads) /\ elt.gave \in Seq(0..MaxThreads)
      BY <2>1
    <3>3. elt.appQuit \in BOOLEAN /\ elt.forgot \in BOOLEAN /\ elt.fault \in BOOLEAN
      BY <2>1, Zenon
    <3>4. QED
      BY <2>2, <3>1, <3>2, <3>3, Zenon DEF EltTypes
  <2>4. EltOrder(elt.num, elt.main, elt.cur, elt.loops)
    BY <2>1, EltAssumption, SMTT(40) DEF EltOrder, EltStarting
  <2>5. EltStages(elt.main, elt.cur, Len(elt.loops), elt.at, elt.loop)
    BY <2>1, SMTT(40) DEF EltStages, LoopThreads
  <2>6. EltTurns(elt.num, elt.main, elt.loops, elt.next, elt.gave)
    BY <2>1, SMTT(40) DEF EltTurns, EltStarting
  <2>7. EltAlive(elt.main, elt.cur, elt.at, elt.quit, elt.freed, elt.fault)
    BY <2>1, Zenon DEF EltAlive
  <2>8. QED
    BY <2>3, <2>4, <2>5, <2>6, <2>7, Zenon DEF EltParts, EltOrdered, EltStaged, EltTurned, EltLives
<1>2. EltInv /\ [EltNext]_elt => EltInv'
  <2>1. EltInv /\ EltNext => EltInv'
    BY EltStep, EltInvParts
  <2>2. EltInv /\ elt' = elt => EltInv'
    <3>1. EltParts /\ elt' = elt => EltParts'
      BY Zenon DEF EltParts, EltOrdered, EltStaged, EltTurned, EltLives
    <3>2. QED
      BY <3>1, EltInvParts
  <2>3. QED
    BY <2>1, <2>2
<1>3. EltInv => EltLoopsInUse
  <2> SUFFICES ASSUME EltParts  PROVE EltLoopsInUse
    BY EltInvParts, SMTT(40)
  <2>1. EltNothingDeadIsUsed
    BY Zenon DEF EltNothingDeadIsUsed, EltParts, EltLives, EltAlive
  <2>2. elt.loops # << >> => elt.next < Len(elt.loops)
    BY SMTT(40) DEF EltParts, EltTurned, EltTurns
  <2>3. ASSUME elt.main \in {"started", "destroy", "destroyed"}
        PROVE  LET all == EltGetAllLoops
               IN  /\ Len(all) = IF elt.num = 0 THEN 1 ELSE elt.num
                   /\ \A i, j \in DOMAIN all : EltTimes(all[i]) <= EltTimes(all[j]) + 1
                   /\ \A h \in 0..MaxThreads : \E i \in DOMAIN all : EltGetLoopForHash(h) = all[i]
    <3>1. Len(elt.loops) = elt.num /\ elt.num \in Nat /\ elt.loops = [i \in 1..elt.num |-> i]
      BY <2>3, EltNumbers, EltShapes, Zenon DEF EltParts, EltOrdered, EltOrder, EltStarting
    <3>2. PICK base \in Nat : \A l \in 1..elt.num : EltTimes(l) = base + (IF l <= elt.next THEN 1 ELSE 0)
      <4>1. PICK base \in 0..Len(elt.gave) :
              \A l \in 1..elt.num : Occurs(elt.gave, l) = base + (IF l <= elt.next THEN 1 ELSE 0)
        BY <2>3, Zenon DEF EltParts, EltTurned, EltTurns, EltStarting
      <4>2. base \in Nat
        BY EltNumbers, EltShapes, SMTT(40)
      <4>3. \A l \in 1..elt.num : EltTimes(l) = Occurs(elt.gave, l)
        BY DEF EltTimes, Occurs
      <4>4. QED
        BY <4>1, <4>2, <4>3, ZenonT(40)
    <3>3. EltTimes(0) \in Nat
      <4>1. Occurs(elt.gave, 0) \in Nat
        BY OccursAppend, EltShapes, EltAssumption, SMTT(40)
      <4>2. QED
        BY <4>1, SMTT(40) DEF Occurs, EltTimes
    <3>4. CASE elt.loops = << >>
      BY <3>1, <3>3, <3>4, SMTT(40) DEF EltGetAllLoops, EltGetLoopForHash, BaseLoop
    <3>5. CASE elt.loops # << >>
      <4>1. elt.num > 0 /\ EltGetAllLoops = [i \in 1..elt.num |-> i]
        BY <3>1, <3>5, SMTT(40) DEF EltGetAllLoops
      <4>2. \A h \in 0..MaxThreads : (h % elt.num) + 1 \in 1..elt.num
        BY <3>1, <4>1, EltAssumption, SMTT(40)
      <4>3. \A h \in 0..MaxThreads : EltGetLoopForHash(h) = (h % elt.num) + 1
        BY <3>1, <3>5, <4>2, SMTT(40) DEF EltGetLoopForHash
      <4>4. \A i, j \in 1..elt.num : EltTimes(i) <= EltTimes(j) + 1
        BY <3>2, EltNumbers, EltShapes, SMTT(40)
      <4>5. Len(EltGetAllLoops) = elt.num
        BY <3>1, <3>5, SMTT(40) DEF EltGetAllLoops
      <4>6. DOMAIN EltGetAllLoops = 1..elt.num /\ \A i \in 1..elt.num : EltGetAllLoops[i] = i
        BY <4>1, SMTT(40)
      <4>7. \A i, j \in DOMAIN EltGetAllLoops : EltTimes(EltGetAllLoops[i]) <= EltTimes(EltGetAllLoops[j]) + 1
        BY <4>4, <4>6, SMTT(40)
      <4>8. \A h \in 0..MaxThreads : \E i \in DOMAIN EltGetAllLoops : EltGetLoopForHash(h) = EltGetAllLoops[i]
        BY <4>2, <4>3, <4>6, SMTT(40)
      <4>9. Len(EltGetAllLoops) = IF elt.num = 0 THEN 1 ELSE elt.num
        <5>1. elt.num # 0
          BY <3>1, <4>1
        <5>2. QED
          BY <4>5, <5>1, SMTT(40)
      <4>10. QED
        BY <4>7, <4>8, <4>9, Zenon
    <3>6. QED
      BY <3>4, <3>5, Zenon
  <2>4. QED
    BY <2>1, <2>2, <2>3, SMTT(40) DEF EltLoopsInUse, EltRoundRobin
<1>4. QED
  BY <1>1, <1>2, <1>3, PTL DEF EltSpec

=============================================================================
