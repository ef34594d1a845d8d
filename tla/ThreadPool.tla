------------------------------ MODULE ThreadPool ------------------------------
(***************************************************************************)
(* muduo/base ThreadPool: run() hands tasks to workers through a queue     *)
(* bounded by maxQueueSize_; stop() clears running_, wakes the workers and *)
(* joins them.  A critical section is one step; running_ is also read      *)
(* outside the mutex, by the loop of runInThread.                          *)
(***************************************************************************)
EXTENDS Naturals, Sequences, FiniteSets

CONSTANTS PoolWorkers,   \* the threads start() can make
          PoolClients,   \* threads that call run()
          MaxQueueSizes, \* values given to setMaxQueueSize; 0 is unbounded
          MaxRuns        \* bound: calls of run per client

ASSUME PoolAssumption == /\ IsFiniteSet(PoolWorkers) /\ IsFiniteSet(PoolClients)
                         /\ PoolWorkers \cap PoolClients = {}
                         /\ MaxQueueSizes \subseteq Nat /\ MaxRuns \in Nat

VARIABLE pool

None == <<>>

\* at[w]: a worker is "new", at the loop test, entering or woken in "take", asleep on
\* "notEmpty", holding a "task", or gone ("exit"); at[c]: a client is "out", in "run"
\* (woken) or asleep on "notFull".  runs counts a client's finished calls, ran is
\* history: the tasks in the order they started.
PoolThreads == PoolWorkers \cup PoolClients
PoolInit == pool \in [max : MaxQueueSizes, threads : {{}}, running : {FALSE}, queue : {<< >>},
                      at : {[t \in PoolThreads |-> IF t \in PoolWorkers THEN "new" ELSE "out"]},
                      task : {[w \in PoolWorkers |-> None]}, runs : {[c \in PoolClients |-> 0]},
                      ran : {<< >>}, main : {"constructed"}]

PoolAt(at, place) == {t \in PoolThreads : at[t] = place}

\* Condition::notify and notifyAll; a woken thread is back in its call.
PoolNotify(at, cond, back) ==
  IF PoolAt(at, cond) = {} THEN {at} ELSE {[at EXCEPT ![t] = back] : t \in PoolAt(at, cond)}

PoolNotifyAll_One(at, cond, back) == CHOOSE a \in PoolNotify(at, cond, back) : TRUE
PoolNotifyAll(at, cond, back) ==
  [t \in PoolThreads |-> IF at[t] = cond THEN back ELSE at[t]]

\* start(): running_ is set, then threads are made one by one (there may be none);
\* the first may already sleep in take() when the next is made.
PoolStart == /\ pool.main = "constructed"
             /\ pool' = [pool EXCEPT !.main = "starting", !.running = TRUE]

PoolStartThread(w) == /\ pool.main = "starting" /\ pool.at[w] = "new"
                      /\ pool' = [pool EXCEPT !.threads = @ \cup {w}, !.at[w] = "loop"]

PoolStarted == pool.main = "starting" /\ pool' = [pool EXCEPT !.main = "started"]

PoolIsFull_OffByOne == pool.max > 0 /\ Len(pool.queue) > pool.max
PoolIsFull == pool.max > 0 /\ Len(pool.queue) >= pool.max

PoolSignals_IfEmpty(at) == IF pool.queue = << >> THEN PoolNotify(at, "notEmpty", "take") ELSE {at}
PoolSignals(at) == PoolNotify(at, "notEmpty", "take")

\* run(), called once start() has returned; without threads it runs the task itself.
PoolRun(c) ==
  LET task == <<c, pool.runs[c] + 1>>
  IN  /\ pool.main \notin {"constructed", "starting"}
      /\ pool.at[c] \in {"out", "run"} /\ pool.runs[c] < MaxRuns
      /\ \/ /\ pool.threads = {}
            /\ pool' = [pool EXCEPT !.ran = Append(@, task), !.runs[c] = @ + 1]
         \/ /\ pool.threads # {} /\ PoolIsFull
            /\ pool' = [pool EXCEPT !.at[c] = "notFull"]
         \/ /\ pool.threads # {} /\ ~PoolIsFull
            /\ \E at \in PoolSignals([pool.at EXCEPT ![c] = "out"]) :
                  pool' = [pool EXCEPT !.queue = Append(@, task), !.runs[c] = @ + 1, !.at = at]

\* The loop of runInThread tests running_ outside the mutex.
PoolLoop(w) == /\ pool.at[w] = "loop"
               /\ pool' = [pool EXCEPT !.at[w] = IF pool.running THEN "take" ELSE "exit"]

PoolPopped_Kept(queue) == IF pool.max > 0 THEN Tail(queue) ELSE queue
PoolPopped(queue) == Tail(queue)

PoolTake(w) ==
  /\ pool.at[w] = "take"
  /\ \/ /\ pool.queue = << >>
        /\ pool' = [pool EXCEPT !.at[w] = IF pool.running THEN "notEmpty" ELSE "loop"]
     \/ /\ pool.queue # << >>
        /\ LET at == [pool.at EXCEPT ![w] = "task"]
           IN  \E a \in IF pool.max > 0 THEN PoolNotify(at, "notFull", "run") ELSE {at} :
                  pool' = [pool EXCEPT !.task[w] = Head(pool.queue), !.queue = PoolPopped(@), !.at = a]

PoolRunTask(w) == /\ pool.at[w] = "task"
                  /\ pool' = [pool EXCEPT !.ran = Append(@, pool.task[w]), !.task[w] = None,
                                          !.at[w] = "loop"]

PoolSpurious(t) == /\ pool.at[t] \in {"notEmpty", "notFull"}
                   /\ pool' = [pool EXCEPT !.at[t] = IF t \in PoolWorkers THEN "take" ELSE "run"]

\* stop(), which the destructor also calls while running_; then the joins.
PoolStop == /\ pool.main = "started"
            /\ pool' = [pool EXCEPT !.main = "joining", !.running = FALSE,
                                    !.at = PoolNotifyAll(@, "notEmpty", "take")]

PoolJoined == /\ pool.main = "joining" /\ \A w \in pool.threads : pool.at[w] = "exit"
              /\ pool' = [pool EXCEPT !.main = "stopped"]

PoolNext == \/ PoolStart \/ PoolStarted \/ PoolStop \/ PoolJoined
            \/ \E w \in PoolWorkers : \/ PoolStartThread(w) \/ PoolLoop(w)
                                      \/ PoolTake(w) \/ PoolRunTask(w)
            \/ \E c \in PoolClients : PoolRun(c)
            \/ \E t \in PoolThreads : PoolSpurious(t)

PoolSpec == PoolInit /\ [][PoolNext]_pool

(* While the pool runs, a worker sleeps only if every queued task has another *)
(* worker on its way to take it, and a client sleeps in run() only if every   *)
(* free slot has another client on its way: one signal per task is enough.    *)
PoolNoSleeperForgotten ==
  /\ pool.running /\ PoolAt(pool.at, "notEmpty") # {} =>
       Cardinality(PoolAt(pool.at, "take")) >= Len(pool.queue)
  /\ PoolAt(pool.at, "notFull") # {} =>
       Cardinality(PoolAt(pool.at, "run")) + Len(pool.queue) >= pool.max

(* No worker sleeps once stop() has cleared running_: notifyAll under the    *)
(* mutex catches every one that had tested running_ before.                  *)
PoolNobodySleepsAfterStop ==
  pool.main \in {"joining", "stopped"} => PoolAt(pool.at, "notEmpty") = {}

(* The tasks of a client are run once each, and the queue never holds more    *)
(* than maxQueueSize_.                                                       *)
PoolEachTaskOnce ==
  LET places(k) == Cardinality({i \in DOMAIN pool.queue : pool.queue[i] = k})
                   + Cardinality({w \in PoolWorkers : pool.task[w] = k})
                   + Cardinality({i \in DOMAIN pool.ran : pool.ran[i] = k})
  IN  /\ \A c \in PoolClients, n \in 1..MaxRuns :
           places(<<c, n>>) = IF n <= pool.runs[c] THEN 1 ELSE 0
      /\ pool.max > 0 => Len(pool.queue) <= pool.max

(* stop() returns, if tasks do; unless the pool is stopped, a queued task is  *)
(* run and a client asleep in run() returns.  (A client asleep when stop() is *)
(* called is never woken and tasks still queued are dropped: stop() signals   *)
(* notEmpty_ only.)                                                          *)
PoolProgress ==
  /\ pool.main = "joining" ~> pool.main = "stopped"
  /\ pool.queue # << >> ~> pool.queue = << >> \/ ~pool.running
  /\ \A c \in PoolClients : pool.at[c] = "notFull" ~> pool.at[c] = "out" \/ ~pool.running

(* What run and take promise together, up to and through stop().              *)
PoolHandsOver == PoolNoSleeperForgotten /\ PoolNobodySleepsAfterStop /\ PoolEachTaskOnce

WorkerPlaces == {"new", "loop", "take", "notEmpty", "task", "exit"}
ClientPlaces == {"out", "run", "notFull"}
PoolTasks == PoolClients \X Nat

(* PoolHandsOver with what it rests on, which every step keeps: workers and   *)
(* clients sleep on conditions of their own, a worker holds a task from the   *)
(* time it takes it until it runs it, running_ is set from start() to stop(), *)
(* and no worker exists before.                                               *)
PoolInv ==
  /\ pool \in [max : Nat, threads : SUBSET PoolWorkers, running : BOOLEAN, queue : Seq(PoolTasks),
               at : [PoolThreads -> WorkerPlaces \cup ClientPlaces],
               task : [PoolWorkers -> PoolTasks \cup {None}], runs : [PoolClients -> Nat], ran : Seq(PoolTasks),
               main : {"constructed", "starting", "started", "joining", "stopped"}]
  /\ \A w \in PoolWorkers : /\ pool.at[w] \in WorkerPlaces
                            /\ pool.at[w] = "task" <=> pool.task[w] # None
                            /\ pool.main = "constructed" => pool.at[w] = "new"
  /\ \A c \in PoolClients : pool.at[c] \in ClientPlaces
  /\ pool.running <=> pool.main \in {"starting", "started"}
  /\ PoolHandsOver
=============================================================================
