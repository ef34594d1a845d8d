------------------------------ MODULE MCThreads ------------------------------
(***************************************************************************)
(* The thread components, checked side by side: part says which of them    *)
(* this behaviour is about, and the others stay in their initial state.    *)
(***************************************************************************)
EXTENDS BlockingQueue, ThreadPool, Thread, AsyncLogging, EventLoopThread

VARIABLE part

vars == <<part, bq, pool, thr, log, elt>>

\* The components that are not part stay as they are.
Only(p) == /\ part = p
           /\ UNCHANGED part
           /\ IF p = "queue" THEN TRUE ELSE UNCHANGED bq
           /\ IF p = "pool" THEN TRUE ELSE UNCHANGED pool
           /\ IF p = "thread" THEN TRUE ELSE UNCHANGED thr
           /\ IF p = "log" THEN TRUE ELSE UNCHANGED log
           /\ IF p = "loops" THEN TRUE ELSE UNCHANGED elt

Init == /\ part \in {"queue", "pool", "thread", "log", "loops"}
        /\ QueueInit /\ (part # "queue" => ~bq.bounded)
        /\ PoolInit /\ (part # "pool" => pool.max = 0)
        /\ ThreadInit /\ LogInit
        /\ EltInit /\ (part # "loops" => elt.num = 0)

Next == \/ Only("queue") /\ QueueNext
        \/ Only("pool") /\ PoolNext
        \/ Only("thread") /\ ThreadNext
        \/ Only("log") /\ LogNext
        \/ Only("loops") /\ EltNext

Fairness == /\ \A p \in Putters : WF_vars(Only("queue") /\ QueueBoundedPut(p))
            /\ \A c \in Takers : WF_vars(Only("queue") /\ QueueBoundedTake(c))
            /\ \A w \in PoolWorkers : WF_vars(Only("pool") /\ (PoolLoop(w) \/ PoolTake(w) \/ PoolRunTask(w)))
            /\ \A c \in PoolClients : WF_vars(Only("pool") /\ pool.at[c] = "run" /\ PoolRun(c))
            /\ WF_vars(Only("pool") /\ PoolJoined)
            /\ WF_vars(Only("thread") /\ (\/ CondUnassign \/ CondWait \/ LatchWait \/ MutexAcquire(Creator)
                              \/ MutexAssign(Creator) \/ MutexUnassign(Creator) \/ MutexRelease(Creator)))
            /\ WF_vars(Only("thread") /\ (\/ LatchCountDown \/ ThreadStoreTid \/ MutexAssign(Child) \/ MutexUnassign(Child) \/ MutexRelease(Child)))
            /\ SF_vars(Only("thread") /\ MutexAcquire(Child))
            /\ WF_vars(Only("log") /\ (\/ LogLoop \/ LogLock \/ LogTimeout \/ LogSwap \/ LogWrite
                           \/ LogRefill1 \/ LogRefill2))
            /\ WF_vars(Only("log") /\ (LogNotify \/ LogJoined))
            /\ WF_vars(Only("loops") /\ (\/ EltStartLoop \/ EltSemWait \/ EltWaitLoop \/ EltTestLoop \/ EltQuit
                             \/ EltJoin \/ EltDestroyed))
            /\ \A t \in LoopThreads : WF_vars(Only("loops") /\ (\/ EltTid(t) \/ EltCallback(t) \/ EltEnter(t)
                                                    \/ EltLeave(t) \/ EltClear(t) \/ EltEnd(t)))

Spec == Init /\ [][Next]_vars /\ Fairness

(* Nobody waits for ever: blocked put and run, start, stop, join and the lines *)
(* of the log all get there, each under the conditions its module states.      *)
ThreadsProgress ==
  /\ QueueBlockedPutReturns /\ PoolProgress /\ ThreadStartReturns
  /\ LogProgress /\ EltStartAndStop
=============================================================================
