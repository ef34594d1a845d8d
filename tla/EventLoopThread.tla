--------------------------- MODULE EventLoopThread ---------------------------
(***************************************************************************)
(* EventLoopThreadPool and its EventLoopThreads: start() makes the threads *)
(* one by one and waits for each to publish its EventLoop through loop_;   *)
(* connections are handed to the loops in turn; the destructors quit and   *)
(* join the threads.  What a loop does is reduced to loop()'s reset of     *)
(* quit_, and its end once quit_ is seen (the wake-up that makes it see    *)
(* quit_ is the subject of module EventLoop).                              *)
(***************************************************************************)
EXTENDS Naturals, Sequences, FiniteSets

CONSTANTS MaxThreads, \* numThreads_ is anything up to it
          MaxGets     \* bound: calls of getNextLoop

ASSUME EltAssumption == MaxThreads \in Nat /\ MaxGets \in Nat

BaseLoop == 0
LoopThreads == 1..MaxThreads

VARIABLE elt

\* main: the base thread's next statement, for thread cur; at[t]: the place of thread t
\* in threadFunc; loop[t]: whether loop_ points to its EventLoop; quit[t]: quit_;
\* appQuit: the application quit a loop itself; forgot: loop() has overwritten a quit;
\* gave: what getNextLoop returned; fault: a dead loop or object was used.
EltInit == elt \in [num : 0..MaxThreads, main : {"start"}, cur : {1}, loops : {<< >>}, next : {0},
                    at : {[t \in LoopThreads |-> "none"]}, loop : {[t \in LoopThreads |-> FALSE]},
                    quit : {[t \in LoopThreads |-> FALSE]}, freed : {{}},
                    gave : {<< >>}, appQuit : {FALSE}, forgot : {FALSE}, fault : {FALSE}]

\* startLoop: Thread::start waits for the thread's tid, then loop_ is waited for.
EltStartLoop == /\ elt.main = "start" /\ elt.cur <= elt.num
                /\ elt' = [elt EXCEPT !.at[elt.cur] = "tid", !.main = "semwait"]

EltTid(t) == elt.at[t] = "tid" /\ elt' = [elt EXCEPT !.at[t] = "callback"]

EltSemWait == /\ elt.main = "semwait" /\ elt.at[elt.cur] # "tid"
              /\ elt' = [elt EXCEPT !.main = "wait"]

EltWaitLoop == /\ elt.main = "wait"
               /\ elt' = IF elt.loop[elt.cur]
                         THEN [elt EXCEPT !.main = "start", !.cur = @ + 1,
                                          !.loops = Append(@, elt.cur)]
                         ELSE [elt EXCEPT !.main = "asleep"]

EltSpurious == elt.main = "asleep" /\ elt' = [elt EXCEPT !.main = "wait"]

\* threadFunc: the EventLoop and callback_, then loop_ is set and signalled in the mutex.
EltPublish_NoSignal(t) == [elt EXCEPT !.at[t] = "enter", !.loop[t] = TRUE]
EltPublish(t) == [elt EXCEPT !.at[t] = "enter", !.loop[t] = TRUE,
                             !.main = IF @ = "asleep" THEN "wait" ELSE @]

EltCallback(t) == elt.at[t] = "callback" /\ elt' = EltPublish(t)

\* EventLoop::loop: quit_ = false, then it runs until it sees quit_.
EltEnter(t) == /\ elt.at[t] = "enter"
               /\ elt' = [elt EXCEPT !.at[t] = "loop", !.forgot = @ \/ elt.quit[t], !.quit[t] = FALSE]

EltLeave(t) == elt.at[t] = "loop" /\ elt.quit[t] /\ elt' = [elt EXCEPT !.at[t] = "left"]

\* loop_ = nullptr under the mutex, then the mutex is released and the loop destroyed.
EltClear(t) == elt.at[t] = "left" /\ elt' = [elt EXCEPT !.at[t] = "cleared", !.loop[t] = FALSE]

EltEnd(t) == /\ elt.at[t] = "cleared"
             /\ elt' = [elt EXCEPT !.at[t] = "gone", !.fault = @ \/ t \in elt.freed]

\* A handler of the application quits its own loop.
EltAppQuit(t) == /\ elt.at[t] = "loop" /\ ~elt.quit[t]
                 /\ elt' = [elt EXCEPT !.quit[t] = TRUE, !.appQuit = TRUE]

EltStarted == /\ elt.main = "start" /\ elt.cur > elt.num
              /\ elt' = [elt EXCEPT !.main = "started"]

EltWrap_Late(n) == IF n > Len(elt.loops) THEN 0 ELSE n
EltWrap(n) == IF n >= Len(elt.loops) THEN 0 ELSE n

EltGetNextLoop == /\ elt.main = "started" /\ Len(elt.gave) < MaxGets
                  /\ elt' = IF elt.loops = << >> THEN [elt EXCEPT !.gave = Append(@, BaseLoop)]
                            ELSE [elt EXCEPT !.gave = Append(@, elt.loops[elt.next + 1]),
                                             !.next = EltWrap(elt.next + 1)]

EltGetLoopForHash(h) == IF elt.loops = << >> THEN BaseLoop ELSE elt.loops[(h % Len(elt.loops)) + 1]

EltGetAllLoops == IF elt.loops = << >> THEN <<BaseLoop>> ELSE elt.loops

\* The destructors, in the order of threads_: loop_ is read without the mutex.
EltDestroy == /\ elt.main = "started"
              /\ elt' = [elt EXCEPT !.main = "destroy", !.cur = 1]

EltFree(t) == [elt EXCEPT !.main = "destroy", !.cur = @ + 1, !.freed = @ \cup {t}]

EltTestLoop == /\ elt.main = "destroy" /\ elt.cur <= elt.num
               /\ elt' = IF elt.loop[elt.cur] THEN [elt EXCEPT !.main = "quit"] ELSE EltFree(elt.cur)

EltQuit == /\ elt.main = "quit"
           /\ elt' = [elt EXCEPT !.quit[elt.cur] = TRUE, !.main = "join",
                                 !.fault = @ \/ elt.at[elt.cur] = "gone"]

EltJoin_Detach == elt.main = "join" /\ elt' = EltFree(elt.cur)
EltJoin == /\ elt.main = "join" /\ elt.at[elt.cur] = "gone"
           /\ elt' = EltFree(elt.cur)

EltDestroyed == /\ elt.main = "destroy" /\ elt.cur > elt.num
                /\ elt' = [elt EXCEPT !.main = "destroyed"]

EltNext == \/ EltStartLoop \/ EltSemWait \/ EltWaitLoop \/ EltSpurious \/ EltStarted
           \/ EltGetNextLoop \/ EltDestroy \/ EltTestLoop \/ EltQuit \/ EltJoin \/ EltDestroyed
           \/ \E t \in LoopThreads : \/ EltTid(t) \/ EltCallback(t) \/ EltEnter(t) \/ EltLeave(t)
                                     \/ EltClear(t) \/ EltEnd(t) \/ EltAppQuit(t)

EltSpec == EltInit /\ [][EltNext]_elt

EltTimes(l) == Cardinality({i \in DOMAIN elt.gave : elt.gave[i] = l})

(* Connections go to the loops in turn: no loop is handed out more than once   *)
(* oftener than another, and a pool of no threads hands out the base loop.     *)
(* Every loop handed out was published, in the order of the threads.           *)
EltRoundRobin ==
  LET all == EltGetAllLoops
  IN  /\ elt.loops # << >> => elt.next < Len(elt.loops)
      /\ elt.main \in {"started", "destroy", "destroyed"} =>
           /\ Len(all) = IF elt.num = 0 THEN 1 ELSE elt.num
           /\ \A i, j \in DOMAIN all : EltTimes(all[i]) <= EltTimes(all[j]) + 1
           /\ \A h \in 0..MaxThreads : \E i \in DOMAIN all : EltGetLoopForHash(h) = all[i]

(* Unless the application ends a loop itself, the destructor quits a loop that *)
(* still exists, and frees the EventLoopThread, with its mutex_, only after    *)
(* the thread's last use of it.  (If it does, the unlocked test of loop_ lets  *)
(* either go wrong, as the comment in upstream's destructor concedes.)         *)
EltNothingDeadIsUsed ==
  ~elt.appQuit => /\ ~elt.fault
                  /\ \A t \in elt.freed : elt.at[t] = "gone"

(* startLoop returns unless the loop has already ended; the destructors return *)
(* unless loop() has overwritten the quit_ they set.                           *)
EltStartAndStop ==
  /\ elt.main \in {"semwait", "wait"} ~> elt.main = "start" \/ elt.appQuit
  /\ elt.main = "destroy" ~> elt.main = "destroyed" \/ elt.forgot

(* The loops handed out are the ones that were started, and alive.            *)
EltLoopsInUse == EltRoundRobin /\ EltNothingDeadIsUsed

EltStarting == {"start", "semwait", "wait", "asleep"}
EltEnding == {"destroy", "quit", "join", "destroyed"}
EltPlaces == {"none", "tid", "callback", "enter", "loop", "left", "cleared", "gone"}

\* The destructors have set thread t's quit_.
EltReached(t) == /\ elt.main \in EltEnding
                 /\ t < elt.cur \/ (t = elt.cur /\ elt.main = "join")

(* What EltLoopsInUse rests on, and every step keeps.  The loops are those of  *)
(* the threads started so far, each published before the next is made; the    *)
(* loops up to next_ have been handed out once more than the others; loop_ is  *)
(* set exactly while the EventLoop can be used; and unless the application     *)
(* quits a loop, only a loop the destructors have reached comes to an end.     *)
EltInv ==
  /\ elt \in [num : 0..MaxThreads, main : EltStarting \cup {"started"} \cup EltEnding, cur : Nat,
              loops : Seq(LoopThreads), next : Nat, at : [LoopThreads -> EltPlaces],
              loop : [LoopThreads -> BOOLEAN], quit : [LoopThreads -> BOOLEAN], freed : SUBSET LoopThreads,
              gave : Seq(0..MaxThreads), appQuit : BOOLEAN, forgot : BOOLEAN, fault : BOOLEAN]
  /\ elt.cur \in 1..(elt.num + 1)
  /\ elt.main \in {"semwait", "wait", "asleep", "quit", "join"} => elt.cur <= elt.num
  /\ elt.loops = [i \in 1..(IF elt.main \in EltStarting THEN elt.cur - 1 ELSE elt.num) |-> i]
  /\ \A t \in LoopThreads :
       /\ elt.loop[t] <=> elt.at[t] \in {"enter", "loop", "left"}
       /\ t <= Len(elt.loops) => elt.at[t] \notin {"none", "tid", "callback"}
       /\ elt.main \in EltStarting /\ (t > elt.cur \/ (t = elt.cur /\ elt.main = "start")) => elt.at[t] = "none"
  /\ IF elt.main \in EltStarting THEN elt.gave = << >> /\ elt.next = 0
     ELSE \E base \in 0..Len(elt.gave) : \A l \in 1..elt.num : EltTimes(l) = base + (IF l <= elt.next THEN 1 ELSE 0)
  /\ elt.loops # << >> => elt.next < Len(elt.loops)
  /\ ~elt.appQuit => /\ ~elt.fault
                     /\ \A t \in elt.freed : elt.at[t] = "gone"
                     /\ \A t \in LoopThreads :
                          elt.quit[t] \/ elt.at[t] \in {"left", "cleared", "gone"} => EltReached(t)
=============================================================================
