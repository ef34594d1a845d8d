-------------------------------- MODULE Thread --------------------------------
(***************************************************************************)
(* muduo/base Thread, CountDownLatch, MutexLock and Condition: start()     *)
(* creates a thread and waits on the latch_ inside the Thread object until *)
(* the new thread has stored its tid; the object may then be destroyed     *)
(* (which detaches) while the new thread runs on.  MutexLock and Condition *)
(* are taken apart here: every other model takes a critical section as one *)
(* step.                                                                   *)
(***************************************************************************)
EXTENDS Naturals

Creator == "creator"
Child == "child"
Nobody == "nobody"
Both == {Creator, Child}

VARIABLE thr

\* owner: of the pthread mutex; holder: MutexLock::holder_; count: of the latch; tid:
\* stored or not; at: the next statement of each thread; alive: the object exists.
ThreadInit == thr = [owner |-> Nobody, holder |-> Nobody, count |-> 1, tid |-> FALSE, alive |-> TRUE,
                     started |-> FALSE, joined |-> FALSE,
                     at |-> [t \in Both |-> IF t = Creator THEN "start" ELSE "none"]]

ThreadGo(t, a, b) == thr.at[t] = a /\ thr' = [thr EXCEPT !.at[t] = b]

\* Thread::start: pthread_create fails (LOG_SYSFATAL aborts) or a thread runs.
ThreadStart == /\ thr.at[Creator] = "start" /\ ~thr.started
               /\ \/ thr' = [thr EXCEPT !.at[Creator] = "aborted"]
                  \/ thr' = [thr EXCEPT !.started = TRUE,
                                        !.at = [t \in Both |-> IF t = Creator THEN "lock" ELSE "tid"]]

\* MutexLock::lock: pthread_mutex_lock, then assignHolder.
MutexAcquire(t) == /\ thr.at[t] = "lock" /\ thr.owner = Nobody
                   /\ thr' = [thr EXCEPT !.owner = t, !.at[t] = "assign"]

MutexAssign(t) == /\ thr.at[t] = "assign"
                  /\ thr' = [thr EXCEPT !.holder = t, !.at[t] = "locked"]

\* MutexLock::unlock: unassignHolder, then pthread_mutex_unlock.
MutexUnassign(t) == /\ thr.at[t] = "unlock"
                    /\ thr' = [thr EXCEPT !.holder = Nobody, !.at[t] = "release"]

MutexRelease(t) == /\ thr.at[t] = "release"
                   /\ thr' = [thr EXCEPT !.owner = Nobody, !.at[t] = "unlocked"]

\* Condition::wait: UnassignGuard's constructor, then pthread_cond_wait, which releases
\* the mutex and sleeps in one step, and UnassignGuard's destructor (MutexAssign).
CondUnassign_Forgotten == thr.at[Creator] = "wait" /\ thr' = [thr EXCEPT !.at[Creator] = "condwait"]
CondUnassign == /\ thr.at[Creator] = "wait"
                /\ thr' = [thr EXCEPT !.holder = Nobody, !.at[Creator] = "condwait"]

CondWait == /\ thr.at[Creator] = "condwait"
            /\ thr' = [thr EXCEPT !.owner = Nobody, !.at[Creator] = "asleep"]

\* A spurious wake-up, or the end of a wait that notifyAll has signalled.
CondSpurious == ThreadGo(Creator, "asleep", "lock")

\* CountDownLatch::wait, its loop; and countDown, which signals inside the mutex.
LatchWait_If == /\ thr.at[Creator] = "locked"
                /\ thr' = [thr EXCEPT !.at[Creator] = "unlock"]
LatchWait == /\ thr.at[Creator] = "locked"
             /\ thr' = [thr EXCEPT !.at[Creator] = IF thr.count > 0 THEN "wait" ELSE "unlock"]

LatchNotifyAll_Never(at) == at
LatchNotifyAll(at) == [at EXCEPT ![Creator] = IF @ = "asleep" THEN "lock" ELSE @]

LatchCountDown == /\ thr.at[Child] = "locked"
                  /\ thr' = [thr EXCEPT !.count = @ - 1,
                                        !.at = [IF thr.count = 1 THEN LatchNotifyAll(thr.at) ELSE thr.at
                                                EXCEPT ![Child] = "unlock"]]

\* ThreadData::runInThread: the tid first, then the latch, then the function, which
\* returns or throws (the process then aborts).
ThreadStoreTid == /\ thr.at[Child] = "tid"
                  /\ thr' = [thr EXCEPT !.tid = TRUE, !.at[Child] = "lock"]

ThreadFunc == /\ thr.at[Child] = "unlocked"
              /\ \E end \in {"finished", "crashed"} : thr' = [thr EXCEPT !.at[Child] = end]

\* start() has returned: join, which returns when the thread has finished, and the
\* destructor, which detaches a thread that is not joined.
ThreadJoin == /\ thr.at[Creator] = "unlocked" /\ thr.alive /\ ~thr.joined
              /\ thr' = [thr EXCEPT !.joined = TRUE, !.at[Creator] = "join"]

ThreadJoined == /\ thr.at[Child] = "finished"
                /\ ThreadGo(Creator, "join", "unlocked")

ThreadDestroy == /\ thr.at[Creator] = "unlocked" /\ thr.alive
                 /\ thr' = [thr EXCEPT !.alive = FALSE]

ThreadNext == \/ ThreadStart \/ CondUnassign \/ CondWait \/ CondSpurious
              \/ LatchWait \/ LatchCountDown \/ ThreadStoreTid \/ ThreadFunc
              \/ ThreadJoin \/ ThreadJoined \/ ThreadDestroy
              \/ \E t \in Both : \/ MutexAcquire(t) \/ MutexAssign(t)
                                 \/ MutexUnassign(t) \/ MutexRelease(t)

ThreadSpec == ThreadInit /\ [][ThreadNext]_thr

(* MutexLock::isLockedByThisThread never answers yes to a thread that does    *)
(* not own the mutex, a wait on a condition included: nobody owns it then.    *)
MutexHolderIsOwner == thr.holder # Nobody => thr.owner = thr.holder

(* The new thread is through with the latch before the Thread object, which   *)
(* holds the latch, can be destroyed, and start() returns with the tid known. *)
ThreadLatchOutlivesUse ==
  /\ ~thr.alive => thr.at[Child] \in {"unlocked", "finished", "crashed"}
  /\ thr.at[Creator] \in {"unlocked", "join"} => thr.tid

\* The places of the two threads, and among them: between lock and unlock of the
\* pthread mutex; where holder_ may be set; past the latch, for the new thread; and
\* past the wait, for the creator.
CreatorPlaces == {"start", "aborted", "lock", "assign", "locked", "wait", "condwait", "asleep",
                  "unlock", "release", "unlocked", "join"}
ChildPlaces == {"none", "tid", "lock", "assign", "locked", "unlock", "release", "unlocked",
                "finished", "crashed"}
Owning == {"assign", "locked", "wait", "condwait", "unlock", "release"}
Holding == {"locked", "wait", "unlock"}
PastLatch == {"unlocked", "finished", "crashed"}
PastWait == {"unlock", "release", "unlocked", "join"}

(* Why the handshake holds, as an invariant every step keeps.  The thread      *)
(* between lock and unlock owns the mutex and holder_ is set only there.  The  *)
(* latch is at 1 until the new thread, its tid stored, has counted it down in  *)
(* the mutex; so the creator, which sees 0 in the mutex too, is past its wait  *)
(* only when the new thread is past the latch.                                 *)
ThreadInv ==
  /\ thr \in [owner : Both \cup {Nobody}, holder : Both \cup {Nobody}, count : {0, 1}, tid : BOOLEAN,
              alive : BOOLEAN, started : BOOLEAN, joined : BOOLEAN,
              at : [Both -> CreatorPlaces \cup ChildPlaces]]
  /\ thr.at[Creator] \in CreatorPlaces /\ thr.at[Child] \in ChildPlaces
  /\ \A t \in Both : thr.owner = t <=> thr.at[t] \in Owning
  /\ thr.holder # Nobody => thr.at[thr.holder] \in Holding
  /\ thr.count = 1 <=> thr.at[Child] \in {"none", "tid", "lock", "assign", "locked"}
  /\ ~thr.started => thr.at[Child] = "none"
  /\ thr.at[Child] \notin {"none", "tid"} => thr.tid
  /\ thr.at[Creator] \in PastWait => thr.at[Child] \in PastLatch
  /\ ~thr.alive => thr.at[Creator] = "unlocked"

(* start() returns, or has aborted: the latch's signal is not lost.           *)
ThreadStartReturns == thr.at[Creator] = "lock" ~> thr.at[Creator] = "unlocked"

(* Starting a thread is a sound handshake: the latch and its mutex are used    *)
(* only by their owner and only while they exist.                             *)
ThreadHandshake == MutexHolderIsOwner /\ ThreadLatchOutlivesUse
=============================================================================
