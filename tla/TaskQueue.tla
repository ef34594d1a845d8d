------------------------------ MODULE TaskQueue ------------------------------
(***************************************************************************)
(* What an EventLoop promises the threads that hand callbacks to it, with  *)
(* no threads, wake-ups or locks: a FIFO of submitted tasks that one       *)
(* executor runs in order, each at most once, until it stops.  The         *)
(* executor may also run a task of its own at once, out of the queue       *)
(* (EventLoop::runInLoop called in the loop's own thread).                 *)
(***************************************************************************)
EXTENDS Sequences, Functions

CONSTANT Functors   \* the callbacks; one value per submission

VARIABLES
  waiting,   \* submitted and not yet run, oldest first
  done,      \* run, in the order they were run
  stopped    \* the executor runs nothing any more

tqVars == <<waiting, done, stopped>>

TypeOK ==
  /\ waiting \in Seq(Functors)
  /\ done \in Seq(Functors)
  /\ stopped \in BOOLEAN

Init ==
  /\ waiting = <<>>
  /\ done = <<>>
  /\ stopped = FALSE

New(f) == f \notin Range(waiting) \cup Range(done)

Submit(f) ==
  /\ New(f)
  /\ waiting' = Append(waiting, f)
  /\ UNCHANGED <<done, stopped>>

RunNow(f) ==
  /\ ~stopped
  /\ New(f)
  /\ done' = Append(done, f)
  /\ UNCHANGED <<waiting, stopped>>

RunNext ==
  /\ ~stopped
  /\ waiting # <<>>
  /\ done' = Append(done, Head(waiting))
  /\ waiting' = Tail(waiting)
  /\ UNCHANGED stopped

Stop ==
  /\ ~stopped
  /\ stopped' = TRUE
  /\ UNCHANGED <<waiting, done>>

Next ==
  \/ \E f \in Functors : Submit(f) \/ RunNow(f)
  \/ RunNext
  \/ Stop

Spec == Init /\ [][Next]_tqVars
=============================================================================
