------------------------------ MODULE EventLoop ------------------------------
(***************************************************************************)
(* One EventLoop (EventLoop.h, EventLoop.cc): the thread that owns it and  *)
(* runs loop(), and the other threads of the process, which call           *)
(* queueInLoop, runInLoop and quit on it.  A call is split where another   *)
(* thread can step in: after the critical section that appends to          *)
(* pendingFunctors_, and between `quit_ = true' and the write to the       *)
(* eventfd.  Which callbacks and functors do is up to the user: while one  *)
(* runs, the owner may make any sequence of these calls.                   *)
(*                                                                         *)
(* epoll and the eventfd are external: the eventfd is a counter, read and  *)
(* reset in one step; epoll is level-triggered and reports some non-empty  *)
(* set of ready descriptors, in any order.                                 *)
(***************************************************************************)
EXTENDS Naturals, Sequences, Functions

CONSTANTS
  Owner,        \* the thread that constructed the loop (threadId_)
  Others,       \* the other threads of the process
  Functors,     \* the callbacks handed to the loop, one value per call
  WakeupChannel,\* wakeupChannel_, the Channel of the eventfd
  IoChannels    \* every other Channel registered with the loop's Poller

ASSUME LoopAssumption ==
  /\ Owner \notin Others
  /\ WakeupChannel \notin IoChannels

VARIABLES
  looping_, quit_, callingPendingFunctors_,   \* the atomic_bools
  pendingFunctors_,   \* the vector behind mutex_
  activeChannels_,    \* what the last poll reported and is not handled yet
  wakeupFd_,          \* the counter of the eventfd
  functors,           \* the local vector of doPendingFunctors, what is left
  pc,                 \* where the owner is
  step,               \* where each thread is in queueInLoop or quit
  ran,                \* history: the functors run, in order
  early               \* history: queued by the owner before it called loop()

vars == <<looping_, quit_, callingPendingFunctors_, pendingFunctors_,
          activeChannels_, wakeupFd_, functors, pc, step, ran, early>>

flags == <<looping_, quit_, callingPendingFunctors_>>

Threads == Others \cup {Owner}

\* before: constructed, loop() not called.  start: looping_ is set, quit_ not
\* yet reset.  while: at the test of quit_.  poll: in epoll_wait.  dispatch: at
\* the head of the for over activeChannels_; callback: inside a Channel's
\* callback.  swap, run, functor: in doPendingFunctors, before the swap, at the
\* head of the for, inside a functor.  exited: loop() has returned.  aborted:
\* LOG_ERROR was reached, the process and all its threads are gone.
Locations == {"before", "start", "while", "poll", "dispatch", "callback",
              "swap", "run", "functor", "exited", "aborted"}

Steps == {"idle", "queued", "quitting"}

TypeOK ==
  /\ looping_ \in BOOLEAN
  /\ quit_ \in BOOLEAN
  /\ callingPendingFunctors_ \in BOOLEAN
  /\ pendingFunctors_ \in Seq(Functors)
  /\ activeChannels_ \in SUBSET (IoChannels \cup {WakeupChannel})
  /\ wakeupFd_ \in Nat
  /\ functors \in Seq(Functors)
  /\ pc \in Locations
  /\ step \in [Threads -> Steps]
  /\ ran \in Seq(Functors)
  /\ early \in SUBSET Functors

\* EventLoop::EventLoop: every flag false, the eventfd at 0 and its channel
\* registered for reading.
Init ==
  /\ looping_ = FALSE
  /\ quit_ = FALSE
  /\ callingPendingFunctors_ = FALSE
  /\ pendingFunctors_ = <<>>
  /\ activeChannels_ = {}
  /\ wakeupFd_ = 0
  /\ functors = <<>>
  /\ pc = "before"
  /\ step = [t \in Threads |-> "idle"]
  /\ ran = <<>>
  /\ early = {}

-----------------------------------------------------------------------------
(* Calls on the loop.                                                      *)

isInLoopThread(t) == t = Owner

\* The owner runs user code before loop() and inside callbacks and functors;
\* the other threads may call at any time.  A thread makes one call at a time.
CanCall(t) ==
  /\ step[t] = "idle"
  /\ pc # "aborted"
  /\ isInLoopThread(t) => pc \in {"before", "callback", "functor"}

Fresh(f) ==
  f \notin Range(pendingFunctors_) \cup Range(functors) \cup Range(ran)

\* wakeup(): write 1 to the eventfd.  (The write fails only when the counter
\* stands at 2^64 - 2.)
wakeup == wakeupFd_' = wakeupFd_ + 1

\* queueInLoop, to the end of its critical section.
queueInLoop(t, f) ==
  /\ CanCall(t)
  /\ Fresh(f)
  /\ pendingFunctors_' = Append(pendingFunctors_, f)
  /\ step' = [step EXCEPT ![t] = "queued"]
  /\ early' = IF isInLoopThread(t) /\ pc = "before" THEN early \cup {f} ELSE early
  /\ UNCHANGED <<flags, activeChannels_, wakeupFd_, functors, pc, ran>>

\* Mutant: the test `|| callingPendingFunctors_' is missing.
queueInLoopWakes_OthersOnly(t) == ~isInLoopThread(t)

\* The rest of queueInLoop: whom to wake.
queueInLoopWakes(t) == ~isInLoopThread(t) \/ callingPendingFunctors_

queueInLoopEnd(t) ==
  /\ step[t] = "queued"
  /\ pc # "aborted"
  /\ IF queueInLoopWakes(t) THEN wakeup ELSE UNCHANGED wakeupFd_
  /\ step' = [step EXCEPT ![t] = "idle"]
  /\ UNCHANGED <<flags, pendingFunctors_, activeChannels_, functors, pc, ran,
                 early>>

\* runInLoop: in the loop's own thread the functor runs at once.
runInLoop(t, f) ==
  IF isInLoopThread(t)
  THEN /\ CanCall(t)
       /\ Fresh(f)
       /\ ran' = Append(ran, f)
       /\ UNCHANGED <<flags, pendingFunctors_, activeChannels_, wakeupFd_,
                      functors, pc, step, early>>
  ELSE queueInLoop(t, f)

\* Bound: quit() is not called again while quit_ is set; such a call would
\* only add to the eventfd counter.
QuitBound == ~quit_

\* Mutant: quit() from another thread does not wake the loop.
quit_NoWakeup(t) ==
  /\ CanCall(t)
  /\ QuitBound
  /\ quit_' = TRUE
  /\ UNCHANGED <<looping_, callingPendingFunctors_, pendingFunctors_, step,
                 activeChannels_, wakeupFd_, functors, pc, ran, early>>

quit(t) ==
  /\ CanCall(t)
  /\ QuitBound
  /\ quit_' = TRUE
  /\ step' = [step EXCEPT ![t] = IF isInLoopThread(t) THEN "idle" ELSE "quitting"]
  /\ UNCHANGED <<looping_, callingPendingFunctors_, pendingFunctors_,
                 activeChannels_, wakeupFd_, functors, pc, ran, early>>

quitEnd(t) ==
  /\ step[t] = "quitting"
  /\ pc # "aborted"
  /\ wakeup
  /\ step' = [step EXCEPT ![t] = "idle"]
  /\ UNCHANGED <<flags, pendingFunctors_, activeChannels_, functors, pc, ran,
                 early>>

-----------------------------------------------------------------------------
(* loop() and doPendingFunctors(), in the owner's thread.                  *)

\* loop() sets looping_ and then clears quit_: two stores.
loopEnter ==
  /\ pc = "before"
  /\ step[Owner] = "idle"
  /\ looping_' = TRUE
  /\ pc' = "start"
  /\ UNCHANGED <<quit_, callingPendingFunctors_, pendingFunctors_,
                 activeChannels_, wakeupFd_, functors, step, ran, early>>

loopResetQuit ==
  /\ pc = "start"
  /\ quit_' = FALSE
  /\ pc' = "while"
  /\ UNCHANGED <<looping_, callingPendingFunctors_, pendingFunctors_,
                 activeChannels_, wakeupFd_, functors, step, ran, early>>

\* while (!quit_): leave, or clear activeChannels_ and poll.
loopTest ==
  /\ pc = "while"
  /\ IF quit_
     THEN pc' = "exited" /\ looping_' = FALSE /\ UNCHANGED activeChannels_
     ELSE pc' = "poll" /\ activeChannels_' = {} /\ UNCHANGED looping_
  /\ UNCHANGED <<quit_, callingPendingFunctors_, pendingFunctors_, wakeupFd_,
                 functors, step, ran, early>>

\* epoll_wait returns events: the eventfd's if its counter is positive, and
\* those of whatever other descriptors are ready.
Ready(io) == io \cup (IF wakeupFd_ > 0 THEN {WakeupChannel} ELSE {})

pollEvents ==
  /\ pc = "poll"
  /\ \E io \in SUBSET IoChannels :
       activeChannels_' \in SUBSET Ready(io) \ {{}}
  /\ pc' = "dispatch"
  /\ UNCHANGED <<flags, pendingFunctors_, wakeupFd_, functors, step, ran,
                 early>>

\* epoll_wait returns nothing: kPollTimeMs has passed, or a signal came.
pollNothing ==
  /\ pc = "poll"
  /\ wakeupFd_ = 0
  /\ pc' = "dispatch"
  /\ UNCHANGED <<flags, pendingFunctors_, activeChannels_, wakeupFd_, functors,
                 step, ran, early>>

\* Mutant: the eventfd's event is dispatched twice, once per direction.
handleRead_Twice ==
  /\ pc = "dispatch"
  /\ WakeupChannel \in activeChannels_
  /\ activeChannels_' \in {activeChannels_, activeChannels_ \ {WakeupChannel}}
  /\ wakeupFd_' = 0
  /\ pc' = IF wakeupFd_ = 0 THEN "aborted" ELSE "dispatch"
  /\ UNCHANGED <<flags, pendingFunctors_, functors, step, ran, early>>

\* Mutant: the read takes two units off a counter that may stand at one.
handleRead_Underflow ==
  /\ pc = "dispatch"
  /\ WakeupChannel \in activeChannels_
  /\ activeChannels_' = activeChannels_ \ {WakeupChannel}
  /\ wakeupFd_' = wakeupFd_ - 2
  /\ pc' = IF wakeupFd_ = 0 THEN "aborted" ELSE "dispatch"
  /\ UNCHANGED <<flags, pendingFunctors_, functors, step, ran, early>>

\* channel->handleEvent for the eventfd: EventLoop::handleRead.  A read of a
\* zero counter fails with EAGAIN and LOG_ERROR ends the process.
handleRead ==
  /\ pc = "dispatch"
  /\ WakeupChannel \in activeChannels_
  /\ activeChannels_' = activeChannels_ \ {WakeupChannel}
  /\ wakeupFd_' = 0
  /\ pc' = IF wakeupFd_ = 0 THEN "aborted" ELSE "dispatch"
  /\ UNCHANGED <<flags, pendingFunctors_, functors, step, ran, early>>

\* channel->handleEvent for another channel: user callbacks begin, and end.
handleEvent(c) ==
  /\ pc = "dispatch"
  /\ c \in activeChannels_ \ {WakeupChannel}
  /\ activeChannels_' = activeChannels_ \ {c}
  /\ pc' = "callback"
  /\ UNCHANGED <<flags, pendingFunctors_, wakeupFd_, functors, step, ran,
                 early>>

handleEventReturn ==
  /\ pc = "callback"
  /\ step[Owner] = "idle"
  /\ pc' = "dispatch"
  /\ UNCHANGED <<flags, pendingFunctors_, activeChannels_, wakeupFd_, functors,
                 step, ran, early>>

\* doPendingFunctors, statement by statement.
doPendingFunctors ==
  /\ pc = "dispatch"
  /\ activeChannels_ = {}
  /\ callingPendingFunctors_' = TRUE
  /\ pc' = "swap"
  /\ UNCHANGED <<looping_, quit_, pendingFunctors_, activeChannels_, wakeupFd_,
                 functors, step, ran, early>>

\* Mutant: the functors are copied out and pendingFunctors_ keeps them.
swapFunctors_Copy ==
  /\ pc = "swap"
  /\ functors' = pendingFunctors_
  /\ pc' = "run"
  /\ UNCHANGED <<flags, pendingFunctors_, activeChannels_, wakeupFd_, step, ran,
                 early>>

swapFunctors ==
  /\ pc = "swap"
  /\ functors' = pendingFunctors_
  /\ pendingFunctors_' = <<>>
  /\ pc' = "run"
  /\ UNCHANGED <<flags, activeChannels_, wakeupFd_, step, ran, early>>

runFunctor ==
  /\ pc = "run"
  /\ functors # <<>>
  /\ ran' = Append(ran, Head(functors))
  /\ functors' = Tail(functors)
  /\ pc' = "functor"
  /\ UNCHANGED <<flags, pendingFunctors_, activeChannels_, wakeupFd_, step,
                 early>>

functorReturn ==
  /\ pc = "functor"
  /\ step[Owner] = "idle"
  /\ pc' = "run"
  /\ UNCHANGED <<flags, pendingFunctors_, activeChannels_, wakeupFd_, functors,
                 step, ran, early>>

doPendingFunctorsEnd ==
  /\ pc = "run"
  /\ functors = <<>>
  /\ callingPendingFunctors_' = FALSE
  /\ pc' = "while"
  /\ UNCHANGED <<looping_, quit_, pendingFunctors_, activeChannels_, wakeupFd_,
                 functors, step, ran, early>>

-----------------------------------------------------------------------------
(* The system.                                                             *)

Call(t) ==
  \/ \E f \in Functors : queueInLoop(t, f) \/ runInLoop(t, f)
  \/ queueInLoopEnd(t)
  \/ quit(t)
  \/ quitEnd(t)

Loop ==
  \/ loopEnter
  \/ loopResetQuit
  \/ loopTest
  \/ pollEvents
  \/ pollNothing
  \/ handleRead
  \/ \E c \in IoChannels : handleEvent(c)
  \/ handleEventReturn
  \/ doPendingFunctors
  \/ swapFunctors
  \/ runFunctor
  \/ functorReturn
  \/ doPendingFunctorsEnd

\* The loop has returned (or the process is gone) and nothing has to happen.
Terminated == pc \in {"exited", "aborted"} /\ UNCHANGED vars

Next == Loop \/ (\E t \in Threads : Call(t)) \/ Terminated

\* The scheduler runs every thread, callbacks and functors return, and epoll
\* reports an eventfd that stays readable.  Nothing is assumed about the poll
\* timeout, about other descriptors, or about which calls are made.
Fairness ==
  /\ \A t \in Threads : WF_vars(queueInLoopEnd(t)) /\ WF_vars(quitEnd(t))
  /\ WF_vars(loopEnter) /\ WF_vars(loopResetQuit) /\ WF_vars(loopTest)
  /\ WF_vars(pollEvents /\ wakeupFd_ > 0)
  /\ WF_vars(handleRead) /\ WF_vars(\E c \in IoChannels : handleEvent(c))
  /\ WF_vars(handleEventReturn)
  /\ WF_vars(doPendingFunctors) /\ WF_vars(swapFunctors) /\ WF_vars(runFunctor)
  /\ WF_vars(functorReturn) /\ WF_vars(doPendingFunctorsEnd)

SafeSpec == Init /\ [][Next]_vars
Spec == SafeSpec /\ Fairness

-----------------------------------------------------------------------------
(* Properties.                                                             *)

Blocked == pc = "poll" /\ wakeupFd_ = 0

\* The inductive invariant: why no wake-up is lost.  Wherever the owner can still
\* reach epoll_wait without passing the swap (from doPendingFunctors' swap
\* through the next poll), a queued functor comes with a non-zero eventfd or
\* with a queueInLoop that has yet to write it.  The owner's own call counts
\* only while callingPendingFunctors_ is set; before loop() it writes nothing.
WillWake(t) == step[t] = "queued" /\ queueInLoopWakes(t)

WakeupInv ==
  /\ callingPendingFunctors_ <=> pc \in {"swap", "run", "functor"}
  /\ functors # <<>> => pc \in {"run", "functor"}
  /\ step[Owner] # "quitting"
  /\ step[Owner] = "queued" => pc \in {"before", "callback", "functor"}
  /\ activeChannels_ # {} => pc \in {"dispatch", "callback"}
  /\ WakeupChannel \in activeChannels_ => wakeupFd_ > 0
  /\ pc # "aborted"
  /\ pc \notin {"dispatch", "callback", "swap", "exited"} =>
       \/ Range(pendingFunctors_) \subseteq early
       \/ wakeupFd_ > 0
       \/ \E t \in Threads : WillWake(t)
  /\ pc = "poll" /\ quit_ =>
       wakeupFd_ > 0 \/ \E t \in Others : step[t] = "quitting"

LoopInv == TypeOK /\ WakeupInv

\* No lost wake-up.  When the owner is blocked in epoll_wait with the eventfd
\* at zero, every functor in pendingFunctors_ belongs to a queueInLoop that is
\* about to write the eventfd, except the ones the owner queued itself before
\* it called loop(); and quit_ is set only if its caller is about to write.
NoLostWakeup ==
  Blocked =>
    /\ (\A t \in Others : step[t] # "queued") => Range(pendingFunctors_) \subseteq early
    /\ (\A t \in Others : step[t] # "quitting") => ~quit_

\* EventLoop::handleRead never finds the eventfd at zero, which would end the
\* process: the counter can only have grown since epoll reported it.
NoAbort == pc # "aborted"

\* Every functor that is queued (by anyone, except by the owner before loop())
\* runs, unless the loop exits first.  The poll timeout is not needed for it.
QueuedFunctorRuns ==
  \A f \in Functors :
    (f \in Range(pendingFunctors_) \ early) ~> (f \in Range(ran) \/ pc = "exited")

\* A quit() that takes effect after loop() has cleared quit_ ends the loop.
QuitEndsLoop == (quit_ /\ pc \notin {"before", "start"}) ~> (pc = "exited")

\* The loop is a FIFO executor: what the threads see of it is a TaskQueue whose
\* waiting tasks are the swapped-out functors followed by pendingFunctors_.
TQ == INSTANCE TaskQueue WITH waiting <- functors \o pendingFunctors_,
                              done <- ran,
                              stopped <- (pc = "exited")
ImplementsTaskQueue == TQ!Spec

\* What the comment on quit() says (EventLoop.cc:120): a call from another
\* thread makes the loop's thread leave.  A quit() that comes before loop()
\* clears quit_ is forgotten instead.
QuitAlwaysEndsLoop ==
  \A t \in Others : (step[t] = "quitting") ~> (pc = "exited")
=============================================================================
