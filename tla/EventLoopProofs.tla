--------------------------- MODULE EventLoopProofs ---------------------------
(***************************************************************************)
(* For any set of threads, functors and channels: no wake-up of the loop   *)
(* is lost, reading the eventfd never ends the process, and the loop       *)
(* implements the FIFO executor of TaskQueue.                              *)
(***************************************************************************)
EXTENDS EventLoop, SequenceTheorems, TLAPS

\* EventLoop's constructor leaves every field with a value of its type.
LEMMA InitTypeOK == Init => TypeOK
<1> SUFFICES ASSUME Init PROVE TypeOK
  OBVIOUS
<1> USE DEF Init, TypeOK
<1>1. /\ pendingFunctors_ \in Seq(Functors)
      /\ functors \in Seq(Functors)
      /\ ran \in Seq(Functors)
  BY EmptySeq
<1>2. /\ looping_ \in BOOLEAN
      /\ quit_ \in BOOLEAN
      /\ callingPendingFunctors_ \in BOOLEAN
  OBVIOUS
<1>3. /\ wakeupFd_ \in Nat
      /\ pc \in Locations
      /\ step \in [Threads -> Steps]
      /\ activeChannels_ \in SUBSET (IoChannels \cup {WakeupChannel})
      /\ early \in SUBSET Functors
  BY DEF Steps, Locations
<1> QED
  BY <1>1, <1>2, <1>3

\* Every step of loop(), queueInLoop, runInLoop and quit keeps the types.
LEMMA NextTypeOK == TypeOK /\ [Next]_vars => TypeOK'
<1> SUFFICES ASSUME TypeOK, [Next]_vars PROVE TypeOK'
  OBVIOUS
<1> USE DEF TypeOK, Steps, Locations, flags
<1>1. ASSUME NEW t \in Threads, NEW f \in Functors, queueInLoop(t, f)
      PROVE  TypeOK'
  BY <1>1, AppendProperties DEF queueInLoop
<1>2. ASSUME NEW t \in Threads, NEW f \in Functors, runInLoop(t, f)
      PROVE  TypeOK'
  <2>1. CASE isInLoopThread(t)
    <3>1. /\ ran' = Append(ran, f)
          /\ UNCHANGED <<flags, pendingFunctors_, activeChannels_, wakeupFd_,
                         functors, pc, step, early>>
      BY <1>2, <2>1 DEF runInLoop
    <3>2. ran' \in Seq(Functors)
      BY <3>1, AppendProperties
    <3> QED BY <3>1, <3>2
  <2>2. CASE ~isInLoopThread(t)
    BY <1>1, <1>2, <2>2 DEF runInLoop, isInLoopThread
  <2> QED BY <2>1, <2>2
<1>3. ASSUME NEW t \in Threads, queueInLoopEnd(t) PROVE TypeOK'
  BY <1>3 DEF queueInLoopEnd, wakeup
<1>4. ASSUME NEW t \in Threads, quit(t) PROVE TypeOK'
  BY <1>4 DEF quit
<1>5. ASSUME NEW t \in Threads, quitEnd(t) PROVE TypeOK'
  BY <1>5 DEF quitEnd, wakeup
<1>6. CASE loopEnter BY <1>6 DEF loopEnter
<1>7. CASE loopResetQuit BY <1>7 DEF loopResetQuit
<1>8. CASE loopTest BY <1>8 DEF loopTest
<1>9. CASE pollEvents BY <1>9 DEF pollEvents, Ready
<1>10. CASE pollNothing BY <1>10 DEF pollNothing
<1>11. CASE handleRead BY <1>11 DEF handleRead
<1>12. ASSUME NEW c \in IoChannels, handleEvent(c) PROVE TypeOK'
  BY <1>12 DEF handleEvent
<1>13. CASE handleEventReturn BY <1>13 DEF handleEventReturn
<1>14. CASE doPendingFunctors BY <1>14 DEF doPendingFunctors
<1>15. CASE swapFunctors BY <1>15, EmptySeq DEF swapFunctors
<1>16. CASE runFunctor
  BY <1>16, HeadTailProperties, AppendProperties DEF runFunctor
<1>17. CASE functorReturn BY <1>17 DEF functorReturn
<1>18. CASE doPendingFunctorsEnd BY <1>18 DEF doPendingFunctorsEnd
<1>19. CASE UNCHANGED vars BY <1>19 DEF vars
<1> QED
  BY <1>1, <1>2, <1>3, <1>4, <1>5, <1>6, <1>7, <1>8, <1>9, <1>10, <1>11,
     <1>12, <1>13, <1>14, <1>15, <1>16, <1>17, <1>18, <1>19
     DEF Next, Loop, Call, Terminated

\* Every field keeps its type, whatever the threads call.
THEOREM TypeCorrect == SafeSpec => []TypeOK
  BY InitTypeOK, NextTypeOK, PTL DEF SafeSpec

-----------------------------------------------------------------------------
\* emplace_back adds one functor to the set of pending ones.
LEMMA RangeAppend ==
  ASSUME NEW S, NEW s \in Seq(S), NEW e \in S
  PROVE  Range(Append(s, e)) = Range(s) \cup {e}
<1>1. /\ Append(s, e) = s \o <<e>>
      /\ <<e>> \in Seq(S)
  BY AppendIsConcat
<1>2. Range(<<e>>) = {e}
  BY DEF Range
<1>3. Range(s \o <<e>>) = Range(s) \cup Range(<<e>>)
  BY <1>1, RangeConcatenation
<1> QED
  BY <1>1, <1>2, <1>3

\* The constructor establishes the invariant: nothing queued, nobody to wake.
LEMMA InitWakeupInv == Init => WakeupInv
  BY LoopAssumption, EmptySeq, RangeEquality
     DEF Init, WakeupInv, Threads, Range

\* Every step keeps the invariant.  The steps that matter: queueInLoop makes a
\* functor pending and a writer due in one step; queueInLoopEnd pays that debt;
\* handleRead resets the eventfd only on the way to the swap; the swap leaves
\* nothing pending; and loopTest enters the poll only with quit_ false.
LEMMA NextWakeupInv == TypeOK /\ WakeupInv /\ [Next]_vars => WakeupInv'
<1> SUFFICES ASSUME TypeOK, WakeupInv, [Next]_vars PROVE WakeupInv'
  OBVIOUS
<1> USE LoopAssumption
    DEF TypeOK, WakeupInv, WillWake, queueInLoopWakes, isInLoopThread, Threads,
        Steps, Locations, flags
<1>1. ASSUME NEW t \in Threads, NEW f \in Functors, queueInLoop(t, f)
      PROVE  WakeupInv'
  <2>1. Range(Append(pendingFunctors_, f)) = Range(pendingFunctors_) \cup {f}
    BY RangeAppend
  <2>2. CASE isInLoopThread(t) /\ pc = "before"
    BY <1>1, <2>1, <2>2 DEF queueInLoop, CanCall
  <2>3. CASE ~(isInLoopThread(t) /\ pc = "before")
    BY <1>1, <2>3 DEF queueInLoop, CanCall
  <2> QED BY <2>2, <2>3
<1>2. ASSUME NEW t \in Threads, NEW f \in Functors, runInLoop(t, f)
      PROVE  WakeupInv'
  BY <1>1, <1>2 DEF runInLoop
<1>3. ASSUME NEW t \in Threads, queueInLoopEnd(t) PROVE WakeupInv'
  BY <1>3 DEF queueInLoopEnd, wakeup
<1>4. ASSUME NEW t \in Threads, quit(t) PROVE WakeupInv'
  BY <1>4 DEF quit, CanCall
<1>5. ASSUME NEW t \in Threads, quitEnd(t) PROVE WakeupInv'
  BY <1>5 DEF quitEnd, wakeup
<1>6. CASE loopEnter BY <1>6 DEF loopEnter
<1>7. CASE loopResetQuit BY <1>7 DEF loopResetQuit
<1>8. CASE loopTest BY <1>8 DEF loopTest
<1>9. CASE pollEvents BY <1>9 DEF pollEvents, Ready
<1>10. CASE pollNothing BY <1>10 DEF pollNothing
<1>11. CASE handleRead BY <1>11 DEF handleRead
<1>12. ASSUME NEW c \in IoChannels, handleEvent(c) PROVE WakeupInv'
  BY <1>12 DEF handleEvent
<1>13. CASE handleEventReturn BY <1>13 DEF handleEventReturn
<1>14. CASE doPendingFunctors BY <1>14 DEF doPendingFunctors
<1>15. CASE swapFunctors
  <2>1. Range(<<>>) = {}
    BY EmptySeq, RangeEquality DEF Range
  <2> QED BY <1>15, <2>1 DEF swapFunctors
<1>16. CASE runFunctor BY <1>16 DEF runFunctor
<1>17. CASE functorReturn BY <1>17 DEF functorReturn
<1>18. CASE doPendingFunctorsEnd BY <1>18 DEF doPendingFunctorsEnd
<1>19. CASE UNCHANGED vars BY <1>19 DEF vars
<1> QED
  BY <1>1, <1>2, <1>3, <1>4, <1>5, <1>6, <1>7, <1>8, <1>9, <1>10, <1>11,
     <1>12, <1>13, <1>14, <1>15, <1>16, <1>17, <1>18, <1>19
     DEF Next, Loop, Call, Terminated

\* The inductive invariant holds in every reachable state of the loop.
THEOREM WakeupInvariant == SafeSpec => []LoopInv
<1>1. TypeOK /\ WakeupInv /\ [Next]_vars => (TypeOK /\ WakeupInv)'
  BY NextTypeOK, NextWakeupInv
<1> QED
  BY <1>1, InitTypeOK, InitWakeupInv, PTL DEF SafeSpec, LoopInv

\* A loop blocked in epoll_wait with the eventfd at zero has no functor and no
\* quit() waiting that some thread is not about to announce (queueInLoop, quit).
THEOREM NoWakeupIsLost == SafeSpec => []NoLostWakeup
<1>1. TypeOK /\ WakeupInv => NoLostWakeup
  BY DEF TypeOK, WakeupInv, NoLostWakeup, Blocked, WillWake, Threads
<1> QED
  BY <1>1, WakeupInvariant, PTL DEF LoopInv

\* EventLoop::handleRead never meets an empty eventfd, so it never exits.
THEOREM EventfdNeverEmpty == SafeSpec => []NoAbort
<1>1. WakeupInv => NoAbort
  BY DEF WakeupInv, NoAbort
<1> QED
  BY <1>1, WakeupInvariant, PTL DEF LoopInv
-----------------------------------------------------------------------------
\* Taking the head of the first of two concatenated sequences: what running the
\* next swapped-out functor does to the whole queue.
LEMMA HeadTailConcat ==
  ASSUME NEW S, NEW s \in Seq(S), NEW u \in Seq(S), s # <<>>
  PROVE  /\ s \o u # <<>>
         /\ Head(s \o u) = Head(s)
         /\ Tail(s \o u) = Tail(s) \o u
<1>1. /\ s \o u \in Seq(S)
      /\ Len(s \o u) = Len(s) + Len(u)
      /\ Len(s) \in Nat \ {0}
      /\ Len(u) \in Nat
  BY ConcatProperties, EmptySeq, LenProperties
<1>2. s \o u # <<>>
  BY <1>1, EmptySeq
<1>3. Head(s \o u) = Head(s)
  BY <1>1, <1>2, ConcatProperties
<1>4. /\ Tail(s) \in Seq(S)
      /\ Len(Tail(s)) = Len(s) - 1
      /\ \A i \in 1 .. Len(Tail(s)) : Tail(s)[i] = s[i + 1]
      /\ Tail(s \o u) \in Seq(S)
      /\ Len(Tail(s \o u)) = Len(s) + Len(u) - 1
      /\ \A i \in 1 .. Len(s) + Len(u) - 1 : Tail(s \o u)[i] = (s \o u)[i + 1]
  BY <1>1, <1>2, HeadTailProperties
<1>5. /\ Tail(s) \o u \in Seq(S)
      /\ Len(Tail(s) \o u) = Len(s) + Len(u) - 1
      /\ \A i \in 1 .. Len(s) + Len(u) - 1 : (Tail(s) \o u)[i] =
           IF i <= Len(s) - 1 THEN Tail(s)[i] ELSE u[i - (Len(s) - 1)]
  BY <1>1, <1>4, ConcatProperties
<1>6. ASSUME NEW i \in 1 .. Len(s) + Len(u) - 1
      PROVE  Tail(s \o u)[i] = (Tail(s) \o u)[i]
  <2>1. /\ i + 1 \in 1 .. Len(s) + Len(u)
        /\ (s \o u)[i + 1] =
             IF i + 1 <= Len(s) THEN s[i + 1] ELSE u[i + 1 - Len(s)]
    BY <1>1, ConcatProperties
  <2>2. CASE i + 1 <= Len(s)
    BY <1>1, <1>4, <1>5, <2>1, <2>2
  <2>3. CASE ~(i + 1 <= Len(s))
    <3>1. i + 1 - Len(s) = i - (Len(s) - 1)
      BY <1>1
    <3> QED
      BY <1>1, <1>4, <1>5, <2>1, <2>3, <3>1
  <2> QED BY <2>2, <2>3
<1>7. Tail(s \o u) = Tail(s) \o u
  BY <1>4, <1>5, <1>6, SeqEqual
<1> QED
  BY <1>2, <1>3, <1>7

\* Appending to the second of two concatenated sequences: what queueInLoop does
\* to the whole queue.
LEMMA ConcatAppend ==
  ASSUME NEW S, NEW s \in Seq(S), NEW u \in Seq(S), NEW e \in S
  PROVE  s \o Append(u, e) = Append(s \o u, e)
<1>1. /\ Append(u, e) = u \o <<e>>
      /\ s \o u \in Seq(S)
      /\ <<e>> \in Seq(S)
  BY AppendIsConcat, ConcatProperties
<1>2. Append(s \o u, e) = (s \o u) \o <<e>>
  BY <1>1, AppendIsConcat
<1> QED
  BY <1>1, <1>2, ConcatAssociative

\* A fresh loop is an empty TaskQueue.
LEMMA InitRefines == Init => TQ!Init
  BY ConcatEmptySeq, EmptySeq DEF Init, TQ!Init

\* Every step of the loop is a TaskQueue step or changes nothing a TaskQueue
\* shows: the swap in doPendingFunctors in particular is invisible.
LEMMA NextRefines == TypeOK /\ WakeupInv /\ [Next]_vars => [TQ!Next]_(TQ!tqVars)
<1> SUFFICES ASSUME TypeOK, WakeupInv, [Next]_vars
             PROVE  [TQ!Next]_(TQ!tqVars)
  OBVIOUS
<1>t. /\ functors \in Seq(Functors)
      /\ pendingFunctors_ \in Seq(Functors)
      /\ ran \in Seq(Functors)
  BY DEF TypeOK
<1>new. \A f : Fresh(f) <=> TQ!New(f)
  <2>1. Range(functors \o pendingFunctors_) = Range(functors) \cup Range(pendingFunctors_)
    BY <1>t, RangeConcatenation
  <2> QED BY <2>1 DEF Fresh, TQ!New, Range, TQ!Range
<1>same. ASSUME UNCHANGED <<functors, pendingFunctors_, ran>>,
                pc = "exited" <=> pc' = "exited"
         PROVE  [TQ!Next]_(TQ!tqVars)
  BY <1>same DEF TQ!tqVars
<1>1. ASSUME NEW t \in Threads, NEW f \in Functors, queueInLoop(t, f)
      PROVE  TQ!Submit(f)
  <2>1. functors \o Append(pendingFunctors_, f) = Append(functors \o pendingFunctors_, f)
    BY <1>t, ConcatAppend
  <2> QED BY <1>1, <1>new, <2>1 DEF queueInLoop, TQ!Submit
<1>2. ASSUME NEW t \in Threads, NEW f \in Functors, runInLoop(t, f)
      PROVE  TQ!Submit(f) \/ TQ!RunNow(f)
  <2>1. CASE isInLoopThread(t)
    BY <1>2, <1>new, <2>1 DEF runInLoop, CanCall, TQ!RunNow, isInLoopThread
  <2>2. CASE ~isInLoopThread(t)
    BY <1>1, <1>2, <2>2 DEF runInLoop
  <2> QED BY <2>1, <2>2
<1>3. ASSUME NEW t \in Threads, queueInLoopEnd(t) \/ quit(t) \/ quitEnd(t)
      PROVE  [TQ!Next]_(TQ!tqVars)
  BY <1>3, <1>same DEF queueInLoopEnd, quit, quitEnd, flags
<1>4. CASE \/ loopEnter \/ loopResetQuit \/ pollEvents \/ pollNothing
           \/ handleRead \/ handleEventReturn \/ doPendingFunctors
           \/ functorReturn \/ doPendingFunctorsEnd
  BY <1>4, <1>same
     DEF loopEnter, loopResetQuit, pollEvents, pollNothing, handleRead,
         handleEventReturn, doPendingFunctors, functorReturn,
         doPendingFunctorsEnd, flags
<1>5. ASSUME NEW c \in IoChannels, handleEvent(c) PROVE [TQ!Next]_(TQ!tqVars)
  BY <1>5, <1>same DEF handleEvent
<1>6. CASE loopTest
  <2>1. CASE quit_
    BY <1>6, <2>1 DEF loopTest, TQ!Next, TQ!Stop
  <2>2. CASE ~quit_
    BY <1>6, <2>2, <1>same DEF loopTest
  <2> QED BY <2>1, <2>2
<1>7. CASE swapFunctors
  <2>1. functors = <<>>
    BY <1>7 DEF swapFunctors, WakeupInv
  <2>2. functors' \o pendingFunctors_' = functors \o pendingFunctors_
    BY <1>7, <1>t, <2>1, ConcatEmptySeq DEF swapFunctors
  <2> QED BY <1>7, <2>2 DEF swapFunctors, TQ!tqVars
<1>8. CASE runFunctor
  <2>1. functors # <<>>
    BY <1>8 DEF runFunctor
  <2>2. /\ functors \o pendingFunctors_ # <<>>
        /\ Head(functors \o pendingFunctors_) = Head(functors)
        /\ Tail(functors \o pendingFunctors_) = Tail(functors) \o pendingFunctors_
    BY <1>t, <2>1, HeadTailConcat
  <2> QED BY <1>8, <2>2 DEF runFunctor, TQ!Next, TQ!RunNext
<1>9. CASE UNCHANGED vars
  BY <1>9, <1>same DEF vars
<1> QED
  BY <1>1, <1>2, <1>3, <1>4, <1>5, <1>6, <1>7, <1>8, <1>9
     DEF Next, Loop, Call, Terminated, TQ!Next

\* EventLoop implements TaskQueue: functors run in the order they were queued,
\* none twice and none lost while the loop runs, whoever queued them and
\* whatever queueInLoop, doPendingFunctors and quit interleave with.
THEOREM LoopRefinesTaskQueue == SafeSpec => ImplementsTaskQueue
  BY InitRefines, NextRefines, WakeupInvariant, PTL
     DEF LoopInv, SafeSpec, ImplementsTaskQueue, TQ!Spec
=============================================================================
