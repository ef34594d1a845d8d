----------------------------- MODULE AsyncLogging -----------------------------
(***************************************************************************)
(* muduo/base AsyncLogging: front-end threads append lines to a current    *)
(* buffer; a back-end thread swaps the full buffers out under the mutex    *)
(* and writes them to a LogFile outside it, recycling two of them.  A line *)
(* is its number in the order of append; a buffer is a sequence of lines.  *)
(***************************************************************************)
EXTENDS Naturals, Sequences, FiniteSets, SequencesExt

CONSTANTS LinesPerBuffer, \* lines that fit: append tests avail() > len
          DropAbove,      \* 25 in the code: more buffers than this are dropped
          DropKeep,       \* 2 in the code: the buffers kept then
          MaxLines        \* bound: calls of append

ASSUME LogAssumption == /\ LinesPerBuffer \in Nat \ {0} /\ MaxLines \in Nat
                        /\ DropKeep \in 2..DropAbove /\ DropAbove \in Nat

VARIABLE log

NoBuffer == <<0>> \* a null pointer; no line is 0

\* current, next: currentBuffer_ and nextBuffer_; new1, new2, writing: the back end's
\* newBuffer1, newBuffer2 and buffersToWrite; at: its place; file is what output has
\* been given; dropped is history: the lines erased.
LogInit == log = [current |-> << >>, next |-> << >>, buffers |-> << >>, running |-> FALSE,
                  at |-> "none", new1 |-> << >>, new2 |-> << >>, writing |-> << >>,
                  file |-> << >>, dropped |-> {}, lines |-> 0, main |-> "constructed"]

\* start() returns once the thread has counted the latch down.
LogStart == /\ log.main = "constructed"
            /\ log' = [log EXCEPT !.main = "started", !.running = TRUE, !.at = "loop"]

LogSignal(at) == IF at = "wait" THEN "swap" ELSE at

LogAppend(line) ==
  /\ log.main = "started" /\ line <= MaxLines
  /\ IF Len(log.current) < LinesPerBuffer
     THEN log' = [log EXCEPT !.current = Append(@, line), !.lines = line]
     ELSE log' = [log EXCEPT !.buffers = Append(@, log.current),
                             !.current = <<line>>, \* nextBuffer_ or a new Buffer, both empty
                             !.next = NoBuffer, !.lines = line, !.at = LogSignal(@)]

\* threadFunc: the test of running_, then the mutex: wait if there is no full buffer.
LogLoop == /\ log.at = "loop"
           /\ log' = [log EXCEPT !.at = IF log.running THEN "lock" ELSE "exit"]

LogLock == /\ log.at = "lock"
           /\ log' = [log EXCEPT !.at = IF log.buffers = << >> THEN "wait" ELSE "swap"]

\* waitForSeconds returns on a signal (LogSignal), by time-out or spuriously.
LogTimeout_Never == FALSE
LogTimeout == log.at = "wait" /\ log' = [log EXCEPT !.at = "swap"]

LogSwapped_Copied(buffers) == buffers
LogSwapped(buffers) == << >>

LogSwap == /\ log.at = "swap"
           /\ log' = [log EXCEPT !.writing = Append(log.buffers, log.current), !.buffers = LogSwapped(@),
                                 !.current = log.new1, !.new1 = NoBuffer,
                                 !.next = IF @ = NoBuffer THEN log.new2 ELSE @,
                                 !.new2 = IF log.next = NoBuffer THEN NoBuffer ELSE @,
                                 !.at = "write"]

LogKept_One(w) == IF Len(w) > DropAbove THEN SubSeq(w, 1, 1) ELSE w
LogKept(w) == IF Len(w) > DropAbove THEN SubSeq(w, 1, DropKeep) ELSE w

\* Drop what is too much, write the rest.
LogWrite == /\ log.at = "write"
            /\ LET kept == LogKept(log.writing)
                   all(w) == FlattenSeq(w)
               IN  log' = [log EXCEPT !.file = @ \o all(kept),
                                      !.dropped = @ \cup (ToSet(all(log.writing)) \ ToSet(all(kept))),
                                      !.writing = SubSeq(kept, 1, IF Len(kept) > 2 THEN 2 ELSE Len(kept)),
                                      !.at = "refill1"]

\* Two of the written buffers become newBuffer1 and newBuffer2, reset.
LogRefill1 == /\ log.at = "refill1"
              /\ log' = [log EXCEPT !.new1 = << >>, !.writing = Front(@), !.at = "refill2"]

LogRefill2 == /\ log.at = "refill2"
              /\ log' = [log EXCEPT !.new2 = << >>, !.writing = << >>, !.at = "loop"]

\* stop(), also from the destructor: running_ is cleared and the condition signalled
\* without the mutex, then the thread is joined.
LogStop == /\ log.main = "started"
           /\ log' = [log EXCEPT !.main = "joining", !.running = FALSE]

LogNotify == /\ log.main = "joining"
             /\ log' = [log EXCEPT !.main = "join", !.at = LogSignal(@)]

LogJoined == /\ log.main = "join" /\ log.at = "exit"
             /\ log' = [log EXCEPT !.main = "stopped"]

LogNext == \/ LogStart \/ LogAppend(log.lines + 1) \/ LogLoop \/ LogLock \/ LogTimeout \/ LogSwap
           \/ LogWrite \/ LogRefill1 \/ LogRefill2 \/ LogStop \/ LogNotify \/ LogJoined

LogHeld == (IF log.at \in {"write"} THEN FlattenSeq(log.writing) ELSE << >>)
           \o FlattenSeq(log.buffers) \o log.current

(* Every line is in the file, dropped by the overload rule, or still held, in  *)
(* the order of append and once, through every hand-over of buffers.          *)
LogLinesInOrder ==
  log.file \o LogHeld = SelectSeq([i \in 1..log.lines |-> i], LAMBDA i : i \notin log.dropped)

(* The assertions of threadFunc: two empty spare buffers at the top of the     *)
(* loop, and a buffer to recycle whenever a spare is missing.  What makes the  *)
(* second true is that nextBuffer_ is missing only if append filled a buffer.  *)
LogSparesRefilled ==
  /\ log.at \in {"loop", "lock", "wait", "swap"} =>
       log.new1 = << >> /\ log.new2 = << >> /\ log.writing = << >>
  /\ log.at = "refill1" => log.writing # << >>
  /\ log.at = "refill2" /\ log.new2 = NoBuffer => log.writing # << >>
  /\ log.next \in {<< >>, NoBuffer}

(* stop() ends the thread, and a line appended reaches the file or is dropped *)
(* unless stop() comes first: time-outs of waitForSeconds are relied on, and   *)
(* lines appended while the thread writes its last batch stay behind.         *)
LogProgress ==
  /\ log.main = "joining" ~> log.main = "stopped"
  /\ \A i \in 1..MaxLines :
       log.lines >= i ~> i \in ToSet(log.file) \cup log.dropped \/ ~log.running

(* The exchange of buffers loses no line, and never runs out of buffers.      *)
LogHandsOver == LogLinesInOrder /\ LogSparesRefilled
=============================================================================
