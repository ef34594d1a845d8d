------------------------------- MODULE Sudoku -------------------------------
(***************************************************************************)
(* examples/sudoku: the servers server_basic and server_multiloop (one     *)
(* connection is served alike), server_threadpool, server_hybrid and       *)
(* server_prod, and the clients loadtest, pipeline and batch.  One         *)
(* connection; a line of a puzzle or of a solution weighs SuLine, the      *)
(* kCells + 2 bytes without which a read does not even look for a line,    *)
(* any other line weighs less.                                             *)
(***************************************************************************)
EXTENDS Integers, Sequences, SequencesExt, FiniteSetsExt, FiniteSets

CONSTANTS SuRequests,      \* how many requests the client sends
          SuWorkers,       \* the threads of the pool, if it has any
          SuRoom,          \* answers the kernel takes before the client reads
          SuQueue,         \* queueSize from which server_prod refuses
          SuPipelines      \* requests a pipeline client keeps in flight

SuLine == 2
SuTooLong == 3             \* more bytes than an id, a puzzle and CRLF have
SuLow == 1                 \* high-water marks of server_prod
SuHigh == 2

(* kind, threads, client: which programs.  net, buf: lines on their way to *)
(* the server and its input buffer; tasks, hand: the pool's queue and what *)
(* each worker has in hand; todo: functors of the loop; out, wire: answers *)
(* in the output buffer and in the kernel; cbuf: the client's buffer.      *)
VARIABLE su

SuForms == {"puzzle", "hard"}               \* hard: a puzzle without solution
SuWeight(line) == CASE line.form \in {"puzzle", "hard", "wrong", "solved"} -> SuLine
                    [] line.form = "endless" -> SuTooLong + 1
                    [] OTHER -> 1
SuSize(lines) == FoldLeft(LAMBDA n, l : n + SuWeight(l), 0, lines)
SuRequest(n, id, form) == [n |-> n, id |-> id, form |-> form]
SuAnswer(line, form) == [line EXCEPT !.form = form]
SuNobody == SuRequest(0, FALSE, "none")

SuInit ==
  \E kind \in {"basic", "pool", "hybrid", "prod"}, client \in {"load", "pipeline", "batch", "raw"},
     threads \in 0..Cardinality(SuWorkers) :
    /\ kind = "basic" => threads = 0
    /\ su = [kind |-> kind, threads |-> threads, client |-> client, conn |-> "new", fin |-> FALSE,
             net |-> <<>>, buf |-> <<>>, tasks |-> <<>>, hand |-> [w \in SuWorkers |-> SuNobody],
             told |-> [w \in SuWorkers |-> FALSE], todo |-> <<>>, out |-> <<>>, wire |-> <<>>,
             throttle |-> FALSE, mark |-> SuLow, onComplete |-> FALSE,
             requests |-> 0, responses |-> 0, bad |-> 0, dropped |-> 0, odd |-> 0,
             log |-> <<>>, lost |-> 0, cbuf |-> <<>>, sent |-> 0, infly |-> {}, count |-> 0,
             unknown |-> 0, done |-> 0, peer |-> "up"]

-----------------------------------------------------------------------------
(* TcpConnection, as the servers use it: sendInLoop writes at once what    *)
(* the kernel takes and buffers the rest, shutdown waits for the buffer.   *)
SuSendInLoop(s, a) ==
  IF s.conn = "down" \/ s.fin THEN [s EXCEPT !.lost = @ + 1]
  ELSE IF s.out = <<>> /\ Len(s.wire) < SuRoom
  THEN [s EXCEPT !.wire = Append(@, a), !.log = Append(@, a),
                 !.todo = IF s.onComplete THEN Append(@, [op |-> "complete"]) ELSE @]
  ELSE [s EXCEPT !.out = Append(@, a), !.log = Append(@, a),
                 !.todo = IF s.kind = "prod" /\ Len(s.out) < s.mark /\ Len(s.out) + 1 >= s.mark
                          THEN Append(@, [op |-> "high", size |-> Len(s.out) + 1]) ELSE @]
SuSend(s, a) == IF s.conn = "up" THEN SuSendInLoop(s, a) ELSE [s EXCEPT !.lost = @ + 1]
SuShutdown(s) == IF s.conn # "up" THEN s
                 ELSE [s EXCEPT !.conn = "closing", !.fin = s.out = <<>>]

SuRecords(s) == s.kind \in {"hybrid", "prod"}
SuBad(s, line, form) ==
  LET t == SuShutdown(SuSend(s, SuAnswer(line, form)))
  IN IF SuRecords(s) THEN [t EXCEPT !.bad = @ + 1] ELSE t

(* solve, in the loop's thread: server_basic, or a pool without threads.   *)
SuResult(line) == SuAnswer(line, IF line.form = "hard" THEN "nosolution" ELSE "solved")
SuSolveHere(s, line) ==
  LET t == SuSend(s, SuResult(line))
  IN IF SuRecords(s) THEN [t EXCEPT !.responses = @ + 1] ELSE t

(* ThreadPool::run *)
SuRun(s, line) == IF s.threads = 0 THEN SuSolveHere(s, line) ELSE [s EXCEPT !.tasks = Append(@, line)]

(* processRequest of each server, for a line that holds a puzzle.          *)
SuBasic(s, line) == SuSolveHere(s, line)
SuThreadpool(s, line) == SuRun(s, line)
SuHybrid(s, line) == SuRun(s, line)
SuProd(s, line) ==
  IF Len(s.tasks) < SuQueue /\ ~s.throttle THEN SuRun(s, line)
  ELSE [SuSend(s, SuAnswer(line, "busy")) EXCEPT !.dropped = @ + 1]

(* The requests that processRequest refuses.                               *)
SuRefused(s, line) == \/ line.form \notin SuForms
                      \/ (SuRecords(s) /\ ~line.id /\ s.threads > 1)

SuProcess(s, line) == CASE s.kind = "basic" -> SuBasic(s, line)
                        [] s.kind = "pool" -> SuThreadpool(s, line)
                        [] s.kind = "hybrid" -> SuHybrid(s, line)
                        [] s.kind = "prod" -> SuProd(s, line)

RECURSIVE SuOnMessage(_)
(* onMessage: one line after the other, until a bad one.                   *)
SuOnMessage(s) ==
  LET line == Head(s.buf)
      t == [s EXCEPT !.buf = Tail(@), !.requests = @ + (IF SuRecords(s) THEN 1 ELSE 0)]
  IN IF SuSize(s.buf) < SuLine THEN s
     ELSE IF line.form = "endless" THEN [SuBad(s, SuNobody, "toolong") EXCEPT !.odd = @ + 1]
     ELSE IF SuRefused(s, line) THEN SuBad(t, line, "bad")
     ELSE SuOnMessage(SuProcess(t, line))

SuRead == \E k \in 1..Len(su.net) :
  /\ su.conn \in {"up", "closing"}
  /\ su' = SuOnMessage([su EXCEPT !.net = SubSeq(@, k + 1, Len(@)), !.buf = @ \o SubSeq(su.net, 1, k)])

-----------------------------------------------------------------------------
(* A worker takes a task, sends the result through the loop, then records  *)
(* it.                                                                     *)
SuTake(w) == /\ w <= su.threads /\ su.hand[w] = SuNobody /\ su.tasks # <<>>
             /\ su' = [su EXCEPT !.hand[w] = Head(su.tasks), !.tasks = Tail(@)]

SuSolve_Both(w) ==
  /\ su.hand[w] # SuNobody /\ ~su.told[w]
  /\ su' = [su EXCEPT !.told[w] = TRUE,
              !.todo = IF su.conn = "up"
                       THEN @ \o <<[op |-> "send", answer |-> SuResult(su.hand[w])],
                                   [op |-> "send", answer |-> SuResult(su.hand[w])]>>
                       ELSE @]

(* solve, run by a worker.                                                 *)
SuSolve(w) ==
  /\ su.hand[w] # SuNobody /\ ~su.told[w]
  /\ su' = [su EXCEPT !.told[w] = TRUE,
              !.todo = IF su.conn = "up" THEN Append(@, [op |-> "send", answer |-> SuResult(su.hand[w])])
                       ELSE @,
              !.lost = @ + (IF su.conn = "up" THEN 0 ELSE 1)]
SuRecord(w) ==
  /\ su.told[w]
  /\ su' = [su EXCEPT !.told[w] = FALSE, !.hand[w] = SuNobody,
              !.responses = @ + (IF SuRecords(su) THEN 1 ELSE 0)]

(* highWaterMark and writeComplete of server_prod.                         *)
SuHighWater(s, size) ==
  IF size < SuHigh THEN [s EXCEPT !.mark = SuHigh, !.onComplete = TRUE, !.throttle = TRUE]
  ELSE [SuBad(s, SuNobody, "bad") EXCEPT !.odd = @ + 1]

SuWriteComplete_Keeps(s) == [s EXCEPT !.mark = SuLow, !.onComplete = FALSE]
SuWriteComplete(s) == [s EXCEPT !.mark = SuLow, !.onComplete = FALSE, !.throttle = FALSE]

SuFunctor ==
  LET f == Head(su.todo)
      s == [su EXCEPT !.todo = Tail(@)]
  IN /\ su.todo # <<>>
     /\ su' = CASE f.op = "send" -> SuSendInLoop(s, f.answer)
                [] f.op = "high" -> SuHighWater(s, f.size)
                [] f.op = "complete" -> SuWriteComplete(s)

(* handleWrite: the kernel takes what it has room for.                     *)
SuWrite ==
  /\ su.conn # "down" /\ su.out # <<>> /\ Len(su.wire) < SuRoom
  /\ LET s == [su EXCEPT !.wire = Append(@, Head(su.out)), !.out = Tail(@)]
     IN su' = IF s.out # <<>> THEN s
              ELSE [s EXCEPT !.fin = s.conn = "closing",
                      !.todo = IF s.onComplete THEN Append(@, [op |-> "complete"]) ELSE @]

-----------------------------------------------------------------------------
(* The clients: send of loadtest and pipeline, a client of one's own.      *)
SuClientSend(s, id, form) ==
  [s EXCEPT !.sent = @ + 1, !.net = Append(@, SuRequest(s.sent + 1, id, form)),
            !.infly = @ \cup {s.sent + 1}]

SuPut(s, forms) == FoldLeft(LAMBDA t, f : SuClientSend(t, TRUE, f), s, forms)

(* onConnection: batch sends its whole input, pipeline fills its pipeline. *)
SuConnect ==
  /\ su.conn = "new"
  /\ \E first \in [1..(CASE su.client = "batch" -> SuRequests [] su.client = "pipeline" -> SuPipelines
                         [] OTHER -> 0) -> SuForms] :
       su' = SuPut([su EXCEPT !.conn = "up"], first)

(* tick of loadtest, and a client that may omit ids and send bad lines.    *)
SuTick == \E form \in SuForms :
  /\ su.client = "load" /\ su.conn # "new" /\ su.peer = "up" /\ su.sent < SuRequests
  /\ su' = SuClientSend(su, TRUE, form)
SuRaw == \E form \in SuForms \cup {"wrong", "short", "endless"}, id \in BOOLEAN :
  /\ su.client = "raw" /\ su.conn # "new" /\ su.peer = "up" /\ su.sent < SuRequests
  /\ form \notin SuForms => ~id
  /\ \A k \in DOMAIN su.net : su.net[k].form # "endless"
  /\ su.buf # <<>> => Last(su.buf).form # "endless"
  /\ su' = SuClientSend(su, id, form)

SuVerify_Keeps(s, a) == [s EXCEPT !.count = @ + 1]

(* verify: an answer with an id takes its request off sendTime_.           *)
SuVerify(s, a) ==
  [s EXCEPT !.infly = @ \ {a.n}, !.count = @ + 1,
            !.unknown = @ + (IF a.id /\ a.n \notin s.infly THEN 1 ELSE 0)]

RECURSIVE SuClientLines(_, _)
(* onMessage of the clients; a pipeline client sends one request more.     *)
SuClientLines(s, form) ==
  LET t == SuVerify([s EXCEPT !.cbuf = Tail(@)], Head(s.cbuf))
  IN IF SuSize(s.cbuf) < SuLine THEN s
     ELSE SuClientLines(IF s.client = "pipeline" /\ t.sent < SuRequests
                        THEN SuClientSend(t, TRUE, form) ELSE t, form)

SuClientRead == \E k \in 1..Len(su.wire), form \in SuForms :
  /\ su.peer = "up"
  /\ su.client # "pipeline" => form = "puzzle"
  /\ LET s == SuClientLines([su EXCEPT !.wire = SubSeq(@, k + 1, Len(@)),
                                       !.cbuf = @ \o SubSeq(su.wire, 1, k)], form)
         batched == s.client = "batch" /\ s.count = SuRequests
     IN su' = IF batched THEN [s EXCEPT !.done = @ + 1, !.peer = "leaving"] ELSE s

(* The client sees the end of the stream, or has left: the server's        *)
(* connection ends.                                                        *)
SuDown == /\ su.conn \in {"up", "closing"}
          /\ (su.fin /\ su.wire = <<>>) \/ su.peer = "leaving" \/ (su.client = "raw" /\ su.peer = "up")
          /\ su' = [su EXCEPT !.conn = "down", !.peer = "down", !.net = <<>>]

SuNext == \/ SuConnect \/ SuTick \/ SuRaw \/ SuRead \/ SuFunctor \/ SuWrite \/ SuClientRead \/ SuDown
          \/ \E w \in SuWorkers : SuTake(w) \/ SuSolve(w) \/ SuRecord(w)

-----------------------------------------------------------------------------
SuIn(seq, n) == Len(SelectSeq(seq, LAMBDA x : x.n = n))
SuSends == [k \in DOMAIN SelectSeq(su.todo, LAMBDA f : f.op = "send") |->
              SelectSeq(su.todo, LAMBDA f : f.op = "send")[k].answer]
SuHeld == {w \in SuWorkers : su.hand[w] # SuNobody /\ ~su.told[w]}
SuQuiet == su.conn = "up" /\ su.net = <<>> /\ su.tasks = <<>> /\ su.todo = <<>> /\ su.out = <<>>
             /\ su.wire = <<>> /\ \A w \in SuWorkers : su.hand[w] = SuNobody

(* A request is in one place at a time, on its way, in the pool's queue, in*)
(* a worker's hand, as a functor or answered, and never answered twice;    *)
(* while the connection is up none has been lost, and no client meets an   *)
(* answer it did not ask for.                                              *)
SuOneAnswer ==
  /\ \A n \in 1..su.sent :
       LET places == SuIn(su.net, n) + SuIn(su.buf, n) + SuIn(su.tasks, n) + SuIn(SuSends, n)
                       + SuIn(su.log, n) + Cardinality({w \in SuHeld : su.hand[w].n = n})
       IN places <= 1 /\ (su.conn = "up" => places = 1)
  /\ su.unknown = 0

(* Answers without an id come in the order of the requests, where the      *)
(* server takes such requests at all with several threads in its pool: the *)
(* thread pool server does not care, and server_prod lets a refusal        *)
(* overtake.                                                               *)
SuInOrder ==
  LET plain == SelectSeq(su.log, LAMBDA a : ~a.id /\ a.form \in {"solved", "nosolution"})
  IN (su.kind = "pool" /\ su.threads > 1) \/
     \A i, j \in DOMAIN plain : i < j => plain[i].n < plain[j].n

(* The counts of stat.h add up: a request is answered, bad, refused as too *)
(* busy or still in the pool.                                              *)
SuAddUp == SuRecords(su) =>
  su.requests + su.odd = su.responses + su.bad + su.dropped + Len(su.tasks)
                           + Cardinality({w \in SuWorkers : su.hand[w] # SuNobody})

(* A connection that server_prod throttles will be released: the callback  *)
(* that does it is set, or already queued, although the mark may be noticed*)
(* after the buffer has drained.                                           *)
SuReleased == su.throttle => su.onComplete \/ \E k \in DOMAIN su.todo : su.todo[k].op = "complete"

(* What a client waits for when nothing moves: nothing but answers shorter *)
(* than a solution that it has received and does not look at.  A pipeline  *)
(* is full otherwise, and a batch is done.                                 *)
SuClientServed == SuQuiet =>
  /\ SuSize(su.cbuf) < SuLine
  /\ su.buf = <<>> =>
       /\ su.client # "raw" => Cardinality(su.infly) = Len(su.cbuf)
       /\ su.client = "batch" /\ su.cbuf = <<>> => su.done = 1
  /\ su.client = "pipeline" => su.sent = SuRequests \/ Cardinality(su.infly) = SuPipelines
SuDoneOnce == su.done <= 1

(* The Sudoku programs, whole.                                             *)
SudokuSound == SuOneAnswer /\ SuInOrder /\ SuAddUp /\ SuReleased /\ SuClientServed /\ SuDoneOnce

-----------------------------------------------------------------------------
(***************************************************************************)
(* stat.h, what a Sudoku server counts, and percentile.h, what a load test *)
(* reports.  The clock of responses is a system clock read by several      *)
(* threads before they lock: seconds come in any order.                    *)
(***************************************************************************)
CONSTANTS StatSeconds,     \* kSeconds, the seconds kept
          StatClock,       \* the last second of the clock
          StatRecords,     \* how many responses are recorded
          StatSamples      \* how many latencies a load test has

(* last, reqs, lats: lastSecond_, requests_, latencies_; the totals of     *)
(* stat.h; seen: the responses recorded since the last reset.  sorted,     *)
(* rows: the latencies of a load test and the rows saved of them.          *)
VARIABLE st

StatElapsed == {-1, 2}                      \* microseconds; the clock may step back
StatInterval == 5                           \* kInterval

(* SudokuStat::SudokuStat and reset, which keeps droppedRequests_.         *)
StatNew(dropped) == [last |-> 0, reqs |-> <<>>, lats |-> <<>>, requests |-> 0, responses |-> 0,
                     solved |-> 0, bad |-> 0, dropped |-> dropped, latency |-> 0, badLatency |-> 0]
StatInit == st = [s |-> StatNew(0), seen |-> <<>>, count |-> 0, sorted |-> <<>>, rows |-> <<>>]

(* push_back on a full circular_buffer overwrites its front.               *)
StatPush(s) == LET keep(q) == IF Len(q) = StatSeconds THEN Append(Tail(q), 0) ELSE Append(q, 0)
               IN [s EXCEPT !.reqs = keep(@), !.lats = keep(@)]
StatAdd(s, k, elapsed) == [s EXCEPT !.reqs[k] = @ + 1, !.lats[k] = @ + elapsed]

RECURSIVE StatAdvance(_, _)
StatAdvance(s, second) ==
  IF s.last >= second THEN s ELSE StatAdvance([StatPush(s) EXCEPT !.last = @ + 1], second)

StatWindow_OneShort(s, second, elapsed) ==
  LET first == s.last - Len(s.reqs) + 1
      back(t) == StatAdd(t, Len(t.reqs), elapsed)
  IN CASE s.last = second -> back(s)
       [] s.last + 1 = second \/ s.last = 0 -> back([StatPush(s) EXCEPT !.last = second])
       [] second > s.last + 1 /\ s.last # 0 /\ second <= s.last + StatSeconds ->
            back([StatPush(s) EXCEPT !.last = second])
       [] second > s.last + StatSeconds /\ s.last # 0 ->
            back([StatPush([s EXCEPT !.reqs = <<>>, !.lats = <<>>]) EXCEPT !.last = second])
       [] second < s.last /\ second >= first -> StatAdd(s, second - first + 1, elapsed)
       [] OTHER -> s

(* recordResponse, the window: the same second, the next one or the first, *)
(* a jump ahead within the window or beyond it, a jump back, or too old.   *)
StatWindow(s, second, elapsed) ==
  LET first == s.last - Len(s.reqs) + 1
      back(t) == StatAdd(t, Len(t.reqs), elapsed)
  IN CASE s.last = second -> back(s)
       [] s.last + 1 = second \/ s.last = 0 -> back([StatPush(s) EXCEPT !.last = second])
       [] second > s.last + 1 /\ s.last # 0 /\ second < s.last + StatSeconds ->
            back(StatAdvance(s, second))
       [] second >= s.last + StatSeconds /\ s.last # 0 /\ second > s.last + 1 ->
            back([StatPush([s EXCEPT !.reqs = <<>>, !.lats = <<>>]) EXCEPT !.last = second])
       [] second < s.last /\ second >= first -> StatAdd(s, second - first + 1, elapsed)
       [] OTHER -> s

(* recordResponse *)
StatResponse(second, elapsed, isSolved) ==
  LET s == [st.s EXCEPT !.responses = @ + 1, !.solved = @ + (IF isSolved THEN 1 ELSE 0)]
  IN /\ st.count < StatRecords /\ st.sorted = <<>>
     /\ st' = [st EXCEPT !.count = @ + 1, !.seen = Append(@, [second |-> second, elapsed |-> elapsed]),
                 !.s = IF elapsed < 0 THEN [s EXCEPT !.badLatency = @ + 1]
                       ELSE StatWindow([s EXCEPT !.latency = @ + elapsed], second, elapsed)]

(* recordRequest, recordBadRequest and recordDroppedRequest: one request,  *)
(* which was good, bad or refused.                                         *)
StatRequest == /\ st.s.requests < 1 /\ st.seen = <<>>
               /\ \E d \in {0, 1} : \E b \in 0..(1 - d) :
                    st' = [st EXCEPT !.s.requests = @ + 1, !.s.bad = @ + b, !.s.dropped = @ + d]

StatReset == /\ st.seen # <<>>
             /\ st' = [st EXCEPT !.s = StatNew(st.s.dropped), !.seen = <<>>]

-----------------------------------------------------------------------------
StatPercentile_Floor(lat, percent) ==
  lat[IF percent > 0 THEN Max({(Len(lat) * percent) \div 100, 1}) ELSE 1]

(* getPercentile, on sorted latencies.                                     *)
StatPercentile(lat, percent) ==
  lat[IF percent > 0 THEN (Len(lat) * percent + 99) \div 100 ELSE 1]

(* Percentile::save: rows of low, count and the sum so far.                *)
RECURSIVE StatRows(_, _, _, _)
StatRows(lat, low, count, sum) ==
  IF lat = <<>> THEN <<[low |-> low, count |-> count, sum |-> sum + count]>>
  ELSE IF Head(lat) < low + StatInterval THEN StatRows(Tail(lat), low, count + 1, sum)
  ELSE <<[low |-> low, count |-> count, sum |-> sum + count]>>
         \o StatRows(Tail(lat), (Head(lat) \div StatInterval) * StatInterval, 1, sum + count)

(* tock: what a load test reports of the latencies it has collected.       *)
StatTock ==
  /\ st.sorted = <<>> /\ st.count = 0 /\ st.s = StatNew(0)
  /\ \E n \in 1..StatSamples : \E lat \in [1..n -> {0, 4, 5, 14}] :
       /\ \A k \in 1..(n - 1) : lat[k] <= lat[k + 1]
       /\ st' = [st EXCEPT !.sorted = lat,
                   !.rows = StatRows(lat, (Head(lat) \div StatInterval) * StatInterval, 0, 0)]

StatNext == \/ \E second \in 1..StatClock, elapsed \in StatElapsed, isSolved \in BOOLEAN :
                 StatResponse(second, elapsed, isSolved)
            \/ StatRequest \/ StatReset \/ StatTock

-----------------------------------------------------------------------------
(* Every second of the window shows exactly the responses of that second   *)
(* and their latencies, in whatever order the threads recorded them and    *)
(* however the clock jumped: what slides out of the window, or arrives too *)
(* late for it, is never counted for another second.                       *)
StatExact ==
  LET s == st.s
      of(second) == SelectSeq(st.seen, LAMBDA r : r.second = second /\ r.elapsed >= 0)
      sum(q) == FoldLeft(LAMBDA a, r : a + r.elapsed, 0, q)
  IN /\ Len(s.reqs) = Len(s.lats) /\ Len(s.reqs) <= StatSeconds
     /\ \A k \in DOMAIN s.reqs :
          LET q == of(s.last - Len(s.reqs) + k)
          IN s.reqs[k] = Len(q) /\ s.lats[k] = sum(q)
     /\ s.last = Max({0} \cup {r.second : r \in {x \in ToSet(st.seen) : x.elapsed >= 0}})

(* A percentile is the least latency that this share of the responses does *)
(* not exceed, and the rows of the histogram account for every response in *)
(* the row of its bucket.                                                  *)
StatRanks == st.sorted # <<>> =>
  /\ \A p \in {50, 90, 99} :
       LET v == StatPercentile(st.sorted, p)
           upTo(x) == 100 * Len(SelectSeq(st.sorted, LAMBDA y : y <= x))
       IN /\ upTo(v) >= p * Len(st.sorted)
          /\ \A x \in ToSet(st.sorted) : x < v => upTo(x) < p * Len(st.sorted)
  /\ Last(st.rows).sum = Len(st.sorted)
  /\ \A r \in ToSet(st.rows) :
       r.count = Len(SelectSeq(st.sorted, LAMBDA y : r.low <= y /\ y < r.low + StatInterval))

(* The reports of the Sudoku programs, whole.                              *)
StatSound == StatExact /\ StatRanks
=============================================================================
