-------------------------------- MODULE Logs --------------------------------
(***************************************************************************)
(* Logging: numbers and units (LogStream.cc), a line put together in a     *)
(* fixed buffer (LogStream.h, Logging.cc), the log file that is flushed    *)
(* and rolled by size and by time (LogFile.cc, FileUtil.cc), and small     *)
(* files read while they change (FileUtil.cc).                             *)
(***************************************************************************)
EXTENDS Integers, Sequences, FiniteSetsExt, SequencesExt

CONSTANTS LogSize,         \* the size of a FixedBuffer
          LogMaxNumeric,   \* kMaxNumericSize
          LogLines,        \* bound: lines appended to the log file
          LogClockEnd,     \* bound: the clock
          SmallMost        \* bound: the size of the small file

LogPeriod == 3             \* kRollPerSeconds_
LogRollSize == 3
LogInterval == 1           \* flushInterval_
LogEveryN == 2             \* checkEveryN_
SmallBuf == 2              \* sizeof(buf_)
SmallMax == 3              \* maxSize

(* kind: which part this behaviour is about.  n: the number that is        *)
(* formatted.  line, user: the pieces in the buffer, and those streamed.   *)
(* clock, zone: the time and the zone of the logger; cache: t_time.        *)
(* file: the log file.  small: the small file and what was read of it.     *)
VARIABLE lg

LogStart == [at |-> 1, files |-> <<>>, written |-> 0, count |-> 0, period |-> 0, roll |-> 0,
             flush |-> 0, calls |-> 0, added |-> 0, safe |-> 0, checked |-> TRUE, late |-> FALSE, crashed |-> FALSE]
SmallStart == [size |-> 0, got |-> 0, err |-> "", pc |-> "open", still |-> TRUE]

LogInit == \E k \in {"format", "line", "file", "small"} :
  lg = [kind |-> k, n |-> 0, line |-> <<>>, user |-> <<>>, pc |-> "new", clock |-> 1, zone |-> FALSE,
        cache |-> [second |-> 0, zone |-> FALSE], shown |-> <<>>, switched |-> 0,
        file |-> LogStart, small |-> SmallStart]

-----------------------------------------------------------------------------
(* convert: digits from the last to the first, then the sign, reversed.    *)
(* The remainder of C has the sign of its left side, which the table zero  *)
(* makes up for.                                                           *)
RECURSIVE LogDigits(_, _)
LogDigits(v, base) ==
  LET size == IF v < 0 THEN -v ELSE v
  IN <<size % base>> \o (IF size \div base = 0 THEN <<>> ELSE LogDigits(size \div base, base))
LogMinus == -1
LogConvert_Forward(v) == LogDigits(v, 10) \o (IF v < 0 THEN <<LogMinus>> ELSE <<>>)
LogConvert(v) == Reverse(LogDigits(v, 10) \o (IF v < 0 THEN <<LogMinus>> ELSE <<>>))
(* convertHex *)
LogConvertHex(v) == Reverse(LogDigits(v, 16))

(* What "%.df" prints of s / unit: the digits before and after the point,  *)
(* as one number; a tie goes either way, as the double happens to lie.     *)
LogPrinted(s, unit, d) ==
  LET step == unit \div 10 ^ d
      low == s \div step
      rest == s % step
  IN {x \in {low, low + 1} : IF x = low THEN 2 * rest <= step ELSE 2 * rest >= step}
LogShown(s, unit, d) == [unit |-> unit, d |-> d, digits |-> LogPrinted(s, unit, d)]

LogFormatSI_Round(s) ==
  CASE s < 1000 -> LogShown(s, 1, 0)
    [] s >= 1000 /\ s < 10000 -> LogShown(s, 1000, 2)
    [] s >= 10000 /\ s < 99950 -> LogShown(s, 1000, 1)
    [] s >= 99950 /\ s < 999500 -> LogShown(s, 1000, 0)
    [] s >= 999500 /\ s < 9995000 -> LogShown(s, 1000000, 2)
    [] s >= 9995000 /\ s < 99950000 -> LogShown(s, 1000000, 1)
    [] OTHER -> LogShown(s, 1000000, 0)
(* formatSI, up to the M.                                                  *)
LogFormatSI(s) ==
  CASE s < 1000 -> LogShown(s, 1, 0)
    [] s >= 1000 /\ s < 9995 -> LogShown(s, 1000, 2)
    [] s >= 9995 /\ s < 99950 -> LogShown(s, 1000, 1)
    [] s >= 99950 /\ s < 999500 -> LogShown(s, 1000, 0)
    [] s >= 999500 /\ s < 9995000 -> LogShown(s, 1000000, 2)
    [] s >= 9995000 /\ s < 99950000 -> LogShown(s, 1000000, 1)
    [] OTHER -> LogShown(s, 1000000, 0)

(* formatIEC, up to the Mi.  With 1024 for unit "%.df" prints the nearest  *)
(* multiple of 10^-d; LogBelow is n < unit * a / b.                        *)
LogBelow(n, unit, a, b) == n < (unit \div b) * a + ((unit % b) * a + b - 1) \div b
LogBinary(n, unit, d) ==
  LET whole == (n \div unit) * 10 ^ d
      low == whole + ((n % unit) * 10 ^ d) \div unit
      rest == ((n % unit) * 10 ^ d) % unit
  IN [unit |-> unit, d |-> d, digits |-> {x \in {low, low + 1} : IF x = low THEN 2 * rest <= unit ELSE 2 * rest >= unit}]
LogFormatIEC(n) ==
  LET scale(unit) == IF LogBelow(n, unit, 1999, 200) THEN LogBinary(n, unit, 2)
                     ELSE IF LogBelow(n, unit, 1999, 20) THEN LogBinary(n, unit, 1)
                     ELSE LogBinary(n, unit, 0)
  IN IF n < 1024 THEN LogBinary(n, 1, 0)
     ELSE IF LogBelow(n, 1024, 2047, 2) THEN scale(1024) ELSE scale(1048576)

LogEdges == {0, 9, 10, 999, 1000, 1023, 1024, 9994, 9995, 10234, 10235, 99949, 99950, 102348, 102349,
             999499, 999500, 1048063, 1048064, 9994999, 9995000, 10480517, 10480518, 99949999, 99950000,
             104805171, 104805172, 999499999}
LogNumber == /\ lg.kind = "format" /\ lg.n = 0
             /\ \E n \in LogEdges \cup {-k : k \in LogEdges} \cup (-130..300) : lg' = [lg EXCEPT !.n = n]

-----------------------------------------------------------------------------
LogAvail(line) == LogSize - FoldLeft(LAMBDA n, p : n + p.len, 0, line)
LogPiece(what, len, num) == [what |-> what, len |-> len, num |-> num]

LogAppend_Partly(line, p) ==
  LET room == LogAvail(line) IN IF room > 0 THEN Append(line, [p EXCEPT !.len = Min({p.len, room})]) ELSE line
(* FixedBuffer::append: all of it or nothing.                              *)
LogAppend(line, p) == IF LogAvail(line) > p.len THEN Append(line, p) ELSE line
(* LogStream::formatInteger, and the other numbers.                        *)
LogInteger(line, p) == IF LogAvail(line) >= LogMaxNumeric THEN Append(line, p) ELSE line
LogStreamed(line, p) == IF p.num THEN LogInteger(line, p) ELSE LogAppend(line, p)

(* Logger::Impl::formatTime: the text of the second is kept per thread.    *)
LogFormatTime(x) ==
  IF x.clock = x.cache.second THEN [x EXCEPT !.shown = <<x.cache.second, x.cache.zone, x.zone>>]
  ELSE [x EXCEPT !.cache = [second |-> x.clock, zone |-> x.zone], !.shown = <<x.clock, x.zone, x.zone>>]

(* Logger::Impl::Impl, what the caller streams, and finish.                *)
LogBegin ==
  /\ lg.kind = "line" /\ lg.pc = "new"
  /\ \E errno \in BOOLEAN :
       LET head == <<LogPiece("time", 3, FALSE), LogPiece("level", 1, FALSE)>>
                   \o (IF errno THEN <<LogPiece("errno", 2, FALSE)>> ELSE <<>>)
       IN lg' = [LogFormatTime(lg) EXCEPT !.pc = "user", !.user = head, !.line = FoldLeft(LogStreamed, <<>>, head)]
LogOperator ==
  /\ lg.kind = "line" /\ lg.pc = "user" /\ Len(lg.user) < 5
  /\ \E len \in 1..4, num \in BOOLEAN :
       LET p == LogPiece("user", len, num)
       IN /\ num => len < LogMaxNumeric
          /\ lg' = [lg EXCEPT !.user = Append(@, p), !.line = LogStreamed(@, p)]
LogFinish ==
  /\ lg.kind = "line" /\ lg.pc = "user"
  /\ LET tail == <<LogPiece("file", 2, FALSE), LogPiece("number", 1, TRUE), LogPiece("newline", 1, FALSE)>>
     IN lg' = [lg EXCEPT !.pc = "out", !.user = @ \o tail, !.line = FoldLeft(LogStreamed, @, tail)]
(* Logger::~Logger hands the line over; the next one may be a second later.*)
LogOut == /\ lg.kind = "line" /\ lg.pc = "out" /\ lg.clock < LogClockEnd
          /\ \E later \in {0, 1} :
               lg' = [lg EXCEPT !.pc = "new", !.line = <<>>, !.user = <<>>, !.shown = <<>>, !.clock = @ + later]
(* Logger::setTimeZone *)
LogSetZone == /\ lg.kind = "line" /\ lg.pc = "new" /\ ~lg.zone
              /\ lg' = [lg EXCEPT !.zone = TRUE, !.switched = lg.clock]

-----------------------------------------------------------------------------
(* The current file is the last of files: its name is the time it was      *)
(* opened, disk and buf are the bytes the system and stdio hold of it.     *)
LogBytes(f) == FoldLeft(LAMBDA n, x : n + x.disk + x.buf, 0, f.files)
LogOnDisk(f) == FoldLeft(LAMBDA n, x : n + x.disk, 0, f.files)
(* fflush, and fclose.                                                     *)
LogFlushed(files) == [i \in DOMAIN files |-> [files[i] EXCEPT !.disk = @ + files[i].buf, !.buf = 0]]
LogFlush(f) == [f EXCEPT !.files = LogFlushed(@), !.safe = f.added]

LogRollFile_AnySecond(f) ==
  [f EXCEPT !.roll = f.at, !.flush = f.at, !.period = f.at \div LogPeriod, !.written = 0, !.safe = f.added,
            !.files = Append(LogFlushed(@), [name |-> f.at, disk |-> 0, buf |-> 0])]
(* LogFile::rollFile and getLogFileName: at most one file a second.  The   *)
(* old AppendFile is closed when file_ is reset.                           *)
LogRollFile(f) ==
  IF f.at > f.roll
  THEN [f EXCEPT !.roll = f.at, !.flush = f.at, !.period = f.at \div LogPeriod, !.written = 0, !.safe = f.added,
                 !.files = Append(LogFlushed(@), [name |-> f.at, disk |-> 0, buf |-> 0])]
  ELSE f

(* AppendFile::append: fwrite in a loop; on an error the rest is given up, *)
(* and writtenBytes_ counts it all the same.  got: what was written.       *)
LogWrite(f, len, got) == [f EXCEPT !.files[Len(f.files)].buf = @ + got, !.written = @ + len, !.added = @ + got]

LogAppendUnlocked_NoFlush(f, len, got) ==
  LET w == LogWrite(f, len, got)
  IN IF w.written > LogRollSize THEN LogRollFile(w)
     ELSE IF w.count + 1 < LogEveryN THEN [w EXCEPT !.count = @ + 1]
     ELSE LET z == [w EXCEPT !.count = 0] IN IF z.at \div LogPeriod # z.period THEN LogRollFile(z) ELSE z
(* LogFile::append_unlocked *)
LogAppendUnlocked(f, len, got) ==
  LET w == LogWrite(f, len, got)
  IN IF w.written > LogRollSize THEN LogRollFile(w)
     ELSE IF w.count + 1 < LogEveryN THEN [w EXCEPT !.count = @ + 1]
     ELSE LET z == [w EXCEPT !.count = 0]
          IN IF z.at \div LogPeriod # z.period THEN LogRollFile(z)
             ELSE IF z.at - z.flush > LogInterval THEN [LogFlush(z) EXCEPT !.flush = z.at]
             ELSE z

LogSet(f) == lg' = [lg EXCEPT !.file = f]
LogOpen == lg.kind = "file" /\ lg.file.files = <<>> /\ LogSet(LogRollFile(lg.file))
LogFileAppend == /\ lg.kind = "file" /\ lg.file.files # <<>> /\ ~lg.file.crashed /\ lg.file.calls < LogLines
                 /\ \E len \in 1..2 : \E got \in 0..len :
                      LET g == LogAppendUnlocked(lg.file, len, got)
                      IN LogSet([g EXCEPT !.calls = @ + 1, !.checked = g.count = 0 /\ g.written <= LogRollSize,
                                          !.late = g.at <= lg.file.roll])
(* LogFile::flush *)
LogFileFlush == /\ lg.kind = "file" /\ lg.file.files # <<>> /\ ~lg.file.crashed
                /\ LogSet([LogFlush(lg.file) EXCEPT !.checked = FALSE])
(* The buffer of stdio fills up and is written.                            *)
LogSpill == /\ lg.kind = "file" /\ lg.file.files # <<>> /\ ~lg.file.crashed
            /\ Last(lg.file.files).buf > 0
            /\ LogSet([lg.file EXCEPT !.files[Len(lg.file.files)] =
                         [@ EXCEPT !.disk = @ + 1, !.buf = @ - 1]])
(* The clock is set forward or back.                                       *)
LogClock == /\ lg.kind = "file" /\ lg.file.files # <<>> /\ ~lg.file.crashed
            /\ \E t \in {lg.file.at - 1, lg.file.at + 1, lg.file.at + 2} \cap (1..LogClockEnd) :
                 LogSet([lg.file EXCEPT !.at = t, !.checked = FALSE])
LogCrash == /\ lg.kind = "file" /\ lg.file.files # <<>> /\ ~lg.file.crashed
            /\ LogSet([lg.file EXCEPT !.crashed = TRUE, !.checked = FALSE,
                                      !.files = [i \in DOMAIN @ |-> [@[i] EXCEPT !.buf = 0]]])

-----------------------------------------------------------------------------
(* FileUtil::ReadSmallFile: the constructor, then read(2) until maxSize or *)
(* the end, while someone else writes to the file.                         *)
SmallSet(s) == lg' = [lg EXCEPT !.small = s]
SmallOpen == /\ lg.kind = "small" /\ lg.small.pc = "open"
             /\ \/ SmallSet([lg.small EXCEPT !.err = "open", !.pc = "done"])
                \/ SmallSet([lg.small EXCEPT !.pc = "read"])
SmallReadToString_Whole(s) ==
  LET left == IF s.size > s.got THEN s.size - s.got ELSE 0
      n == Min({SmallBuf, left})
  IN IF s.got >= SmallMax THEN {[s EXCEPT !.pc = "done"]}
     ELSE {[s EXCEPT !.got = @ + n, !.pc = IF n = 0 THEN "done" ELSE "read"]}
(* readToString, one round of its loop: nothing read is the end.           *)
SmallReadToString(s) ==
  LET want == Min({SmallMax - s.got, SmallBuf})
      left == IF s.size > s.got THEN s.size - s.got ELSE 0
  IN IF s.got >= SmallMax THEN {[s EXCEPT !.pc = "done"]}
     ELSE {[s EXCEPT !.err = "read", !.pc = "done"]}
          \cup {[s EXCEPT !.got = @ + n, !.pc = IF n = 0 THEN "done" ELSE "read"] :
                  n \in {k \in 0..Min({want, left}) : k = 0 <=> left = 0}}
SmallRead == lg.kind = "small" /\ lg.small.pc = "read" /\ \E s \in SmallReadToString(lg.small) : SmallSet(s)
SmallGrow == /\ lg.kind = "small" /\ lg.small.pc # "done"
             /\ \E n \in 0..SmallMost :
                  n # lg.small.size /\ SmallSet([lg.small EXCEPT !.size = n, !.still = @ /\ lg.small.pc = "open"])

LogNext == \/ LogNumber \/ LogBegin \/ LogOperator \/ LogFinish \/ LogOut \/ LogSetZone
           \/ LogOpen \/ LogFileAppend \/ LogFileFlush \/ LogSpill \/ LogClock \/ LogCrash
           \/ SmallOpen \/ SmallRead \/ SmallGrow

-----------------------------------------------------------------------------
(* A number is printed digit by digit and reads back as itself, in base 10 *)
(* and 16, for negative ones too (convert and convertHex).                 *)
RECURSIVE LogValue(_, _)
LogValue(d, base) == IF d = <<>> THEN 0 ELSE LogValue(Front(d), base) * base + Last(d)
LogReadsBack ==
  LET d == LogConvert(lg.n)
  IN IF lg.n < 0 THEN Head(d) = LogMinus /\ LogValue(Tail(d), 10) = -lg.n
     ELSE LogValue(d, 10) = lg.n /\ LogValue(LogConvertHex(lg.n), 16) = lg.n

(* A number with a unit keeps the length that LogStream.h promises, at     *)
(* most 5 characters for formatSI and 6 for formatIEC, whichever way ties  *)
(* are rounded at the edges of the ranges, and is off by at most half of   *)
(* its last digit.                                                         *)
LogChars(x) == Len(LogDigits(x, 10))
LogLength(r, unit) ==
  Max({LogChars(x) : x \in r.digits}) + (IF r.d > 0 THEN 1 ELSE 0) + (IF r.unit = 1 THEN 0 ELSE unit)
LogUnits == lg.n >= 0 => /\ LogLength(LogFormatSI(lg.n), 1) <= 5
                         /\ LogLength(LogFormatIEC(lg.n), 2) <= 6
                         /\ LET r == LogFormatSI(lg.n)
                                step == r.unit \div 10 ^ r.d
                            IN \A x \in r.digits : 2 * (x * step - lg.n) \in (-step)..step

(* The line holds whole pieces, in the order in which they were streamed,  *)
(* never runs over the buffer, loses nothing while there is room for a     *)
(* number, and loses its newline only when at most one byte is left        *)
(* (FixedBuffer::append, formatInteger, Logger::Impl::finish).             *)
LogWhole ==
  LET kept(S) == [i \in 1..Cardinality(S) |-> lg.user[CHOOSE j \in S : Cardinality({k \in S : k <= j}) = i]]
  IN
  /\ LogAvail(lg.line) >= 0
  /\ \E S \in SUBSET DOMAIN lg.user : lg.line = kept(S)
  /\ LogAvail(lg.user) >= LogMaxNumeric => lg.line = lg.user
  /\ (lg.pc = "out" /\ Last(lg.line).what # "newline") => LogAvail(lg.line) <= 1

(* A line shows the second it was logged in, and the zone in force, unless *)
(* the zone was set within that second (Logger::Impl::formatTime).         *)
LogTimed == (lg.pc # "new" /\ lg.kind = "line") =>
              /\ lg.shown[1] = lg.clock
              /\ lg.shown[2] # lg.shown[3] => lg.switched = lg.clock

(* Bytes that were accepted are in the files in order, none is lost before *)
(* a crash, a crash loses nothing that was flushed or belongs to a closed  *)
(* file, and no two files have one name, even when the clock is set back   *)
(* (LogFile::rollFile, flush).                                             *)
LogKept == LET f == lg.file
           IN /\ ~f.crashed => LogBytes(f) = f.added
              /\ LogOnDisk(f) >= f.safe
              /\ \A i, j \in DOMAIN f.files : i < j => f.files[i].name < f.files[j].name
              /\ \A i \in 1..(Len(f.files) - 1) : f.files[i].buf = 0

(* A file longer than rollSize is still in use only if it was opened in    *)
(* the second of the last line or later; and after every checkEveryN_      *)
(* lines what is older than flushInterval_ is flushed, unless the clock    *)
(* was set back to an earlier period (LogFile::append_unlocked).           *)
LogBounded == LET f == lg.file
              IN /\ f.written > LogRollSize => f.late
                 /\ (f.checked /\ f.files # <<>>) =>
                      (f.at - f.flush <= LogInterval \/ f.at \div LogPeriod < f.period)

(* A small file is read from its start, never beyond maxSize, and if it    *)
(* did not change all of it is read (ReadSmallFile::readToString).         *)
SmallWhole == LET s == lg.small
              IN /\ s.got <= SmallMax
                 /\ (s.pc = "done" /\ s.err = "" /\ s.still) => s.got = Min({s.size, SmallMax})

(* Numbers, lines, log files and small files are as the comments above     *)
(* LogReadsBack to SmallWhole say.                                         *)
LogsSound ==
  CASE lg.kind = "format" -> LogReadsBack /\ LogUnits
    [] lg.kind = "line" -> LogWhole /\ LogTimed
    [] lg.kind = "file" -> LogKept /\ LogBounded
    [] OTHER -> SmallWhole
=============================================================================
