------------------------------- MODULE Dates --------------------------------
(***************************************************************************)
(* Dates and time zones: muduo/base/Date.cc, TimeZone.cc and Timestamp.    *)
(* The calendar is walked day by day through years of each kind; a zone    *)
(* file, whole or cut off anywhere, is read and its zone asked for times.  *)
(* The walk counts seconds; zones count half hours.                        *)
(***************************************************************************)
EXTENDS Integers, Sequences, FiniteSetsExt, SequencesExt

CONSTANTS DateYears,      \* the years that are walked
          ZoneEnd         \* bound: the last half hour a zone is asked for

(* at: the day of the walk, with number the days since the first one; zone:*)
(* the file's content; data: what readTimeZoneFile made of it, and whether *)
(* it reached the end.                                                     *)
VARIABLE dt

DateDay(y, m, d) == [year |-> y, month |-> m, day |-> d]
ZoneType(off, dst) == [off |-> off, dst |-> dst]
ZoneNone == [types |-> <<>>, trans |-> <<>>, names |-> FALSE]

(* Zone files: a fixed zone, one with summer time, one whose first type is *)
(* summer time, one that moves by half an hour without summer time.        *)
ZoneFiles ==
  { [trans |-> <<>>, idx |-> <<>>, types |-> <<ZoneType(-9, FALSE)>>],
    [trans |-> <<6, 16, 26>>, idx |-> <<2, 1, 2>>, types |-> <<ZoneType(4, FALSE), ZoneType(6, TRUE)>>],
    [trans |-> <<10, 20>>, idx |-> <<2, 1>>, types |-> <<ZoneType(1, TRUE), ZoneType(-1, FALSE)>>],
    [trans |-> <<8, 18>>, idx |-> <<2, 1>>, types |-> <<ZoneType(0, FALSE), ZoneType(-1, FALSE)>>] }

DateInit == \E y \in DateYears : \E z \in ZoneFiles :
  dt = [at |-> DateDay(y, 1, 1), number |-> 0, zone |-> z, data |-> ZoneNone, read |-> -1]

-----------------------------------------------------------------------------
(* getJulianDayNumber *)
DateJulian_January(y0, m0, d0) ==
  LET a == (15 - m0) \div 12
      y == y0 + 4800 - a
      m == m0 + 12 * a - 3
  IN d0 + (153 * m + 2) \div 5 + y * 365 + y \div 4 - y \div 100 + y \div 400 - 32045
DateJulian(y0, m0, d0) ==
  LET a == (14 - m0) \div 12
      y == y0 + 4800 - a
      m == m0 + 12 * a - 3
  IN d0 + (153 * m + 2) \div 5 + y * 365 + y \div 4 - y \div 100 + y \div 400 - 32045

(* getYearMonthDay *)
DateYmd(julian) ==
  LET a == julian + 32044
      b == (4 * a + 3) \div 146097
      c == a - (b * 146097) \div 4
      d == (4 * c + 3) \div 1461
      e == c - (1461 * d) \div 4
      m == (5 * e + 2) \div 153
  IN DateDay(b * 100 + d - 4800 + m \div 10, m + 3 - 12 * (m \div 10), e - (153 * m + 2) \div 5 + 1)

(* Date::weekDay; kJulianDayOf1970_01_01 *)
DateWeekDay(julian) == (julian + 1) % 7
Date1970 == DateJulian(1970, 1, 1)

(* The remainder and quotient of C, which round towards zero.              *)
DateDiv(a, b) == IF a < 0 THEN -((-a) \div b) ELSE a \div b
DateRem(a, b) == a - b * DateDiv(a, b)

(* fillHMS *)
DateHms(seconds) == [hour |-> seconds \div 3600, min |-> (seconds \div 60) % 60, sec |-> seconds % 60]

DateToUtc_NoBorrow(t) ==
  LET s == DateRem(t, 86400)
      j == DateDiv(t, 86400) + Date1970
  IN [ymd |-> DateYmd(j), hms |-> DateHms(IF s < 0 THEN s + 86400 ELSE s), wday |-> DateWeekDay(j),
      yday |-> j - DateJulian(DateYmd(j).year, 1, 1)]
(* TimeZone::toUtcTime *)
DateToUtc(t) ==
  LET s == DateRem(t, 86400)
      j == DateDiv(t, 86400) + Date1970 - (IF s < 0 THEN 1 ELSE 0)
  IN [ymd |-> DateYmd(j), hms |-> DateHms(IF s < 0 THEN s + 86400 ELSE s), wday |-> DateWeekDay(j),
      yday |-> j - DateJulian(DateYmd(j).year, 1, 1)]

(* TimeZone::fromUtcTime *)
DateFromUtc(ymd, hms) ==
  (DateJulian(ymd.year, ymd.month, ymd.day) - Date1970) * 86400 + hms.hour * 3600 + hms.min * 60 + hms.sec

-----------------------------------------------------------------------------
(* readTimeZoneFile, when the file holds n items: the magic number, version*)
(* and reserved bytes, six counts, the times, their types, three items for *)
(* each type and the names.  What was stored before an exception stays.    *)
ZoneRead == \E n \in 0..20 :
  LET z == dt.zone
      times == 9 + 2 * Len(z.trans)
      whole == Min({Len(z.types), IF n < times THEN 0 ELSE (n - times) \div 3})
      all == n >= times + 3 * Len(z.types)
  IN /\ dt.read = -1 /\ dt.number = 0
     /\ dt' = [dt EXCEPT !.read = n, !.data =
          [types |-> SubSeq(z.types, 1, whole),
           trans |-> IF all THEN [i \in DOMAIN z.trans |->
                       [gmt |-> z.trans[i], local |-> z.trans[i] + z.types[z.idx[i]].off, idx |-> z.idx[i]]]
                     ELSE <<>>,
           names |-> n > times + 3 * Len(z.types)]]

ZoneFind_NoStep(data, x, clock) ==
  IF data.trans = <<>> \/ x < data.trans[1][clock] THEN data.types[1]
  ELSE LET from == {i \in DOMAIN data.trans : x <= data.trans[i][clock]}
       IN data.types[data.trans[IF from = {} THEN Len(data.trans) ELSE Min(from)].idx]

(* findLocaltime: the type in force at x, by the transitions' times in GMT *)
(* or in local time.                                                       *)
ZoneFind(data, x, clock) ==
  IF data.trans = <<>> \/ x < data.trans[1][clock] THEN data.types[1]
  ELSE LET from == {i \in DOMAIN data.trans : x <= data.trans[i][clock]}
           i == IF from = {} THEN Len(data.trans)
                ELSE IF x = data.trans[Min(from)][clock] THEN Min(from) ELSE Min(from) - 1
       IN data.types[data.trans[i].idx]

(* TimeZone::toLocalTime *)
ZoneToLocal(data, t) ==
  LET type == ZoneFind(data, t, "gmt")
  IN [time |-> t + type.off, dst |-> type.dst]

ZoneFromLocal_NoHack(data, l) == l.time - ZoneFind(data, l.time, "local").off
(* TimeZone::fromLocalTime, with the hour that is taken off in the hour    *)
(* that comes twice.                                                       *)
ZoneFromLocal(data, l) ==
  LET type == ZoneFind(data, l.time, "local")
      try == ZoneToLocal(data, l.time - type.off)
      again == l.dst /\ ~try.dst /\ try.time % 48 = l.time % 48
  IN (IF again THEN l.time - 2 ELSE l.time) - type.off

-----------------------------------------------------------------------------
(* The calendar, by its rules.                                             *)
DateLeap(y) == y % 4 = 0 /\ (y % 100 # 0 \/ y % 400 = 0)
DateMonth(y, m) == CASE m = 2 -> IF DateLeap(y) THEN 29 ELSE 28 [] m \in {4, 6, 9, 11} -> 30 [] OTHER -> 31
DateTomorrow ==
  LET d == dt.at
  IN /\ dt.zone.trans = <<>> /\ dt.read = -1 /\ dt.number < 366
     /\ dt' = [dt EXCEPT !.number = @ + 1, !.at =
          IF d.day < DateMonth(d.year, d.month) THEN DateDay(d.year, d.month, d.day + 1)
          ELSE IF d.month < 12 THEN DateDay(d.year, d.month + 1, 1) ELSE DateDay(d.year + 1, 1, 1)]

DateNext == DateTomorrow \/ ZoneRead

(* Days are numbered one after the other, and the number gives back year,  *)
(* month and day, in every kind of year; 1900-01-01 was a Monday.          *)
DateExact ==
  LET first == dt.at.year - (IF dt.number > 0 /\ dt.number >= (IF DateLeap(dt.at.year - 1) THEN 366 ELSE 365)
                                /\ dt.at.month = 1 THEN 1 ELSE 0)
      j == DateJulian(dt.at.year, dt.at.month, dt.at.day)
  IN /\ j = DateJulian(first, 1, 1) + dt.number
     /\ DateYmd(j) = dt.at
     /\ DateWeekDay(j) = (1 + (j - 2415021)) % 7
     /\ j = 2415021 + 365 * (dt.at.year - 1900)
              + Cardinality({y \in 1900..(dt.at.year - 1) : DateLeap(y)}) + (j - DateJulian(dt.at.year, 1, 1))

(* Seconds, before and after 1970, are split into a date and a time of day *)
(* and put together again.                                                 *)
DateSeconds == dt.at.year \in 1902..2037 => \A s \in {0, 59, 60, 3599, 3600, 86399} :
  LET t == DateFromUtc(dt.at, DateHms(s))
      utc == DateToUtc(t)
  IN utc.ymd = dt.at /\ DateFromUtc(utc.ymd, utc.hms) = t /\ utc.yday \in 0..365

(* A zone that was read whole gives each time the offset of the last       *)
(* transition before it, and local times back again, the hour that comes   *)
(* twice included: the flag tells its two passes apart.  Without the flag, *)
(* where a zone moves back outside of summer time, only times that come    *)
(* once are certain.  A zone cut off short has the types it read and no    *)
(* transitions.                                                            *)
ZoneAt(t) == LET past == {i \in DOMAIN dt.zone.trans : dt.zone.trans[i] <= t}
             IN dt.zone.types[IF past = {} THEN 1 ELSE dt.zone.idx[Max(past)]]
ZoneExact == dt.data.names => \A t \in -4..ZoneEnd :
  LET l == ZoneToLocal(dt.data, t)
      alone == \A u \in -8..(ZoneEnd + 4) : u # t => ZoneToLocal(dt.data, u) # l
  IN /\ l = [time |-> t + ZoneAt(t).off, dst |-> ZoneAt(t).dst]
     /\ alone => ZoneFromLocal(dt.data, l) = t
ZoneCut == ~dt.data.names => dt.data.trans = <<>> \/ dt.data.types = dt.zone.types

(* Dates and zones, whole.                                                 *)
DatesSound == DateExact /\ DateSeconds /\ ZoneExact /\ ZoneCut
=============================================================================
