------------------------------- MODULE Weeks -------------------------------
(****************************************************************************)
(* Dates, weeks and hours: which week a number or a date means when it is   *)
(* asked on a given day (core/domain/time.ts, core/operations/_week.ts,     *)
(* _calendar-range.ts), asked by the overview (http/overview.ts), by the    *)
(* reference page (http/reference/app.ts) and by the operations.  A portal  *)
(* and a REST route are asked for a week's number alone, so both sides must *)
(* mean the same year's.  Time is counted in hours of UTC, and Stockholm is *)
(* one or two hours east of it.                                             *)
(****************************************************************************)
EXTENDS Integers, FiniteSets

CONSTANTS Starts,       \* days on which the clock starts
          Hours,        \* how long it runs (bound)
          Step,         \* hours between two instants looked at
          Far,          \* weeks from today that are asked about (bound)
          PageWeeks,    \* how far the page's reader moves (bound)
          None

-----------------------------------------------------------------------------
(* The calendar: days since Monday 1 January 2001, years up to 2099.        *)
weekday(d) == d % 7
january1(y) == 365 * (y - 2001) + (y - 2001) \div 4
getFullYear(d) == 2001 + (4 * d + 3) \div 1461
lastDayOf(y, days) == january1(y) + days - 1 + (IF y % 4 = 0 THEN 1 ELSE 0)
lastSunday(d) == d - ((weekday(d) + 1) % 7)

\* Summer time: from the last Sunday of March to that of October, at 01:00 UTC.
stockholmOffset(h) ==
  LET y == getFullYear(h \div 24)
  IN IF h >= 24 * lastSunday(lastDayOf(y, 90)) + 1 /\ h < 24 * lastSunday(lastDayOf(y, 304)) + 1
       THEN 2 ELSE 1
wallClock(h) == h + stockholmOffset(h)
stockholmToday(h) == wallClock(h) \div 24

-----------------------------------------------------------------------------
isoWeekMonday(y, w) ==
  LET jan4 == january1(y) + 3 IN jan4 - weekday(jan4) + (w - 1) * 7
isoWeeksInYear(y) == (isoWeekMonday(y + 1, 1) - isoWeekMonday(y, 1)) \div 7
isoWeekYear(d) == getFullYear(d + 3 - weekday(d))
isoWeekOfDate(d) == (d - isoWeekMonday(isoWeekYear(d), 1)) \div 7 + 1

abs(x) == IF x < 0 THEN -x ELSE x
distance(y, w, today) == abs(isoWeekMonday(y, w) - today)

\* The year, of the last, this and the next, in which the week starts nearest; the earlier of two.
nearestWeekYear(w, today) ==
  LET base  == isoWeekYear(today)
      years == {y \in base - 1 .. base + 1 : w <= isoWeeksInYear(y)}
      best  == {y \in years : \A z \in years : distance(y, w, today) <= distance(z, w, today)}
  IN IF years = {} THEN None ELSE CHOOSE y \in best : \A z \in best : y <= z

range(y, w) == [year |-> y, week |-> w, start |-> isoWeekMonday(y, w),
                end |-> isoWeekMonday(y, w) + 6]

weekOf(w, today) ==
  IF nearestWeekYear(w, today) = None THEN None ELSE range(nearestWeekYear(w, today), w)

\* The week of a date, refused when its number means another year's.
weekOfDate(d, today) ==
  IF nearestWeekYear(isoWeekOfDate(d), today) # isoWeekYear(d) THEN None
  ELSE range(isoWeekYear(d), isoWeekOfDate(d))

calendarRange(today) == [start |-> today - weekday(today), end |-> today - weekday(today) + 6]

\* The page's own week, by the Thursday's distance from the first of January.
pageWeekOf(today, offset) ==
  LET monday   == today - weekday(today) + 7 * offset
      thursday == monday + 3
  IN [week |-> (thursday - january1(getFullYear(thursday))) \div 7 + 1,
      start |-> monday, end |-> monday + 6]

\* The offset a wall-clock time is given: the earlier instant of two, the offset before of none.
wallClockToStockholm(wall) ==
  LET offsets == {stockholmOffset(wall - 3), stockholmOffset(wall + 3)}
      fits    == {o \in offsets : wallClock(wall - o) = wall}
  IN IF fits = {} THEN stockholmOffset(wall - 3) ELSE CHOOSE o \in fits : \A p \in fits : p <= o

-----------------------------------------------------------------------------
VARIABLES now,    \* the hour
          until,  \* when the clock stops
          asked,  \* a request under way: who asks, on which day, for which week
          answer

vars == <<now, until, asked, answer>>

Today == stockholmToday(now)

TypeOK ==
  /\ now <= until
  /\ asked # None => asked.week.week \in 1 .. 53 /\ asked.week.end = asked.week.start + 6
  /\ asked # None => weekday(asked.week.start) = 0
  /\ answer # None => answer.day >= answer.asked.day

Init ==
  /\ \E d \in Starts : now = 24 * d /\ until = 24 * d + Hours
  /\ asked = None /\ answer = None

Tick ==
  /\ now + Step <= until /\ now' = now + Step
  /\ asked # None \/ answer = None
  /\ UNCHANGED <<until, asked, answer>>

\* buildOverview(): the week of a date, or of today, then the sections by its number.
Overview ==
  /\ asked = None /\ answer = None
  /\ \E k \in -Far .. Far :
       LET week == weekOfDate(Today + 7 * k, Today)
       IN /\ week # None
          /\ asked' = [by |-> "overview", day |-> Today, week |-> week]
  /\ UNCHANGED <<now, until, answer>>

\* load(): the page's week, moved by its reader.
Page ==
  /\ asked = None /\ answer = None
  /\ \E k \in -PageWeeks .. PageWeeks :
       asked' = [by |-> "page", day |-> Today, week |-> pageWeekOf(Today, k)]
  /\ UNCHANGED <<now, until, answer>>

\* get_schedule and get_lunch_menu for that number, on the day they run.
getSchedule ==
  /\ asked # None
  /\ answer' = [day |-> Today, asked |-> asked, week |-> weekOf(asked.week.week, Today)]
  /\ asked' = None
  /\ UNCHANGED <<now, until>>

Done == answer # None /\ answer' = None /\ UNCHANGED <<now, until, asked>>

Next == Tick \/ Overview \/ Page \/ getSchedule \/ Done

Spec == Init /\ [][Next]_vars

-----------------------------------------------------------------------------
(* What a reader is shown under a week is that week: the number alone, sent *)
(* to the operation, is understood there as the same Monday, whoever        *)
(* computed it, when it is read on the day it was asked (_week.ts:38-59,    *)
(* time.ts:137-152, overview.ts:194-207, app.ts:160-172,638-655).           *)
SameWeek ==
  (answer # None /\ answer.day = answer.asked.day) =>
    /\ answer.week # None
    /\ answer.week.start = answer.asked.week.start /\ answer.week.end = answer.asked.week.end

(* A number means the nearest of all years that have it, not only of the *)
(* three looked at (time.ts:137-152).                                    *)
NearestOfAll ==
  (asked = None /\ answer = None) =>
    \A w \in 1 .. 53 : LET y == nearestWeekYear(w, Today)
                       IN y # None => \A z \in isoWeekYear(Today) - 3 .. isoWeekYear(Today) + 3 :
                            w <= isoWeeksInYear(z) => distance(y, w, Today) <= distance(z, w, Today)

(* Today, without arguments, is Stockholm's day: the calendar's week and *)
(* the schedule's are one, and hold it (_calendar-range.ts:77-104).      *)
ThisWeekHoldsToday ==
  LET week == weekOf(isoWeekOfDate(Today), Today)
  IN /\ Today * 24 <= wallClock(now) /\ wallClock(now) < Today * 24 + 24
     /\ calendarRange(Today) = [start |-> week.start, end |-> week.end]
     /\ Today \in week.start .. week.end

(* A local time names the instant whose clock showed it: the earlier one in *)
(* autumn's repeated hour, and in spring's missing one the offset of the    *)
(* hour before (time.ts:56-67).                                             *)
LocalTimeKept ==
  \A h \in now .. now + Step - 1 :
    LET wall  == wallClock(h)
        gap   == wall + 1
        named(w) == w - wallClockToStockholm(w)
        shown(w) == {i \in w - 3 .. w : wallClock(i) = w}
    IN /\ named(wall) \in shown(wall) /\ \A i \in shown(wall) : named(wall) <= i
       /\ shown(gap) = {} => wallClockToStockholm(gap) = stockholmOffset(h)

=============================================================================
