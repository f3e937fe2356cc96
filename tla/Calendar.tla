------------------------------ MODULE Calendar ------------------------------
(* BizDayConfig of bizday.cpp, and the calendar of time.cpp.  A line of a    *)
(* business day file is a date, Blank (stoi refuses it) or Header (it does   *)
(* not begin with a digit).                                                  *)
EXTENDS Integers, SequencesExt, FiniteSetsExt

CONSTANTS Files,     \* bound: files given to init
          Dates,     \* bound: the dates asked about
          Years      \* bound: the years whose weekdays are generated

VARIABLES bizDays,   \* bizDaySorted_
          bizIndex,  \* the keys of bizDayIndexMap_
          sound,     \* history: the last init ended without an exception
          year       \* the year asked about, 0 before one is
calendarVars == <<bizDays, bizIndex, sound, year>>

Init == bizDays = <<>> /\ bizIndex = {} /\ sound = FALSE /\ year = 0

AtMost(s, d) == Cardinality({i \in DOMAIN s : s[i] <= d})
Sorted(s) == LET sorted[k \in 0 .. Len(s)] ==
                   IF k = 0 THEN <<>> ELSE InsertAt(sorted[k - 1], AtMost(sorted[k - 1], s[k]) + 1, s[k])
             IN sorted[Len(s)]

\* init appends to what is there; a line stoi refuses, and so a file without a
\* line, ends it before the sort and the index; a header is skipped.
Blank == 0
Header == -1
InitFile(f) ==
    LET lines == IF f = <<>> THEN <<Blank>> ELSE IF f[1] = Header THEN Tail(f) ELSE f
        bad == {i \in DOMAIN lines : lines[i] \in {Blank, Header}}
        good == Cardinality({i \in DOMAIN lines : \A j \in bad : i < j})
        days == bizDays \o SubSeq(lines, 1, good)
    IN /\ bizDays' = IF bad = {} THEN Sorted(days) ELSE days
       /\ bizIndex' = IF bad = {} THEN bizIndex \cup ToSet(days) ELSE bizIndex
       /\ sound' = (bad = {} /\ days # <<>>)
       /\ UNCHANGED year

NoDay == -1  \* a day read outside bizDaySorted_
Day(i) == IF i \in 0 .. Len(bizDays) - 1 THEN bizDays[i + 1] ELSE NoDay
Lower(d) == Cardinality({i \in DOMAIN bizDays : bizDays[i] < d})   \* std::lower_bound
Upper(d) == AtMost(bizDays, d)                                     \* std::upper_bound
first_day == Day(0)
last_day == Day(Len(bizDays) - 1)

checkBizDay(d) == d \in bizIndex
lowerBoundIndex(d) == IF d < first_day \/ d > last_day THEN -1 ELSE Lower(d)
lowerBound(d) == IF d < first_day \/ d > last_day THEN 2147483647 ELSE Day(Lower(d))
\* Nothing for a start before the first day, although days may lie in between.
bizDayRange(a, b) == IF lowerBoundIndex(a) < 0 THEN <<>> ELSE SubSeq(bizDays, Lower(a) + 1, Upper(b))
next(d) == Day(Upper(d))
prev(d) == Day(Lower(d) - 1)
offset(d, n) == LET i == Lower(d) + n
                IN IF i <= 0 THEN first_day ELSE IF i >= Len(bizDays) THEN last_day ELSE Day(i)
prev_n(d, n, include) ==
    LET last == IF Day(Lower(d)) = d /\ include THEN Lower(d) ELSE Lower(d) - 1
    IN SubSeq(bizDays, IF last + 2 - n > 1 THEN last + 2 - n ELSE 1, last + 1)

\* GenAllDaysInYear: the days of a year that are no Saturday and no Sunday.
Leap(y) == y % 4 = 0 /\ (y % 100 # 0 \/ y % 400 = 0)
DaysOfMonth(y, m) == IF m = 2 /\ Leap(y) THEN 29 ELSE <<31, 28, 31, 30, 31, 30, 31, 31, 30, 31, 30, 31>>[m]
Weekday(y0, m, d) == LET y == IF m < 3 THEN y0 - 1 ELSE y0
                     IN (y + y \div 4 - y \div 100 + y \div 400 + <<0, 3, 2, 5, 0, 3, 5, 1, 4, 6, 2, 4>>[m] + d) % 7
GenAllDaysInYear(y) == {md \in (1 .. 12) \X (1 .. 31) :
                            md[2] <= DaysOfMonth(y, md[1]) /\ Weekday(y, md[1], md[2]) \notin {0, 6}}
AskYear(y) == year' = y /\ UNCHANGED <<bizDays, bizIndex, sound>>

Next == (\E f \in Files : Len(bizDays) < 6 /\ InitFile(f)) \/ \E y \in Years : AskYear(y)
-----------------------------------------------------------------------------
TypeOK == /\ \A i \in DOMAIN bizDays : bizDays[i] \in Dates
          /\ bizIndex \subseteq Dates /\ sound \in BOOLEAN /\ year \in Years \cup {0}

(* After an init that ended well, also one that came after a failed init or  *)
(* that read a day twice, the queries agree with the set of days and with    *)
(* each other: a range starting inside the calendar is what lies in it, next *)
(* and prev undo each other, and offset and prev_n count the same days.  The *)
(* dates asked about lie inside: next and prev check no end.  Counting       *)
(* queries need days read once only.                                         *)
CalendarAgrees ==
    LET B == ToSet(bizDays)
        inside == {d \in Dates : first_day <= d /\ d < last_day}
    IN sound =>
       /\ B = bizIndex
       /\ \A a \in inside, b \in Dates : ToSet(bizDayRange(a, b)) = {d \in B : a <= d /\ d <= b}
       /\ \A d \in inside : /\ next(d) = Min({x \in B : x > d})
                             /\ lowerBound(d) = Min({x \in B : x >= d})
                             /\ d \in B => prev(next(d)) = d
       /\ Len(bizDays) = Cardinality(B) =>
            \A d \in inside, n \in 1 .. 3 :
               /\ offset(d, n) = offset(offset(d, 1), n - 1) \/ d \notin B
               /\ LET p == prev_n(d, n, TRUE)
                  IN /\ ToSet(p) \subseteq {x \in B : x <= d}
                     /\ Len(p) = n => p[1] = offset(d, 1 - n) \/ d \notin B
                     /\ Len(p) < n => ToSet(p) = {x \in B : x <= d}

(* GenAllDaysInYear leaves out exactly two days of every seven, across the   *)
(* months, leap days and years: each date's weekday follows the one before.  *)
WeekdaysFollow ==
    year # 0 =>
       /\ Weekday(year + 1, 1, 1) = (Weekday(year, 12, 31) + 1) % 7
       /\ \A m \in 1 .. 11 : Weekday(year, m + 1, 1) = (Weekday(year, m, DaysOfMonth(year, m)) + 1) % 7
       /\ Cardinality(GenAllDaysInYear(year)) \in 260 .. 262
=============================================================================
