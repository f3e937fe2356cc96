------------------------------- MODULE Clock --------------------------------
(* Clock of clock.cpp: a time stamp (core) and, from a list of trading days, *)
(* the trading day it belongs to.  A strict clock shows trading time: from   *)
(* 18 h on the next trading day, after midnight hours from 24 on, and hour   *)
(* -1 out of trading.  Days are numbers, an instant is <<day, hour>>.  The   *)
(* index into tradingDays is kept from call to call and counts from 0.       *)
(* full is history: the instant of the last call that set every field, and   *)
(* the real day it was made on; -1 once UpdateTime was called for an earlier *)
(* time or another day, or a call threw.                                     *)
EXTENDS Integers, Sequences, FiniteSetsExt

CONSTANTS Weekdays,  \* _gen_trading_days: the days a list is generated from
          Lists,     \* bound: lists of trading days given to a clock
          LastDay    \* bound: days 1 .. LastDay pass; day 0 is the epoch

VARIABLES now,    \* the real time
          clock,
          full
clockVars == <<now, clock, full>>

Hours == {2, 12, 20}  \* one of each part of the day the code tells apart
Instants == (0 .. LastDay) \X Hours
Unread == -100        \* a day read outside the list

Listed(l, i) == IF i \in 0 .. Len(l) - 1 THEN l[i + 1] ELSE Unread
DaySet(l) == {l[i] : i \in 1 .. Len(l)}
Yesterday == now[1] - 1  \* PrevDateToIntReal: of the real time, not of core

Blank == [alive |-> FALSE, threw |-> FALSE, strict |-> FALSE, days |-> <<>>, index |-> 0, trading |-> 0, next |-> 0,
          prev |-> 0, isTrading |-> FALSE, isPrev |-> FALSE, core |-> <<0, 2>>, date |-> 0, hour |-> 0]
Throw(c) == [c EXCEPT !.threw = TRUE]
\* tradingDays[i - 1] == yesterday; at i = 0 it compares what lies before the list: w.
PrevIs(l, i, w) == IF i = 0 THEN w ELSE Listed(l, i - 1) = Yesterday

SetTradingDayInfo(c, l, w) ==
    LET d == c.core[1]
        i == Min({k \in 0 .. Len(l) - 1 : l[k + 1] >= d})
    IN IF l = <<>> \/ l[1] > d \/ l[Len(l)] < d THEN Throw([c EXCEPT !.days = l])
       ELSE [c EXCEPT !.days = l, !.index = i, !.trading = l[i + 1],
                      !.next = IF i < Len(l) - 1 THEN l[i + 2] ELSE @, !.prev = IF i > 0 THEN l[i] ELSE @,
                      !.isTrading = l[i + 1] = d, !.isPrev = PrevIs(l, i, w)]

AdjustTradingDay(c, w) ==
    LET d == c.core[1]
        out == c.days = <<>> \/ c.days[1] > d \/ c.days[Len(c.days)] < d
        g == IF out THEN SetTradingDayInfo(c, Weekdays, w) ELSE c
        l == g.days
        down == Max({k \in 0 .. g.index : l[k + 1] <= d})
        i == Min({k \in down .. Len(l) - 1 : l[k + 1] >= d})
        \* size() - 2 wraps around on a list of one day
        after == IF Len(l) > 1 /\ i > Len(l) - 2 THEN Len(l) - 1 ELSE i + 1
    IN IF out /\ c.strict THEN Throw(c)
       ELSE IF c.days = <<>> \/ g.threw THEN g
       ELSE [g EXCEPT !.index = i, !.trading = l[i + 1], !.next = Listed(l, after),
                      !.prev = l[IF i > 0 THEN i ELSE 1],
                      !.isTrading = l[i + 1] = d, !.isPrev = PrevIs(l, i, w)]

\* Normalize_trading, on the time of day of core moved to the trading day.
MutEvening(c) == c.core[2] >= 18
Evening(c) == c.isTrading /\ c.core[2] >= 18
Normalize(c) ==
    IF Evening(c) THEN [c EXCEPT !.prev = Listed(c.days, c.index), !.trading = Listed(c.days, c.index + 1),
                                 !.next = Listed(c.days, c.index + 2)]
    ELSE c
TradingHour(c) == IF c.isTrading THEN c.core[2] + (IF c.core[2] < 6 THEN 24 ELSE 0)
                  ELSE IF c.isPrev /\ c.core[2] < 6 THEN c.core[2] ELSE -1
FillTime(c) == [c EXCEPT !.hour = IF c.strict THEN TradingHour(c) ELSE c.core[2]]

SetFromCore(c, w) ==
    LET a == AdjustTradingDay(c, w)
        n == IF c.strict THEN Normalize(a) ELSE a
    IN IF a.threw THEN a ELSE FillTime([n EXCEPT !.date = IF c.strict THEN n.trading ELSE n.core[1]])

Init == now = <<1, 2>> /\ clock = Blank /\ full = [at |-> <<0, 2>>, real |-> -1]

\* A call that sets the clock from core; what it throws leaves the rest as it was.
SetsAll(c) == /\ clock' = c
              /\ full' = IF c.threw THEN [full EXCEPT !.real = -1] ELSE [at |-> c.core, real |-> now[1]]
              /\ UNCHANGED now

\* The constructors: with a list, a file of one or the weekdays, strict or not, or without.
Construct(l, s, k, w) ==
    LET c == [Blank EXCEPT !.strict = s, !.core = k, !.alive = TRUE]
        i == IF l = <<>> THEN c ELSE SetTradingDayInfo(c, l, w)
    IN ~clock.alive /\ (l = <<>> => ~s) /\ ~i.threw /\ SetsAll(SetFromCore(i, w))

At(k) == [clock EXCEPT !.core = k, !.threw = FALSE]
Update(w) == clock.alive /\ SetsAll(SetFromCore(At(now), w))
Set(k, w) == clock.alive /\ SetsAll(SetFromCore(At(k), w))  \* and Update from a string, Reset

\* Neither the copy constructor nor operator= takes over isStrictTradingDay:
\* the copy is not strict, the target of an assignment keeps its own.  So it
\* does with its index, 0 in a copy, where SetTradingDayInfo throws: i, and
\* within the list taken over (bound: a clock is not used whose index is not).
Assigned(c, s, w) == LET i == IF c.days = <<>> THEN [c EXCEPT !.strict = s]
                              ELSE SetTradingDayInfo([c EXCEPT !.strict = s], c.days, w)
                     IN IF (s /\ c.days = <<>>) \/ i.threw THEN Throw(i) ELSE SetFromCore(i, w)
Copy(s, i, w) == clock.alive /\ ~clock.threw /\ SetsAll(Assigned([clock EXCEPT !.index = i], s, w))

\* Only the time of day: the index and isTradingDay stay those of the last full call.
UpdateTime ==
    /\ clock.alive /\ ~clock.threw
    /\ LET c == At(now) IN clock' = FillTime(IF c.strict THEN Normalize(c) ELSE c)
    /\ full' = IF now[1] = full.at[1] /\ now[2] >= full.at[2] THEN full ELSE [full EXCEPT !.real = -1]
    /\ UNCHANGED now

Tick == /\ now' \in {k \in Instants : k[1] > now[1] \/ (k[1] = now[1] /\ k[2] > now[2])}
        /\ UNCHANGED <<clock, full>>

Next == \/ Tick \/ UpdateTime
        \/ \E w \in BOOLEAN : \/ Update(w)
                              \/ \E k \in Instants : Set(k, w)
                              \/ \E s \in BOOLEAN, i \in {0} \cup 1 .. Len(clock.days) - 1 : Copy(s, i, w)
                              \/ \E k \in Instants, l \in Lists \cup {Weekdays}, s \in BOOLEAN : Construct(l, s, k, w)
-----------------------------------------------------------------------------
TypeOK == /\ now \in Instants /\ clock.core \in Instants
          /\ clock.index \in 0 .. (IF clock.days = <<>> THEN 0 ELSE Len(clock.days) - 1)
          /\ clock.hour \in -1 .. 29

Later(d) == {x \in DaySet(clock.days) : x > d}
(* However the clock was moved to and fro, copied and its list replaced, it  *)
(* shows the first trading day at or after its day, from 18 h of a trading   *)
(* day on the one after it, with that day's neighbours in the list; and      *)
(* UpdateTime agrees with a full update made at an earlier hour of the same  *)
(* day.  An evening needs two more days in the list than the code checks.    *)
TradingDayTrue ==
    LET d == clock.core[1]
        L == DaySet(clock.days)
        night == d \in L /\ clock.core[2] >= 18 /\ clock.strict
        t == Min(Later(IF night THEN d ELSE d - 1))
    IN clock.alive /\ ~clock.threw /\ clock.days # <<>> /\ full.real >= 0
       /\ Cardinality(Later(d)) >= 2 =>
          /\ clock.trading = t /\ clock.next = Min(Later(t))
          /\ clock.prev = IF L \cap Later(t - 1) = L THEN t ELSE Max(L \ Later(t - 1))
          /\ clock.strict /\ full.real = d =>
                clock.hour = IF d \in L \/ (d - 1 \in L /\ clock.core[2] < 6)
                             THEN clock.core[2] + (IF d \in L /\ clock.core[2] < 6 THEN 24 ELSE 0) ELSE -1
=============================================================================
