------------------------------- MODULE Periods -------------------------------
(***************************************************************************)
(* Reporting periods: a query names a calendar period, a range of days or  *)
(* a look-back, in a fixed offset from UTC, and is resolved to half-open   *)
(* instants; a flat monthly fee is charged by the calendar months a window *)
(* covers.  Time is counted in ticks, DayTicks of them to a day; the       *)
(* calendar is Days, the length in days of each month of a year.           *)
(***************************************************************************)
EXTENDS Integers, Sequences, FiniteSets, FiniteSetsExt

CONSTANTS
    DayTicks,   \* ticks in a day
    Days,       \* <<days of the first month of a year, ...>>
    Offsets,    \* offsets from UTC, in ticks
    Years,      \* bound: the years of the calendar
    MaxDays,    \* the longest look-back
    RangeDays,  \* the days a range may begin or end with
    LookBacks,  \* the look-backs asked for, in days
    SeatTimes   \* when the seat may have been made

\* A month has days; no offset from UTC reaches a day.
ASSUME PeriodAssumption ==
    /\ DayTicks \in Nat \ {0} /\ Days \in Seq(Nat \ {0}) /\ Days # <<>> /\ Years \in Nat \ {0}
    /\ Offsets \subseteq -DayTicks .. DayTicks
    /\ MaxDays \in Nat /\ RangeDays \subseteq Nat /\ LookBacks \subseteq Int /\ SeatTimes \subseteq Int

MonthsInYear == Len(Days)
LastMonth == Years * MonthsInYear - 1
DaysOf(m) == Days[(m % MonthsInYear) + 1]

(* The local day each month starts on, months counted from the calendar's. *)
FirstDay[m \in 0 .. LastMonth + 1] == IF m = 0 THEN 0 ELSE FirstDay[m - 1] + DaysOf(m - 1)

Midnight(day, zone) == day * DayTicks - zone
MonthStartAt(m, zone) == Midnight(FirstDay[m], zone)
LocalMonth(t, zone) ==
    CHOOSE m \in 0 .. LastMonth : MonthStartAt(m, zone) <= t /\ t < MonthStartAt(m + 1, zone)
YearStart(m) == (m \div MonthsInYear) * MonthsInYear

VARIABLES
    asked,    \* the instant the query is resolved at
    zone,     \* the offset calendar boundaries are computed in
    query,    \* the window asked for
    other,    \* another one, to compare it with
    created   \* when the seat whose fee is charged was made
periodVars == <<asked, zone, query, other, created>>

(***************************************************************************)
(* resolve.  A query is [period, from, to, days]; what is not given is     *)
(* None.  All time has no start; an open window ends now.                    *)
(***************************************************************************)
None == -1
Window(start, end) == {[start |-> start, end |-> end]}
Beginning == -DayTicks

Named(period) ==
    LET m == LocalMonth(asked, zone) IN
    CASE period = "month" -> Window(MonthStartAt(m, zone), asked)
      [] period = "last-month" -> IF m = 0 THEN {} ELSE Window(MonthStartAt(m - 1, zone), MonthStartAt(m, zone))
      [] period = "year" -> Window(MonthStartAt(YearStart(m), zone), asked)
      [] period = "last-year" ->
            IF YearStart(m) = 0 THEN {}
            ELSE Window(MonthStartAt(YearStart(m) - MonthsInYear, zone), MonthStartAt(YearStart(m), zone))
      [] period = "all" -> Window(Beginning, asked)
      [] OTHER -> {}

CustomToMidnight(from, to) ==
    IF from > to THEN {} ELSE Window(Midnight(from, zone), Midnight(to, zone))
Custom(from, to) ==
    IF from > to THEN {} ELSE Window(Midnight(from, zone), Midnight(to + 1, zone))

RollingBack(days) ==
    LET n == IF days < 1 THEN 1 ELSE IF days > MaxDays THEN MaxDays ELSE days
    IN Window(asked - n * DayTicks, asked)

Resolve(q) ==
    CASE q.period # "" -> Named(q.period)
      [] q.period = "" /\ q.from # None /\ q.to # None -> Custom(q.from, q.to)
      [] q.period = "" /\ (q.from = None) # (q.to = None) -> {}
      [] OTHER -> RollingBack(q.days)

(***************************************************************************)
(* calendar_months, in shares of a month: Whole of them make one, whatever *)
(* the month's length.                                                     *)
(***************************************************************************)
Shares[k \in 0 .. MonthsInYear] == IF k = 0 THEN 1 ELSE Days[k] * DayTicks * Shares[k - 1]
Whole == Shares[MonthsInYear]

Elapsed(t) ==
    LET m == LocalMonth(t, zone)
    IN ((t - MonthStartAt(m, zone)) * Whole) \div (DaysOf(m) * DayTicks)

CalendarMonths(start, end) ==
    IF end <= start THEN 0
    ELSE (LocalMonth(end, zone) - LocalMonth(start, zone)) * Whole - Elapsed(start) + Elapsed(end)

SeatMonths(w) == CalendarMonths(IF w.start > created THEN w.start ELSE created, w.end)

-----------------------------------------------------------------------------
Instants == DayTicks .. FirstDay[LastMonth + 1] * DayTicks - DayTicks - 1
Queries ==
    [period : {"month", "last-month", "year", "last-year", "all", "fortnight"}, from : {None}, to : {None}, days : {None}]
    \cup [period : {""}, from : {None} \cup RangeDays, to : {None} \cup RangeDays, days : LookBacks]

PeriodInit ==
    /\ zone \in Offsets
    /\ asked \in Instants
    /\ created \in SeatTimes
    /\ query \in Queries
    /\ other = query

(* The operator asks for another window beside the first.                  *)
Compare ==
    /\ other = query
    /\ \E q \in Queries : other' = q
    /\ UNCHANGED <<asked, zone, query, created>>

PeriodNext == Compare

PeriodSpec == PeriodInit /\ [][PeriodNext]_periodVars

Follows(p, q) == <<p, q>> \in {<<"last-month", "month">>, <<"last-year", "year">>}

(* A period and the one before it meet and do not overlap: what is spent   *)
(* at any instant is in the month, or in the month before, in the year, or *)
(* the year before, and in one of them once; ranges of days that follow    *)
(* one another leave nothing out.                                          *)
PeriodsMeet ==
    /\ (Follows(query.period, other.period) \/
          (query.period = "" /\ other.period = "" /\ query.to # None /\ query.to + 1 = other.from)) =>
          \A v \in Resolve(query), w \in Resolve(other) : v.end = w.start
    /\ \A w \in Resolve(query) : query.period # "" => w.start <= asked

(* A seat's fee is charged by the share of each calendar month the window  *)
(* covers while the seat existed, tick by tick; so a whole month costs one *)
(* fee whatever its length.                                                *)
FeeIsFair ==
    \A w \in Resolve(query) : query.period # "all" /\ w.start >= DayTicks /\ w.end \in Instants =>
        LET held == {t \in w.start .. w.end - 1 : t >= created}
            share == [t \in held |-> Whole \div (DaysOf(LocalMonth(t, zone)) * DayTicks)]
        IN SeatMonths(w) = MapThenSumSet(LAMBDA t : share[t], held)

\* Periods partition time, and a flat fee is shared out over exactly the days it buys.
PeriodsFair == PeriodsMeet /\ FeeIsFair
=============================================================================
