------------------------------ MODULE Calendar ------------------------------
(***************************************************************************)
(* The second an envelope was written and its RFC 3339 spelling            *)
(* (timestamp.rs), and the clocks it is read from (clock.rs). A second is  *)
(* a day after 1970-01-01 and a second of that day, the quotient and the   *)
(* remainder both directions of the code start and end with. A text of the *)
(* shape YYYY-MM-DDTHH:MM:SSZ is the record of its six numbers; any other  *)
(* text is Malformed. An Option is a set of at most one element.           *)
(***************************************************************************)
EXTENDS Integers

MaxDay == 2932896  \* 9999-12-31
DaySeconds == 86400

Moment(day, second) == [day |-> day, second |-> second]
UnixEpoch == Moment(0, 0)
Malformed == [malformed |-> TRUE]

(* Timestamp::from_epoch_secs: the last second of MaxDay is Timestamp::MAX. *)
FromEpoch(reading) == IF reading.day <= MaxDay THEN {reading} ELSE {}
-----------------------------------------------------------------------------
(* Display: the date of a day, counted in years that begin in March and    *)
(* eras of 400 of them.                                                    *)

Epoch == 719468  \* days from 0000-03-01 to 1970-01-01
Era == 146097

BugYearOfEra(doe) == (doe - doe \div 1460 + doe \div 36524) \div 365
YearOfEra(doe) == (doe - doe \div 1460 + doe \div 36524 - doe \div 146096) \div 365
DayOfYear(doe) == doe - (365 * YearOfEra(doe) + YearOfEra(doe) \div 4 - YearOfEra(doe) \div 100)
MarchMonth(doy) == (5 * doy + 2) \div 153
DaysToMonth(mp) == (153 * mp + 2) \div 5

Date(day) ==
  LET z == day + Epoch
      doe == z % Era
      doy == DayOfYear(doe)
      mp == MarchMonth(doy)
      month == IF mp < 10 THEN mp + 3 ELSE mp - 9
  IN [year |-> YearOfEra(doe) + (z \div Era) * 400 + (IF month <= 2 THEN 1 ELSE 0),
      month |-> month, day |-> doy - DaysToMonth(mp) + 1]

Display(moment) ==
  [date |-> Date(moment.day), hour |-> moment.second \div 3600,
   minute |-> (moment.second % 3600) \div 60, second |-> moment.second % 60]
-----------------------------------------------------------------------------
(* FromStr: strict, and the inverse of Display.                            *)

IsLeap(year) == year % 4 = 0 /\ (year % 100 # 0 \/ year % 400 = 0)

BugDaysInMonth(year, month) ==
  CASE month = 2 -> IF year % 4 = 0 THEN 29 ELSE 28
    [] month \in {4, 6, 9, 11} -> 30
    [] OTHER -> 31

DaysInMonth(year, month) ==
  CASE month = 2 -> IF IsLeap(year) THEN 29 ELSE 28
    [] month \in {4, 6, 9, 11} -> 30
    [] OTHER -> 31

IsDate(date) ==
  /\ date.year >= 1970 /\ date.month \in 1..12
  /\ date.day \in 1..DaysInMonth(date.year, date.month)

DayOf(date) ==
  LET y == IF date.month <= 2 THEN date.year - 1 ELSE date.year
      yoe == y % 400
      mp == IF date.month > 2 THEN date.month - 3 ELSE date.month + 9
      doy == DaysToMonth(mp) + date.day - 1
  IN (y \div 400) * Era + (yoe * 365 + yoe \div 4 - yoe \div 100 + doy) - Epoch

Parse(text) ==
  IF /\ text # Malformed
     /\ IsDate(text.date)
     /\ text.hour <= 23 /\ text.minute <= 59 /\ text.second <= 59
  THEN FromEpoch(Moment(DayOf(text.date), text.hour * 3600 + text.minute * 60 + text.second))
  ELSE {}
-----------------------------------------------------------------------------
(* clock.rs: what a run's timestamps are read from. A run that has no      *)
(* custom clock is pinned by SOURCE_DATE_EPOCH when that is set; a value   *)
(* that is not digits, or past the range, fails the run before it starts   *)
(* (Dispatch, INVALID_ENV). A system clock before 1970 reads as the epoch. *)

ParseSourceDateEpoch(value) == IF value = Malformed THEN {} ELSE FromEpoch(value)

SystemNow(elapsed) == IF elapsed = {} THEN {UnixEpoch} ELSE UNION {FromEpoch(e) : e \in elapsed}

(* The timestamps a run may read: none where reading it panics (PanicHook) *)
(* or the run fails.                                                       *)
DefaultClock(pin, elapsed) ==
  IF pin = {} THEN SystemNow(elapsed) ELSE UNION {ParseSourceDateEpoch(value) : value \in pin}
-----------------------------------------------------------------------------
(* The Gregorian calendar, by its rule: what the code is measured against. *)

(* The leap years up to a year, and the day a year and a month start on.   *)
Leaps(year) == year \div 4 - year \div 100 + year \div 400
YearStart(year) == 365 * (year - 1970) + Leaps(year - 1) - Leaps(1969)

MonthStart(year, month) ==
  <<0, 31, 59, 90, 120, 151, 181, 212, 243, 273, 304, 334>>[month]
    + (IF month > 2 /\ IsLeap(year) THEN 1 ELSE 0)

IsDayOf(date, day) ==
  /\ date.month \in 1..12 /\ date.day \in 1..31
  /\ day = YearStart(date.year) + MonthStart(date.year, date.month) + date.day - 1
  /\ day < YearStart(date.year) +
           (IF date.month = 12 THEN YearStart(date.year + 1) - YearStart(date.year)
            ELSE MonthStart(date.year, date.month + 1))
=============================================================================
