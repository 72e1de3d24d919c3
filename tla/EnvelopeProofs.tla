--------------------------- MODULE EnvelopeProofs ---------------------------
(* What Output and Envelope promise, for every handler, call and clock: a  *)
(* doctor's exit says what its failed checks mean, and every line a run    *)
(* leaves is read back as what was said, at the second it was said.        *)
EXTENDS Envelope, TLAPS

-----------------------------------------------------------------------------
(* timestamp.rs, for every second a Timestamp can be: what Display writes  *)
(* FromStr reads back, the spelling is the only one, and its date is the   *)
(* one of the Gregorian calendar.                                          *)

LEMMA MonthBounds ==
  ASSUME NEW doy \in Int, 0 <= doy, doy <= 365
  PROVE  /\ MarchMonth(doy) \in 0..11
         /\ doy - DaysToMonth(MarchMonth(doy)) \in 0..30
         /\ MarchMonth(doy) \in {1, 3, 6, 8} => doy - DaysToMonth(MarchMonth(doy)) < 30
         /\ MarchMonth(doy) = 11 => doy - DaysToMonth(MarchMonth(doy)) = doy - 337
         /\ doy >= 306 => MarchMonth(doy) >= 10
BY DEF MarchMonth, DaysToMonth

(* q is the quotient of n by d, said without a division. *)
Splits(q, n, d) == d * q <= n /\ n < d * q + d

(* doy is a day of the year y of an era; f and h are its 4th and 100th.    *)
InYear(doy, y, f, h) ==
  /\ 0 <= y /\ y <= 399 /\ 0 <= doy /\ doy <= 365
  /\ doy = 365 => y = 4 * f + 3 /\ (y # 100 * h + 99 \/ y = 399)

LEMMA YearLinear ==
  ASSUME NEW doe \in Int, 0 <= doe, doe <= 146096,
         NEW q \in Int, Splits(q, doe, 1460), NEW c \in Int, Splits(c, doe, 36524),
         NEW e \in Int, Splits(e, doe, 146096), NEW y \in Int, Splits(y, doe - q + c - e, 365),
         NEW f \in Int, Splits(f, y, 4), NEW h \in Int, Splits(h, y, 100)
  PROVE  InYear(doe - (y * 365 + f - h), y, f, h)
BY DEF Splits, InYear

(* A quotient as a name: with the division closed the arithmetic is linear. *)
Quotient(n, d) == n \div d

(* What the day doe of an era is made of.                                  *)
YearParts(doe, y, f, h, doy) ==
  /\ y = YearOfEra(doe) /\ doy = DayOfYear(doe)
  /\ f = Quotient(y, 4) /\ Splits(f, y, 4)
  /\ h = Quotient(y, 100) /\ Splits(h, y, 100)
  /\ InYear(doy, y, f, h) /\ doe = y * 365 + f - h + doy

LEMMA YearFound ==
  ASSUME NEW doe \in Int, 0 <= doe, doe <= 146096
  PROVE  \E y, f, h, doy \in Int : YearParts(doe, y, f, h, doy)
<1>1. doe \in Int /\ 0 <= doe /\ doe <= 146096
  OBVIOUS
<1>2. PICK q \in Int : q = Quotient(doe, 1460) /\ Splits(q, doe, 1460)
  BY <1>1, SMT DEF Splits, Quotient
<1>3. PICK c \in Int : c = Quotient(doe, 36524) /\ Splits(c, doe, 36524)
  BY <1>1, SMT DEF Splits, Quotient
<1>4. PICK e \in Int : e = Quotient(doe, 146096) /\ Splits(e, doe, 146096)
  BY <1>1, SMT DEF Splits, Quotient
<1>5. doe - q + c - e \in Int
  BY <1>1
<1>6. PICK y \in Int : y = Quotient(doe - q + c - e, 365) /\ Splits(y, doe - q + c - e, 365)
  BY <1>5, SMT DEF Splits, Quotient
<1>7. PICK f \in Int : f = Quotient(y, 4) /\ Splits(f, y, 4)
  BY SMT DEF Splits, Quotient
<1>8. PICK h \in Int : h = Quotient(y, 100) /\ Splits(h, y, 100)
  BY SMT DEF Splits, Quotient
<1>9. InYear(doe - (y * 365 + f - h), y, f, h)
  BY <1>1, <1>2, <1>3, <1>4, <1>6, <1>7, <1>8, YearLinear, SMT
<1>10. YearOfEra(doe) = y
  BY <1>2, <1>3, <1>4, <1>6, SMT DEF YearOfEra, Quotient
<1>11. DayOfYear(doe) = doe - (365 * y + f - h)
  BY <1>7, <1>8, <1>10, SMT DEF DayOfYear, Quotient
<1>12. PICK doy \in Int : doy = doe - (y * 365 + f - h)
  BY <1>1, SMT
<1>13. 365 * y = y * 365 /\ doe = y * 365 + f - h + doy
  BY <1>12, SMT
<1>14. DayOfYear(doe) = doy
  BY <1>11, <1>12, <1>13, SMT
<1>15. InYear(doy, y, f, h)
  BY <1>9, <1>12, SMT
<1>16. YearParts(doe, y, f, h, doy)
  BY <1>7, <1>8, <1>10, <1>13, <1>14, <1>15, SMT DEF YearParts
<1> QED BY <1>16, SMT

(* A year of era e whose February has a 29th day.                          *)
LEMMA LeapYear ==
  ASSUME NEW e \in Int, NEW y \in Int, NEW f \in Int, Splits(f, y, 4),
         NEW h \in Int, Splits(h, y, 100), InYear(365, y, f, h)
  PROVE  IsLeap(y + e * 400 + 1)
<1>1. y = 4 * f + 3 /\ (y # 100 * h + 99 \/ y = 399)
  BY DEF InYear
<1>2. (y + e * 400 + 1) % 4 = 0
  BY <1>1
<1>3. CASE y = 399
  <2>1. (y + e * 400 + 1) % 400 = 0
    BY <1>3
  <2> QED BY <1>2, <2>1 DEF IsLeap
<1>4. CASE y # 100 * h + 99
  <2>1. (y + e * 400 + 1) % 100 # 0
    BY <1>4 DEF Splits
  <2> QED BY <1>2, <2>1 DEF IsLeap
<1> QED BY <1>1, <1>3, <1>4

(* What Date makes of the March month and of the year of era e.            *)
MonthOf(mp) == IF mp < 10 THEN mp + 3 ELSE mp - 9
CivilYear(e, y, mp) == y + e * 400 + (IF MonthOf(mp) <= 2 THEN 1 ELSE 0)
DayInMonth(doy, mp) == doy - DaysToMonth(mp) + 1
CivilDate(e, y, doy, mp) ==
  [year |-> CivilYear(e, y, mp), month |-> MonthOf(mp), day |-> DayInMonth(doy, mp)]
InMonth(e, y, doy, mp) ==
  DayInMonth(doy, mp) \in 1..DaysInMonth(CivilYear(e, y, mp), MonthOf(mp))

LEMMA MonthOfMarchMonth ==
  ASSUME NEW mp \in 0..11
  PROVE  MonthOf(mp) \in 1..12 /\ (MonthOf(mp) <= 2 <=> mp >= 10)
BY DEF MonthOf

(* The day of a year fits its month.                                       *)
LEMMA MonthLength ==
  ASSUME NEW e \in Int, NEW y \in Int, NEW f \in Int, Splits(f, y, 4),
         NEW h \in Int, Splits(h, y, 100), NEW doy \in Int, InYear(doy, y, f, h),
         NEW mp \in 0..11, mp = MarchMonth(doy)
  PROVE  InMonth(e, y, doy, mp)
<1>1. 0 <= doy /\ doy <= 365
  BY DEF InYear
<1>2. /\ doy - DaysToMonth(mp) \in 0..30
      /\ mp \in {1, 3, 6, 8} => doy - DaysToMonth(mp) < 30
      /\ mp = 11 => doy - DaysToMonth(mp) = doy - 337
  BY <1>1, MonthBounds
<1>3. CASE mp = 11
  <2>1. doy - DaysToMonth(mp) + 1 = doy - 336 /\ doy - DaysToMonth(mp) \in 0..30
    BY <1>1, <1>2, <1>3
  <2>2. CASE doy = 365
    <3>1. IsLeap(y + e * 400 + 1)
      BY <2>2, LeapYear
    <3> QED BY <1>3, <2>1, <2>2, <3>1 DEF DaysInMonth, InMonth, DayInMonth, CivilYear, MonthOf
  <2>3. CASE doy # 365
    <3>1. DaysInMonth(y + e * 400 + 1, 2) \in {28, 29}
      BY DEF DaysInMonth
    <3> QED BY <1>1, <1>3, <2>1, <2>3, <3>1 DEF InMonth, DayInMonth, CivilYear, MonthOf
  <2> QED BY <2>2, <2>3
<1>4. CASE mp # 11
  <2>1. /\ MonthOf(mp) \in 1..12 /\ MonthOf(mp) # 2
        /\ MonthOf(mp) \in {4, 6, 9, 11} <=> mp \in {1, 3, 6, 8}
    BY <1>4 DEF MonthOf
  <2>2. DaysInMonth(CivilYear(e, y, mp), MonthOf(mp)) =
          IF MonthOf(mp) \in {4, 6, 9, 11} THEN 30 ELSE 31
    BY <2>1 DEF DaysInMonth
  <2> QED BY <1>2, <2>1, <2>2 DEF InMonth, DayInMonth
<1> QED BY <1>3, <1>4

(* From 1970 on: the year 369 of era 4 began 306 days before 1970 did.     *)
LEMMA Since1970 ==
  ASSUME NEW e \in Int, NEW doe \in Int, 0 <= doe, doe <= 146096,
         Epoch <= e * Era + doe,
         NEW y \in Int, NEW f \in Int, Splits(f, y, 4), NEW h \in Int, Splits(h, y, 100),
         NEW doy \in Int, InYear(doy, y, f, h), doe = y * 365 + f - h + doy
  PROVE  y + e * 400 >= 1969 /\ (y + e * 400 = 1969 => doy >= 306)
<1>1. e >= 4
  BY SMT DEF Epoch, Era
<1>2. CASE e >= 5
  BY <1>2, SMT DEF InYear
<1>3. CASE e = 4
  <2>1. doe >= 135080
    BY <1>3, SMT DEF Epoch, Era
  <2>2. y >= 369 /\ (y = 369 => doy >= 306)
    BY <2>1, SMT DEF Splits, InYear
  <2> QED BY <1>3, <2>2, SMT
<1> QED BY <1>1, <1>2, <1>3, SMT

(* The parts of DayOf that a date gives back.                              *)
LEMMA BackInEra ==
  ASSUME NEW e \in Int, NEW y \in Int, 0 <= y, y <= 399
  PROVE  (y + e * 400) % 400 = y /\ (y + e * 400) \div 400 = e
OBVIOUS

(* Date and DayOf, with every number of the day named.                     *)
LEMMA DateOf ==
  ASSUME NEW day, NEW z, z = day + Epoch, NEW e, e = z \div Era, NEW doe, doe = z % Era,
         NEW y, y = YearOfEra(doe), NEW doy, doy = DayOfYear(doe), NEW mp, mp = MarchMonth(doy)
  PROVE  Date(day) = CivilDate(e, y, doy, mp)
BY DEF Date, CivilDate, CivilYear, MonthOf, DayInMonth

LEMMA DayOfParts ==
  ASSUME NEW date, NEW year, year = (IF date.month <= 2 THEN date.year - 1 ELSE date.year),
         NEW y, y = year % 400, NEW e, e = year \div 400,
         NEW mp, mp = (IF date.month > 2 THEN date.month - 3 ELSE date.month + 9),
         NEW doy, doy = DaysToMonth(mp) + date.day - 1
  PROVE  DayOf(date) = e * Era + (y * 365 + y \div 4 - y \div 100 + doy) - Epoch
BY DEF DayOf

DayBack(e, y, doy) == e * Era + (y * 365 + Quotient(y, 4) - Quotient(y, 100) + doy) - Epoch

LEMMA DayOfDate ==
  ASSUME NEW e \in Int, NEW y \in Int, 0 <= y, y <= 399, NEW doy \in Int, NEW mp \in 0..11
  PROVE  DayOf(CivilDate(e, y, doy, mp)) = DayBack(e, y, doy)
<1>1. PICK date : date = CivilDate(e, y, doy, mp)
  OBVIOUS
<1>2. date.year = CivilYear(e, y, mp) /\ date.month = MonthOf(mp) /\ date.day = DayInMonth(doy, mp)
  BY <1>1, SMT DEF CivilDate
<1>3. PICK year \in Int : year = y + e * 400
  OBVIOUS
<1>4. year = (IF date.month <= 2 THEN date.year - 1 ELSE date.year)
  BY <1>2, <1>3, SMT DEF CivilYear, MonthOf
<1>5. mp = (IF date.month > 2 THEN date.month - 3 ELSE date.month + 9)
  BY <1>2, SMT DEF MonthOf
<1>6. y = year % 400 /\ e = year \div 400
  BY <1>3, SMT
<1>7. doy = DaysToMonth(mp) + date.day - 1
  BY <1>2, SMT DEF DayInMonth, DaysToMonth
<1>8. DayOf(date) = e * Era + (y * 365 + y \div 4 - y \div 100 + doy) - Epoch
  BY <1>4, <1>5, <1>6, <1>7, DayOfParts, SMT
<1> QED BY <1>1, <1>8, SMT DEF DayBack, Quotient

LEMMA DateReadsBack ==
  ASSUME NEW day \in Int, 0 <= day
  PROVE  IsDate(Date(day)) /\ DayOf(Date(day)) = day
<1>1. PICK z \in Int : z = day + Epoch /\ Epoch <= z
  BY SMT DEF Epoch
<1>2. PICK e, doe \in Int :
        e = z \div Era /\ doe = z % Era /\ z = e * Era + doe /\ 0 <= doe /\ doe <= 146096
  BY SMT DEF Era
<1>3. PICK y, f, h, doy \in Int : YearParts(doe, y, f, h, doy)
  BY <1>2, YearFound, SMT
<1>3a. y = YearOfEra(doe) /\ doy = DayOfYear(doe) /\ InYear(doy, y, f, h)
  BY <1>3, SMT DEF YearParts
<1>3b. Splits(f, y, 4) /\ Splits(h, y, 100)
  BY <1>3, SMT DEF YearParts
<1>3c. f = Quotient(y, 4) /\ h = Quotient(y, 100) /\ doe = y * 365 + f - h + doy
  BY <1>3, SMT DEF YearParts
<1>4. 0 <= y /\ y <= 399 /\ 0 <= doy /\ doy <= 365
  BY <1>3a, SMT DEF InYear
<1>5. PICK mp \in 0..11 : mp = MarchMonth(doy) /\ (doy >= 306 => mp >= 10)
  BY <1>4, MonthBounds, SMT
<1>6. Date(day) = CivilDate(e, y, doy, mp)
  BY <1>1, <1>2, <1>3a, <1>5, DateOf, SMT
<1>7. IsDate(Date(day))
  <2>1. y + e * 400 >= 1969 /\ (y + e * 400 = 1969 => doy >= 306)
    BY <1>1, <1>2, <1>3a, <1>3b, <1>3c, Since1970, SMT
  <2>2. CivilYear(e, y, mp) \in Int /\ CivilYear(e, y, mp) >= 1970
    BY <1>5, <2>1, MonthOfMarchMonth, SMT DEF CivilYear
  <2>3. InMonth(e, y, doy, mp)
    BY <1>3a, <1>3b, <1>5, MonthLength, SMT
  <2> QED BY <1>6, <2>2, <2>3, MonthOfMarchMonth, SMT DEF InMonth, CivilDate, IsDate
<1>8. DayOf(Date(day)) = DayBack(e, y, doy)
  BY <1>4, <1>5, <1>6, DayOfDate, SMT
<1>9. DayBack(e, y, doy) = day
  BY <1>1, <1>2, <1>3c, SMT DEF DayBack, Epoch, Era
<1> QED BY <1>7, <1>8, <1>9, Zenon

(* The second of a day, cut up and put together.                           *)
Seconds(hour, minute, second) == hour * 3600 + minute * 60 + second

LEMMA TimeReadsBack ==
  ASSUME NEW second \in Int, 0 <= second, second <= DaySeconds - 1
  PROVE  /\ second \div 3600 <= 23 /\ (second % 3600) \div 60 <= 59 /\ second % 60 <= 59
         /\ Seconds(second \div 3600, (second % 3600) \div 60, second % 60) = second
<1>1. PICK hour, left \in Int : hour = second \div 3600 /\ left = second % 3600
                                /\ second = hour * 3600 + left /\ 0 <= left /\ left <= 3599
  BY SMT
<1>2. PICK minute, last \in Int : minute = left \div 60 /\ last = left % 60
                                  /\ left = minute * 60 + last /\ 0 <= last /\ last <= 59
  BY SMT
<1>3. hour <= 23
  BY <1>1, SMT DEF DaySeconds
<1>4. minute <= 59
  BY <1>1, <1>2, SMT
<1>5. second % 60 = last
  BY <1>1, <1>2, SMT
<1>6. second = hour * 3600 + left /\ left = minute * 60 + last /\ last <= 59
  BY <1>1, <1>2
<1>7. Seconds(hour, minute, last) = second
  BY <1>6 DEF Seconds
<1>8. second \div 3600 = hour /\ (second % 3600) \div 60 = minute
  BY <1>1, <1>2
<1>9. second \div 3600 <= 23 /\ (second % 3600) \div 60 <= 59 /\ second % 60 <= 59
  BY <1>3, <1>4, <1>5, <1>6, <1>8
<1>10. Seconds(second \div 3600, (second % 3600) \div 60, second % 60) = second
  BY <1>5, <1>7, <1>8
<1> QED BY <1>9, <1>10

(* Whatever second a Timestamp holds, from the epoch to Timestamp::MAX, the *)
(* text Display writes is one FromStr takes, and reads as that second.     *)
THEOREM RoundTrip ==
  \A day \in 0..MaxDay, second \in 0..(DaySeconds - 1) :
    Parse(Display(Moment(day, second))) = {Moment(day, second)}
<1> MaxDay \in Int /\ DaySeconds - 1 \in Int
  BY DEF MaxDay, DaySeconds
<1> SUFFICES ASSUME NEW day \in 0..MaxDay, NEW second \in 0..(DaySeconds - 1)
             PROVE  Parse(Display(Moment(day, second))) = {Moment(day, second)}
  OBVIOUS
<1>0. /\ day \in Int /\ 0 <= day /\ day <= MaxDay
      /\ second \in Int /\ 0 <= second /\ second <= DaySeconds - 1
  BY SMT
<1> DEFINE text == Display(Moment(day, second))
<1>1. /\ text.date = Date(day) /\ text.hour = second \div 3600
      /\ text.minute = (second % 3600) \div 60 /\ text.second = second % 60
  BY SMT DEF Display, Moment
<1>2. text # Malformed
  BY SMT DEF Display, Malformed
<1> HIDE DEF text
<1>3. IsDate(text.date) /\ DayOf(text.date) = day
  BY <1>0, <1>1, DateReadsBack, SMT
<1>4. text.hour <= 23 /\ text.minute <= 59 /\ text.second <= 59
  BY <1>0, <1>1, TimeReadsBack, SMT
<1>5. Seconds(text.hour, text.minute, text.second) = second
  BY <1>0, <1>1, TimeReadsBack, SMT
<1>6. Parse(text) = FromEpoch(Moment(day, second))
  BY <1>2, <1>3, <1>4, <1>5, SMT DEF Parse, Seconds
<1>7. FromEpoch(Moment(day, second)) = {Moment(day, second)}
  BY <1>0, SMT DEF FromEpoch, Moment
<1> QED BY <1>6, <1>7 DEF text
-----------------------------------------------------------------------------
(* The other way round: the date of a text is the one Date finds again.    *)

OfYear(doe, y, f, h, doy) == doe = y * 365 + f - h + doy

LEMMA UniqueLinear ==
  ASSUME NEW doe \in Int, NEW y \in Int,
         NEW f \in Int, Splits(f, y, 4), NEW h \in Int, Splits(h, y, 100),
         NEW doy \in Int, InYear(doy, y, f, h),
         NEW z \in Int, NEW g \in Int, Splits(g, z, 4), NEW k \in Int, Splits(k, z, 100),
         NEW rest \in Int, InYear(rest, z, g, k),
         OfYear(doe, y, f, h, doy), OfYear(doe, z, g, k, rest)
  PROVE  z = y /\ rest = doy
BY DEF Splits, InYear, OfYear

LEMMA RangeLinear ==
  ASSUME NEW doe \in Int, NEW y \in Int,
         NEW f \in Int, Splits(f, y, 4), NEW h \in Int, Splits(h, y, 100),
         NEW doy \in Int, InYear(doy, y, f, h), OfYear(doe, y, f, h, doy)
  PROVE  0 <= doe /\ doe <= 146096
BY DEF Splits, InYear, OfYear

LEMMA SameYear ==
  ASSUME NEW y \in Int, NEW f \in Int, f = Quotient(y, 4), Splits(f, y, 4),
         NEW h \in Int, h = Quotient(y, 100), Splits(h, y, 100),
         NEW doy \in Int, InYear(doy, y, f, h),
         NEW doe \in Int, OfYear(doe, y, f, h, doy)
  PROVE  0 <= doe /\ doe <= 146096 /\ YearOfEra(doe) = y /\ DayOfYear(doe) = doy
<1>1. 0 <= doe /\ doe <= 146096
  BY RangeLinear, SMT
<1>2. PICK z, g, k, rest \in Int : YearParts(doe, z, g, k, rest)
  BY <1>1, YearFound, SMT
<1>3. /\ Splits(g, z, 4) /\ Splits(k, z, 100) /\ InYear(rest, z, g, k)
      /\ OfYear(doe, z, g, k, rest)
  BY <1>2, SMT DEF YearParts, OfYear
<1>4. z = y /\ rest = doy
  BY <1>3, UniqueLinear, SMT
<1> QED BY <1>1, <1>2, <1>4, SMT DEF YearParts

(* The March month and the day of the year of a date of the calendar.      *)
MarchOf(date) == IF date.month > 2 THEN date.month - 3 ELSE date.month + 9
DoyOf(date) == DaysToMonth(MarchOf(date)) + date.day - 1
YearFrom(date) == IF date.month <= 2 THEN date.year - 1 ELSE date.year

Dates == [year : Int, month : Int, day : Int]

LEMMA MonthFound ==
  ASSUME NEW date \in Dates, IsDate(date)
  PROVE  /\ MarchOf(date) \in 0..11
         /\ DoyOf(date) \in 0..365 /\ MarchMonth(DoyOf(date)) = MarchOf(date)
         /\ DoyOf(date) = 365 => date.month = 2 /\ IsLeap(date.year)
<1>1. PICK m \in 1..12, d \in 1..31 :
        /\ m = date.month /\ d = date.day
        /\ m \in {4, 6, 9, 11} => d <= 30
        /\ m = 2 => d <= 29 /\ (d = 29 => IsLeap(date.year))
  BY SMT DEF IsDate, DaysInMonth, Dates
<1>2. PICK mp \in 0..11 : mp = (IF m > 2 THEN m - 3 ELSE m + 9)
  BY SMT
<1>3. MarchOf(date) = mp /\ DoyOf(date) = DaysToMonth(mp) + d - 1
  BY <1>1, <1>2, SMT DEF MarchOf, DoyOf
<1>4. PICK doy \in Int : doy = DaysToMonth(mp) + d - 1
  BY SMT DEF DaysToMonth
<1>5. doy \in 0..365 /\ MarchMonth(doy) = mp /\ (doy = 365 => m = 2 /\ d = 29)
  <2>1. PICK q \in Int : q = DaysToMonth(mp) /\ 5 * q <= 153 * mp + 2 /\ 153 * mp + 2 < 5 * q + 5
    BY SMT DEF DaysToMonth
  <2>2. mp \in {1, 3, 6, 8} \/ mp = 11 \/ mp \in {0, 2, 4, 5, 7, 9, 10}
    OBVIOUS
  <2>3. doy = q + d - 1
    BY <1>4, <2>1
  <2>4. (mp \in {1, 3, 6, 8} => m \in {4, 6, 9, 11}) /\ (mp = 11 <=> m = 2)
    BY <1>2, SMT
  <2>5. 153 * mp <= 5 * doy + 2 /\ 5 * doy + 2 < 153 * mp + 153
    BY <1>1, <2>1, <2>2, <2>3, <2>4, SMT
  <2>6. MarchMonth(doy) = mp
    BY <2>5, SMT DEF MarchMonth
  <2>7. 0 <= doy
    BY <2>1, <2>3, SMT
  <2>8. CASE mp = 11
    <3>1. q = 337 /\ d <= 29
      BY <1>1, <2>1, <2>4, <2>8, SMT
    <3> QED BY <2>3, <2>4, <2>6, <2>7, <2>8, <3>1, SMT
  <2>9. CASE mp # 11
    <3>1. q <= 306
      BY <2>1, <2>9, SMT
    <3> QED BY <2>3, <2>6, <2>7, <3>1, SMT
  <2> QED BY <2>8, <2>9
<1> QED BY <1>1, <1>3, <1>4, <1>5, SMT

LEMMA LeapBack ==
  ASSUME NEW e \in Int, NEW y \in Int, 0 <= y, y <= 399, IsLeap(y + e * 400 + 1),
         NEW f \in Int, Splits(f, y, 4), NEW h \in Int, Splits(h, y, 100)
  PROVE  y = 4 * f + 3 /\ (y # 100 * h + 99 \/ y = 399)
<1>1. (y + e * 400 + 1) % 4 = 0
  BY SMT DEF IsLeap
<1>2. y = 4 * f + 3
  BY <1>1, SMT DEF Splits
<1>3. ASSUME y = 100 * h + 99 PROVE y = 399
  <2>1. (y + e * 400 + 1) % 100 = 0
    BY <1>3, SMT
  <2>2. (y + e * 400 + 1) % 400 = 0
    BY <2>1, SMT DEF IsLeap
  <2> QED BY <2>2, SMT
<1> QED BY <1>2, <1>3, SMT

LEMMA CivilBack ==
  ASSUME NEW date \in Dates, IsDate(date),
         NEW e \in Int, NEW y \in Int, YearFrom(date) = y + e * 400
  PROVE  CivilDate(e, y, DoyOf(date), MarchOf(date)) = date
<1>1. date.month \in 1..12 /\ date.year \in Int /\ date.day \in Int
  BY SMT DEF IsDate, Dates
<1>2. MonthOf(MarchOf(date)) = date.month
  BY <1>1, SMT DEF MonthOf, MarchOf
<1>3. CivilYear(e, y, MarchOf(date)) = date.year
  BY <1>1, <1>2, SMT DEF CivilYear, YearFrom
<1>4. DaysToMonth(MarchOf(date)) \in Int
  BY <1>1, SMT DEF DaysToMonth, MarchOf
<1>5. DayInMonth(DoyOf(date), MarchOf(date)) = date.day
  BY <1>1, <1>4, SMT DEF DayInMonth, DoyOf
<1> QED BY <1>2, <1>3, <1>5, SMT DEF CivilDate, Dates

LEMMA DayReadsBack ==
  ASSUME NEW date \in Dates, IsDate(date)
  PROVE  DayOf(date) \in Int /\ Date(DayOf(date)) = date
<1>1. PICK mp \in 0..11, doy \in 0..365 :
        /\ mp = MarchOf(date) /\ doy = DoyOf(date) /\ MarchMonth(doy) = mp
        /\ doy = 365 => date.month = 2 /\ IsLeap(date.year)
  BY MonthFound, SMT
<1>2. PICK year \in Int : year = YearFrom(date)
  BY SMT DEF YearFrom, Dates
<1>3. PICK e, y \in Int : e = year \div 400 /\ y = year % 400
                          /\ year = y + e * 400 /\ 0 <= y /\ y <= 399
  BY SMT
<1>4. PICK f \in Int : f = Quotient(y, 4) /\ Splits(f, y, 4)
  BY SMT DEF Splits, Quotient
<1>5. PICK h \in Int : h = Quotient(y, 100) /\ Splits(h, y, 100)
  BY SMT DEF Splits, Quotient
<1>6. InYear(doy, y, f, h)
  <2>1. CASE doy # 365
    BY <1>3, <2>1, SMT DEF InYear
  <2>2. CASE doy = 365
    <3>1. date.month = 2 /\ IsLeap(date.year)
      BY <1>1, <2>2
    <3>2. date.year = year + 1
      BY <1>2, <3>1, SMT DEF YearFrom, Dates
    <3>3. IsLeap(y + e * 400 + 1)
      BY <1>3, <3>1, <3>2
    <3>4. y = 4 * f + 3 /\ (y # 100 * h + 99 \/ y = 399)
      BY <1>3, <1>4, <1>5, <3>3, LeapBack, SMT
    <3> QED BY <1>3, <2>2, <3>4, SMT DEF InYear
  <2> QED BY <2>1, <2>2
<1>7. PICK doe \in Int : OfYear(doe, y, f, h, doy)
  BY SMT DEF OfYear
<1>8. 0 <= doe /\ doe <= 146096 /\ YearOfEra(doe) = y /\ DayOfYear(doe) = doy
  BY <1>4, <1>5, <1>6, <1>7, SameYear, SMT
<1>9. DayOf(date) = e * Era + (y * 365 + y \div 4 - y \div 100 + doy) - Epoch
  BY <1>1, <1>2, <1>3, DayOfParts, SMT DEF YearFrom, MarchOf, DoyOf
<1>10. DayOf(date) = e * Era + (y * 365 + f - h + doy) - Epoch
  BY <1>4, <1>5, <1>9, Zenon DEF Quotient
<1>11. PICK z \in Int : z = e * Era + doe
  BY SMT DEF Era
<1>12. DayOf(date) \in Int /\ z = DayOf(date) + Epoch
  BY <1>7, <1>10, <1>11, SMT DEF OfYear, Epoch, Era
<1>13. e = z \div Era /\ doe = z % Era
  BY <1>8, <1>11, SMT DEF Era
<1>14. Date(DayOf(date)) = CivilDate(e, y, doy, mp)
  BY <1>1, <1>8, <1>12, <1>13, DateOf, SMT
<1>15. CivilDate(e, y, doy, mp) = date
  <2>1. YearFrom(date) = y + e * 400
    BY <1>2, <1>3
  <2>2. CivilDate(e, y, DoyOf(date), MarchOf(date)) = date
    BY <2>1, CivilBack, Zenon
  <2> QED BY <1>1, <2>2
<1> QED BY <1>12, <1>14, <1>15

LEMMA SecondsReadBack ==
  ASSUME NEW hour \in Nat, hour <= 23, NEW minute \in Nat, minute <= 59,
         NEW last \in Nat, last <= 59, NEW second \in Int, second = Seconds(hour, minute, last)
  PROVE  second \div 3600 = hour /\ (second % 3600) \div 60 = minute /\ second % 60 = last
<1>1. second \div 3600 = hour
  BY SMT DEF Seconds
<1>2. PICK left \in Int : left = second % 3600 /\ left = minute * 60 + last
  BY SMT DEF Seconds
<1>3. left \div 60 = minute
  BY <1>2, SMT
<1>4. second % 60 = last
  BY SMT DEF Seconds
<1> QED BY <1>1, <1>2, <1>3, <1>4, SMT

(* The texts of the shape of a date and a time. *)
Texts == [date : Dates, hour : Nat, minute : Nat, second : Nat]

(* FromStr takes no spelling of a second but the one Display writes: not a *)
(* date the calendar does not have, nor a 24th hour, nor a leap second.    *)
THEOREM OneSpelling ==
  \A text \in Texts : \A moment \in Parse(text) : Display(moment) = text
<1> SUFFICES ASSUME NEW text \in Texts, NEW moment \in Parse(text)
             PROVE  Display(moment) = text
  OBVIOUS
<1>1. /\ IsDate(text.date) /\ text.hour <= 23 /\ text.minute <= 59 /\ text.second <= 59
      /\ moment \in FromEpoch(Moment(DayOf(text.date),
                                     text.hour * 3600 + text.minute * 60 + text.second))
  BY SMT DEF Parse
<1>2. PICK day, second \in Int :
        day = DayOf(text.date) /\ second = Seconds(text.hour, text.minute, text.second)
        /\ Date(day) = text.date
  BY <1>1, DayReadsBack, SMT DEF Texts, Seconds
<1>3. moment = Moment(day, second)
  BY <1>1, <1>2, SMT DEF FromEpoch, Seconds
<1>4. /\ second \div 3600 = text.hour /\ (second % 3600) \div 60 = text.minute
      /\ second % 60 = text.second
  BY <1>1, <1>2, SecondsReadBack, SMT DEF Texts
<1>5. Display(moment) = [date |-> Date(day), hour |-> second \div 3600,
                         minute |-> (second % 3600) \div 60, second |-> second % 60]
  BY <1>3, SMT DEF Display, Moment
<1> QED BY <1>2, <1>4, <1>5, SMT DEF Texts
-----------------------------------------------------------------------------
(* The days Display and FromStr count are those of the Gregorian calendar: *)
(* years that begin in March, in eras, against years and leap years.       *)
LeapDay(year) == IF IsLeap(year) THEN 1 ELSE 0

(* A leap year is one more than there were. *)
LEMMA LeapStep ==
  ASSUME NEW year \in Int
  PROVE  Leaps(year) \in Int /\ Leaps(year) = Leaps(year - 1) + LeapDay(year)
<1>1. year \div 4 = (year - 1) \div 4 + (IF year % 4 = 0 THEN 1 ELSE 0)
  BY SMT
<1>2. year \div 100 = (year - 1) \div 100 + (IF year % 100 = 0 THEN 1 ELSE 0)
  BY SMT
<1>3. year \div 400 = (year - 1) \div 400 + (IF year % 400 = 0 THEN 1 ELSE 0)
  BY SMT
<1>4. (year % 400 = 0 => year % 100 = 0) /\ (year % 100 = 0 => year % 4 = 0)
  BY SMT
<1> QED BY <1>1, <1>2, <1>3, <1>4, SMT DEF Leaps, LeapDay, IsLeap

(* The leap years of the eras before, and of an era. *)
LEMMA LeapsOfEra ==
  ASSUME NEW e \in Int, NEW y \in Int, 0 <= y, y <= 399
  PROVE  Leaps(y + e * 400) = 97 * e + y \div 4 - y \div 100
<1>1. (y + e * 400) \div 4 = 100 * e + y \div 4
  BY SMT
<1>2. (y + e * 400) \div 100 = 4 * e + y \div 100
  BY SMT
<1>3. (y + e * 400) \div 400 = e
  BY SMT
<1> QED BY <1>1, <1>2, <1>3, SMT DEF Leaps

(* The days before a month, counted from January and from March. *)
LinedUp(year, month) ==
  /\ MonthStart(year, month) \in Int
  /\ month > 2 => MonthStart(year, month) = DaysToMonth(month - 3) + 59 + LeapDay(year)
  /\ month <= 2 => MonthStart(year, month) = DaysToMonth(month + 9) - 306

LEMMA MonthsLineUp ==
  ASSUME NEW year \in Int, NEW month \in 1..12
  PROVE  LinedUp(year, month)
<1>1. month \in {1, 2, 3, 4, 5, 6, 7, 8, 9, 10, 11, 12}
  BY SMT
<1> QED BY <1>1, SMT DEF LinedUp, MonthStart, DaysToMonth, LeapDay

(* A month runs to the next one, and December to the next year. *)
LEMMA MonthsFollow ==
  ASSUME NEW year \in Int, NEW month \in 1..12
  PROVE  DaysInMonth(year, month) =
           IF month = 12 THEN YearStart(year + 1) - YearStart(year) - MonthStart(year, 12)
           ELSE MonthStart(year, month + 1) - MonthStart(year, month)
<1>1. CASE month = 12
  <2>1. Leaps(year - 1) \in Int /\ Leaps(year) = Leaps(year - 1) + LeapDay(year)
    BY LeapStep, SMT
  <2>2. PICK before \in Int : before = Leaps(1969)
    BY LeapStep, SMT
  <2>3. YearStart(year + 1) - YearStart(year) = 365 + LeapDay(year)
    BY <2>1, <2>2, SMT DEF YearStart, LeapDay
  <2> QED BY <1>1, <2>3, SMT DEF DaysInMonth, MonthStart, LeapDay
<1>2. CASE month # 12
  <2>1. month \in {1, 2, 3, 4, 5, 6, 7, 8, 9, 10, 11}
    BY <1>2, SMT
  <2> QED BY <2>1, SMT DEF DaysInMonth, MonthStart
<1> QED BY <1>1, <1>2

(* What Display writes are the numbers of a date. *)
LEMMA DateTyped ==
  ASSUME NEW day \in Int, 0 <= day
  PROVE  Date(day) \in Dates
<1>1. PICK z \in Int : z = day + Epoch
  BY SMT DEF Epoch
<1>2. PICK e, doe \in Int : e = z \div Era /\ doe = z % Era /\ 0 <= doe /\ doe <= 146096
  BY SMT DEF Era
<1>3. PICK y, f, h, doy \in Int : YearParts(doe, y, f, h, doy)
  BY <1>2, YearFound, SMT
<1>4. y = YearOfEra(doe) /\ doy = DayOfYear(doe) /\ 0 <= doy /\ doy <= 365
  BY <1>3, SMT DEF YearParts, InYear
<1>5. PICK mp \in 0..11 : mp = MarchMonth(doy)
  BY <1>4, MonthBounds, SMT
<1>6. Date(day) = CivilDate(e, y, doy, mp)
  BY <1>1, <1>2, <1>4, <1>5, DateOf, SMT
<1> QED BY <1>6, SMT DEF CivilDate, CivilYear, MonthOf, DayInMonth, DaysToMonth, Dates

(* DayOf is the number of the day. *)
LEMMA DayOfIsNumber ==
  ASSUME NEW date \in Dates, IsDate(date)
  PROVE  DayOf(date) = YearStart(date.year) + MonthStart(date.year, date.month) + date.day - 1
<1>1. PICK n, d \in Int, m \in 1..12 : n = date.year /\ m = date.month /\ d = date.day
  BY SMT DEF IsDate, Dates
<1>2. PICK year \in Int : year = (IF m <= 2 THEN n - 1 ELSE n) /\ year = YearFrom(date)
  BY <1>1, SMT DEF YearFrom
<1>3. PICK e, y \in Int : e = year \div 400 /\ y = year % 400
                          /\ year = y + e * 400 /\ 0 <= y /\ y <= 399
  BY SMT
<1>4. PICK leaps, f, h \in Int :
        leaps = Leaps(year) /\ leaps = 97 * e + f - h /\ f = y \div 4 /\ h = y \div 100
  BY <1>3, LeapsOfEra, LeapStep, SMT
<1>5. DayOf(date) = e * Era + (y * 365 + y \div 4 - y \div 100 + DoyOf(date)) - Epoch
  BY <1>2, <1>3, DayOfParts, SMT DEF YearFrom, MarchOf, DoyOf
<1>6. PICK days \in Int :
        days = DaysToMonth(IF m <= 2 THEN m + 9 ELSE m - 3) /\ days = DaysToMonth(MarchOf(date))
  BY <1>1, SMT DEF MarchOf, DaysToMonth
<1>7. DayOf(date) = 365 * year + leaps + days + d - 1 - 719468
  BY <1>1, <1>3, <1>4, <1>5, <1>6, SMT DEF DoyOf, Era, Epoch
<1>8. PICK before \in Int : before = Leaps(n - 1) /\ Leaps(n) = before + LeapDay(n)
  BY LeapStep, SMT
<1>9. YearStart(n) = 365 * n - 719050 + before - 477
  BY <1>8, SMT DEF YearStart, Leaps
<1>10. PICK start \in Int :
         /\ start = MonthStart(n, m)
         /\ m > 2 => start = DaysToMonth(m - 3) + 59 + LeapDay(n)
         /\ m <= 2 => start = DaysToMonth(m + 9) - 306
  <2>1. LinedUp(n, m)
    BY MonthsLineUp, Zenon
  <2> QED BY <2>1, Zenon DEF LinedUp
<1>11. DayOf(date) = YearStart(n) + MonthStart(n, m) + d - 1
  <2>1. CASE m > 2
    <3>1. start = days + 59 + LeapDay(n)
      <4>1. days = DaysToMonth(m - 3)
        BY <1>6, <2>1, SMT
      <4> QED BY <1>10, <2>1, <4>1, Zenon
    <3>2. year = n /\ leaps = before + LeapDay(n)
      BY <1>2, <1>4, <1>8, <2>1, SMT
    <3> QED BY <1>7, <1>9, <1>10, <3>1, <3>2, SMT DEF LeapDay
  <2>2. CASE m <= 2
    <3>1. start = days - 306
      <4>1. days = DaysToMonth(m + 9)
        BY <1>6, <2>2, SMT
      <4> QED BY <1>10, <2>2, <4>1, Zenon
    <3>2. year = n - 1 /\ leaps = before
      BY <1>2, <1>4, <1>8, <2>2, SMT
    <3> QED BY <1>7, <1>9, <1>10, <3>1, <3>2, SMT
  <2> QED BY <2>1, <2>2, SMT
<1> QED BY <1>1, <1>11

(* Every second of Timestamp's range is displayed under the date that the  *)
(* Gregorian calendar gives its day (timestamp.rs, Display).               *)
THEOREM GregorianDates ==
  \A day \in 0..MaxDay, second \in 0..(DaySeconds - 1) :
    IsDayOf(Display(Moment(day, second)).date, day)
<1> SUFFICES ASSUME NEW day \in 0..MaxDay, NEW second \in 0..(DaySeconds - 1)
             PROVE  IsDayOf(Display(Moment(day, second)).date, day)
  OBVIOUS
<1>1. day \in Int /\ 0 <= day
  BY SMT
<1>2. PICK date : date = Date(day) /\ Display(Moment(day, second)).date = date
  BY SMT DEF Display, Moment
<1>3. IsDate(date) /\ DayOf(date) = day /\ date \in Dates
  BY <1>1, <1>2, DateReadsBack, DateTyped
<1>4. PICK n, d \in Int, m \in 1..12 :
        n = date.year /\ m = date.month /\ d = date.day /\ d \in 1..DaysInMonth(n, m)
  BY <1>3, SMT DEF IsDate, Dates
<1>5. DaysInMonth(n, m) \in 28..31
  BY SMT DEF DaysInMonth
<1>6. day = YearStart(n) + MonthStart(n, m) + d - 1
  BY <1>3, <1>4, DayOfIsNumber
<1>7. YearStart(n) \in Int /\ YearStart(n + 1) \in Int
  BY LeapStep, SMT DEF YearStart
<1>8. MonthStart(n, m) \in Int /\ (m # 12 => MonthStart(n, m + 1) \in Int)
  <2>1. LinedUp(n, m)
    BY MonthsLineUp, Zenon
  <2>2. ASSUME m # 12 PROVE LinedUp(n, m + 1)
    <3>1. m + 1 \in 1..12
      BY <2>2, SMT
    <3> QED BY <3>1, MonthsLineUp, Zenon
  <2> QED BY <2>1, <2>2, Zenon DEF LinedUp
<1>9. day < YearStart(n) + (IF m = 12 THEN YearStart(n + 1) - YearStart(n)
                            ELSE MonthStart(n, m + 1))
  BY <1>4, <1>5, <1>6, <1>7, <1>8, MonthsFollow, SMT
<1>10. m \in 1..12 /\ d \in 1..31
  BY <1>4, <1>5, SMT
<1>11. IsDayOf(date, day)
  BY <1>4, <1>6, <1>9, <1>10 DEF IsDayOf
<1> QED BY <1>2, <1>11

-----------------------------------------------------------------------------
(* Every step of a run's lines is a step of what Output answers.           *)

LEMMA WireSteps == ASSUME [WireNext]_<<vars, wire>> PROVE [Next]_vars
<1>1. CASE Answering \/ Rendering \/ Rerunning
  BY <1>1 DEF Next
<1>2. CASE UNCHANGED vars
  BY <1>2
<1> QED
  BY <1>1, <1>2, Zenon
     DEF WireNext, HandlerErrs, FrameworkRefuses, Emit, PrintAnswer, Finish

THEOREM WireImplementsAnswers == WireSpec => Spec
<1>1. WireInit => Init
  BY DEF WireInit
<1>2. [WireNext]_<<vars, wire>> => [Next]_vars
  BY WireSteps
<1> QED
  BY <1>1, <1>2, PTL DEF WireSpec, Spec

-----------------------------------------------------------------------------
(* The doctor.                                                             *)

(* A run's call is one it was given, but for its --select.                 *)
Agrees(given) ==
  /\ DOMAIN call = DOMAIN given
  /\ \A key \in DOMAIN given \ {"select"} : call[key] = given[key]
CallKept == \E given \in Calls : Agrees(given)

Failed == {Checks[i] : i \in {j \in DOMAIN report : report[j] = "fail"}}

(* The codes of the failed checks, folded.                                 *)
Folded(code, failed) ==
  /\ code \in failed \cup {None}
  /\ code = None <=> failed = {}
  /\ code = "ERROR" <=> failed = {"ERROR"}

DoctorInv ==
  /\ IsOption(output)
  /\ IsDoctor =>
       /\ report \in Seq(Statuses) /\ Len(report) <= Len(Checks)
       /\ Folded(failExit, Failed)
       /\ \A out \in output :
            out.exit = failExit /\ out.result.map["healthy"] = Truth(failExit = None)
       /\ \A told \in answer, out \in output :
            told.result = out.result /\ told.exit = ExitOf(out.exit)

LEMMA FoldsOn ==
  ASSUME NEW before, NEW failed, NEW code \in ExitCodes, Folded(before, failed),
         None \notin failed
  PROVE  Folded(FailExitWith(before, code), failed \cup {code})
<1> code # None
  BY CodesAssumption DEF None, ExitCodes
<1>1. CASE before = None
  BY <1>1 DEF Folded, FailExitWith, None
<1>2. CASE before = "ERROR"
  BY <1>2 DEF Folded, FailExitWith, None
<1>3. CASE before \notin {None, "ERROR"}
  <2>1. before \in failed /\ failed # {} /\ failed \cup {code} # {"ERROR"}
    BY <1>3 DEF Folded
  <2> QED BY <1>3, <2>1 DEF Folded, FailExitWith, None
<1> QED BY <1>1, <1>2, <1>3

LEMMA ChecksAreCodes ==
  ASSUME CallKept, IsDoctor
  PROVE  Checks \in Seq(ExitCodes)
<1>1. PICK given \in Calls : Agrees(given)
  BY DEF CallKept
<1>2. call.checks = given.checks
  BY <1>1, ChecksAssumption DEF Agrees
<1>3. The(call.checks) \in call.checks
  BY DEF IsDoctor, The
<1> QED BY <1>2, <1>3, ChecksAssumption DEF Checks

LEMMA CallStays ==
  ASSUME CallKept, [Next]_vars
  PROVE  CallKept'
<1>1. PICK given \in Calls : Agrees(given)
  BY DEF CallKept
<1>2. CASE UNCHANGED call
  BY <1>1, <1>2 DEF CallKept, Agrees
<1>3. CASE Rerunning
  <2>1. PICK value : call' = [call EXCEPT !.select = value]
    BY <1>3 DEF Rerunning, Rerun
  <2>2. DOMAIN call' = DOMAIN call /\ \A key \in DOMAIN call \ {"select"} : call'[key] = call[key]
    BY <2>1
  <2> QED BY <1>1, <2>2 DEF CallKept, Agrees
<1> QED
  BY <1>2, <1>3, Zenon
     DEF Next, vars, Answering, Rendering, HandlerAnswers, HandlerReturns, ListReturns,
         CheckAnswers, DoctorReturns, HandlerSuccess, FrameworkAnswers

LEMMA DoctorStarts == ASSUME Init PROVE CallKept /\ DoctorInv
<1>1. CallKept
  BY DEF Init, CallKept, Agrees
<1>2. IsDoctor => Len(Checks) \in Nat
  BY <1>1, ChecksAreCodes
<1>3. report = <<>> /\ failExit = None /\ output = {} /\ answer = {}
  BY DEF Init
<1>4. Failed = {}
  BY <1>3 DEF Failed
<1> QED
  BY <1>1, <1>2, <1>3, <1>4 DEF DoctorInv, Folded, IsOption, None

LEMMA DoctorStays ==
  ASSUME CallKept, DoctorInv, [Next]_vars
  PROVE  DoctorInv'
<1> USE DEF IsDoctor, Checks
<1>1. ASSUME NEW out, HandlerReturns(out) PROVE DoctorInv'
  BY <1>1 DEF HandlerReturns, Running, DoctorInv, IsOption
<1>2. ASSUME NEW items, NEW truncated, ListReturns(items, truncated) PROVE DoctorInv'
  BY <1>2 DEF ListReturns, Running, DoctorInv, IsOption
<1>3. ASSUME NEW result \in Statuses, CheckAnswers(result) PROVE DoctorInv'
  <2>1. /\ Checks \in Seq(ExitCodes) /\ call' = call /\ IsDoctor
        /\ report \in Seq(Statuses) /\ Len(report) < Len(Checks)
        /\ report' = Append(report, result) /\ Folded(failExit, Failed)
        /\ output = {} /\ output' = {} /\ answer = {} /\ answer' = {}
    BY <1>3, ChecksAreCodes DEF CheckAnswers, Running, DoctorInv
  <2> DEFINE code == Checks[Len(report) + 1]
  <2>2. code \in ExitCodes /\ Len(report) \in Nat
    BY <2>1
  <2>3. /\ report' \in Seq(Statuses) /\ Len(report') <= Len(Checks)
        /\ DOMAIN report = 1..Len(report) /\ DOMAIN report' = 1..(Len(report) + 1)
        /\ report'[Len(report) + 1] = result
        /\ \A i \in DOMAIN report : report'[i] = report[i]
    BY <2>1, <2>2
  <2>4. Failed' = Failed \cup (IF result = "fail" THEN {code} ELSE {})
    BY <2>1, <2>2, <2>3 DEF Failed
  <2>5. None \notin Failed
    BY <2>1, <2>3, CodesAssumption DEF Failed, None, ExitCodes
  <2>6. failExit' = IF result = "fail" THEN FailExitWith(failExit, code) ELSE failExit
    BY <1>3 DEF CheckAnswers
  <2>7. Folded(failExit', Failed')
    <3>1. CASE result = "fail"
      <4> HIDE DEF code
      <4> QED BY <3>1, <2>1, <2>2, <2>4, <2>5, <2>6, FoldsOn
    <3>2. CASE result # "fail"
      BY <3>2, <2>1, <2>4, <2>6
    <3> QED BY <3>1, <3>2
  <2> QED BY <2>1, <2>3, <2>7 DEF DoctorInv, IsOption, Folded
<1>4. CASE DoctorReturns
  <2>1. PICK out : /\ out.exit = failExit /\ output' = {out}
                   /\ out.result.map["healthy"] = Truth(failExit = None)
    <3>1. Report.map["healthy"] = Truth(failExit = None)
      BY DEF Report, Obj
    <3>2. output' = {Returned(Report, <<>>, failExit, {}, {})}
      BY <1>4 DEF DoctorReturns
    <3>3. Returned(Report, <<>>, failExit, {}, {}).exit = failExit
          /\ Returned(Report, <<>>, failExit, {}, {}).result = Report
      BY DEF Returned
    <3> QED BY <3>1, <3>2, <3>3
  <2>2. UNCHANGED <<call, report, failExit, answer>> /\ answer = {}
    BY <1>4 DEF DoctorReturns, Running
  <2>3. Failed' = Failed
    BY <2>2 DEF Failed
  <2> QED BY <2>1, <2>2, <2>3 DEF DoctorInv, IsOption, Folded
<1>5. CASE HandlerSuccess
  <2>1. PICK out \in output :
          answer' = {[result |-> Projected(out).result, warning |-> Projected(out).warning,
                      actions |-> NextActions(out), exit |-> ExitOf(out.exit)]}
    BY <1>5 DEF HandlerSuccess
  <2>2. output = {out} /\ UNCHANGED <<call, report, failExit, output>>
    BY <1>5, <2>1 DEF HandlerSuccess, DoctorInv, IsOption
  <2>3. IsDoctor => Projected(out).result = out.result
    BY DEF Projected, AppliesReservedProjection
  <2>4. \A told \in answer' : told.result = Projected(out).result /\ told.exit = ExitOf(out.exit)
    BY <2>1
  <2>5. Failed' = Failed
    BY <2>2 DEF Failed
  <2> QED BY <2>2, <2>3, <2>4, <2>5 DEF DoctorInv, Folded
<1>6. ASSUME NEW result, FrameworkAnswers(result) PROVE DoctorInv'
  BY <1>6 DEF FrameworkAnswers, DoctorInv, IsOption
<1>7. CASE Rerunning
  <2>1. UNCHANGED <<report, failExit, output>> /\ answer' = {}
    BY <1>7 DEF Rerunning, Rerun
  <2>2. PICK value : call' = [call EXCEPT !.select = value]
    BY <1>7 DEF Rerunning, Rerun
  <2>3. call'.checks = call.checks
    BY <2>2, ChecksAssumption DEF CallKept, Agrees
  <2> QED BY <2>1, <2>3 DEF DoctorInv, Folded, Failed
<1>8. CASE UNCHANGED vars
  BY <1>8 DEF vars, DoctorInv, Folded, Failed
<1> QED
  BY <1>1, <1>2, <1>3, <1>4, <1>5, <1>6, <1>7, <1>8, Zenon
     DEF Next, Answering, HandlerAnswers, Rendering

LEMMA DoctorHolds == ASSUME CallKept, DoctorInv PROVE DoctorIsActionable
<1> SUFFICES ASSUME NEW told \in answer, NEW out \in output, IsDoctor
             PROVE  /\ "SUCCESS" \notin Failed => (told.exit = "SUCCESS" <=> Failed = {})
                    /\ told.exit = "ERROR" <=> Failed = {"ERROR"}
                    /\ Failed # {} => told.exit \in Failed
                    /\ told.result = out.result
                    /\ told.result.map["healthy"] = Truth(Failed = {})
  BY DEF DoctorIsActionable, Failed
<1>1. /\ told.result = out.result /\ told.exit = ExitOf(failExit)
      /\ told.result.map["healthy"] = Truth(failExit = None)
      /\ Folded(failExit, Failed) /\ report \in Seq(Statuses) /\ Len(report) <= Len(Checks)
  BY DEF DoctorInv
<1>2. Failed \subseteq ExitCodes
  BY <1>1, ChecksAreCodes DEF Failed
<1>3. None \notin Failed
  BY <1>2, CodesAssumption DEF None, ExitCodes
<1>4. (failExit = None) = (Failed = {})
  BY <1>1 DEF Folded
<1> QED BY <1>1, <1>3, <1>4 DEF Folded, ExitOf, None, Truth

(* Whatever the codes of the checks, the doctor's exit is the code of a    *)
(* failed check, the generic one only where no failed check has another;   *)
(* it is 0 where none failed, and beside a failed check only where the     *)
(* builder gave one the code SUCCESS. The report says healthy just when    *)
(* none failed, and is never projected (doctor.rs, handler_success).       *)
THEOREM DoctorsAreActionable == Spec => []DoctorIsActionable
<1>1. Init => CallKept /\ DoctorInv
  BY DoctorStarts
<1>2. CallKept /\ DoctorInv /\ [Next]_vars => CallKept' /\ DoctorInv'
  BY CallStays, DoctorStays
<1>3. CallKept /\ DoctorInv => DoctorIsActionable
  BY DoctorHolds
<1> QED BY <1>1, <1>2, <1>3, PTL DEF Spec
-----------------------------------------------------------------------------
(* What is on the wire.                                                    *)

InRange(moment) ==
  \E day \in 0..MaxDay, second \in 0..(DaySeconds - 1) : moment = Moment(day, second)

Printed(envelope) == IF call.stream THEN Terminal(envelope) ELSE Serialized(envelope)

(* A CommandError that the builder or the framework made.                  *)
IsError(failed) ==
  /\ failed.code \in {"OWN", "USAGE", "HANDLER_PANIC"} /\ failed.exit # "SUCCESS"
  /\ IsOption(failed.data) /\ AreActions(failed.actions)

IsAnswer(told) == told.exit # None /\ AreActions(told.actions)

(* An answer and an error are never there together. Before the process     *)
(* exits its last line is an event's; then it is the answer's or the       *)
(* error's.                                                                *)
WireInv ==
  /\ DefaultClock(call.pin, call.elapsed) # {}
  /\ \A out \in output : AreActions(out.actions)
  /\ IsOption(answer) /\ \A told \in answer : IsAnswer(told)
  /\ IsOption(error)
  /\ error # {} => answer = {} /\ output = {}
  /\ \A failed \in error : IsError(failed)
  /\ status = None => line = {} \/ \E event \in call.events : line = {EventLine(event)}
  /\ status # None =>
       \/ \E told \in answer :
            /\ answer = {told} /\ error = {} /\ status = told.exit
            /\ line = {Printed(SuccessEnvelope(told))}
       \/ \E failed \in error :
            /\ error = {failed} /\ status = ErrorEnvelope(failed).exit
            /\ line = {Printed(ErrorEnvelope(failed))}

Kept == {"stream", "version", "pin", "elapsed", "failures", "events"}

LEMMA CallFields ==
  ASSUME CallKept
  PROVE  /\ IsOption(call.version) /\ \A version \in call.version : ~IsNull(version)
         /\ IsOption(call.pin) /\ call.pin \subseteq {Malformed} \cup Readings
         /\ IsOption(call.elapsed) /\ call.elapsed \subseteq Readings
         /\ \A event \in call.events : IsEvent(event)
         /\ \A failure \in call.failures : IsOption(failure.data) /\ AreActions(failure.actions)
<1>1. PICK given \in Calls : Agrees(given)
  BY DEF CallKept
<1>2. \A key \in Kept : call[key] = given[key]
  BY <1>1, CallsAssumption DEF Agrees, Kept
<1>3. /\ call.version = given.version /\ call.pin = given.pin /\ call.elapsed = given.elapsed
      /\ call.events = given.events /\ call.failures = given.failures
  BY <1>2 DEF Kept
<1> QED BY <1>3, CallsAssumption

LEMMA FieldsStay ==
  ASSUME CallKept, Rerunning
  PROVE  \A key \in Kept : call'[key] = call[key]
<1>1. PICK value : call' = [call EXCEPT !.select = value]
  BY DEF Rerunning, Rerun
<1>2. Kept \subseteq DOMAIN call
  BY CallsAssumption DEF CallKept, Agrees, Kept
<1> QED BY <1>1, <1>2 DEF Kept

(* What is offered next is made of well-formed actions.                    *)

LEMMA AreOne == ASSUME NEW action, IsAction(action) PROVE AreActions(<<action>>)
BY DEF AreActions, ToSet

LEMMA AreNone == AreActions(<<>>)
BY DEF AreActions, ToSet

LEMMA AreJoined ==
  ASSUME NEW first, NEW more, AreActions(first), AreActions(more)
  PROVE  AreActions(first \o more)
<1> DEFINE both == first \o more
<1> DEFINE all == ToSet(first) \cup ToSet(more)
<1>1. /\ first \in Seq(ToSet(first)) /\ more \in Seq(ToSet(more))
      /\ \A action \in all : IsAction(action)
  BY DEF AreActions
<1>2. ToSet(first) \subseteq all /\ ToSet(more) \subseteq all
  OBVIOUS
<1> HIDE DEF all
<1>3. both \in Seq(all)
  BY <1>1, <1>2
<1> HIDE DEF both
<1>4. \A i \in DOMAIN both : both[i] \in all
  BY <1>3
<1>5. both \in Seq(ToSet(both))
  BY <1>3 DEF ToSet
<1> QED BY <1>1, <1>4, <1>5 DEF AreActions, ToSet, both

LEMMA AdvertisementIsAction == IsAction(AdvertisementAction)
BY DEF AdvertisementAction, Template, IsAction, IsOption, IsParam, ParamKeys, AnyValue, IsNull,
       Truth, Scalar, Text

LEMMA EnsuredActions ==
  ASSUME NEW actions, AreActions(actions)
  PROVE  AreActions(EnsureNextActions(actions))
BY ActionsAssumption DEF EnsureNextActions

LEMMA OfferedActions ==
  ASSUME NEW out, AreActions(out.actions)
  PROVE  AreActions(NextActions(out))
<1>1. AreActions(Advertisement(out))
  BY AreNone, AreOne, AdvertisementIsAction DEF Advertisement
<1> QED BY <1>1, AreNone, AreJoined, EnsuredActions DEF NextActions

LEMMA WireStarts == ASSUME WireInit PROVE WireInv
BY DEF WireInit, Init, WireInv, IsOption

LEMMA WireStays ==
  ASSUME CallKept, DoctorInv, WireInv, [WireNext]_<<vars, wire>>
  PROVE  WireInv'
<1> USE DEF Printed, SuccessEnvelope, ErrorEnvelope, Terminal, Serialized, Common, ErrorBody,
            Now, EventLine, Stamped
<1>1. CASE Answering /\ error = {} /\ UNCHANGED wire
  <2>1. CASE status # None
    BY <1>1, <2>1 DEF Answering, HandlerAnswers, HandlerReturns, ListReturns, CheckAnswers,
                      DoctorReturns, HandlerSuccess, Running, WireInv
  <2>2. CASE status = None
    <3>1. call' = call
      BY <1>1 DEF Answering, HandlerAnswers, HandlerReturns, ListReturns, CheckAnswers,
                      DoctorReturns, HandlerSuccess
    <3>2. /\ IsOption(answer') /\ \A told \in answer' : IsAnswer(told)
          /\ \A out \in output' : AreActions(out.actions)
      <4>1. CASE HandlerAnswers
        <5>1. answer' = answer
          BY <4>1 DEF HandlerAnswers, HandlerReturns, ListReturns, CheckAnswers, DoctorReturns
        <5>2. output' = output \/ \E out : output' = {out} /\ AreActions(out.actions)
          <6>1. ASSUME NEW out \in Outputs, HandlerReturns(out)
                PROVE  output' = {out} /\ AreActions(out.actions)
            BY <6>1, ActionsAssumption DEF HandlerReturns
          <6>2. ASSUME NEW items, NEW truncated, ListReturns(items, truncated)
                PROVE  \E out : output' = {out} /\ AreActions(out.actions)
            <7>1. ListTruncated(items, truncated).actions = <<>>
              BY DEF ListTruncated, Returned
            <7> QED BY <6>2, <7>1, AreNone DEF ListReturns
          <6>3. ASSUME NEW result, CheckAnswers(result) PROVE output' = output
            BY <6>3 DEF CheckAnswers
          <6>4. ASSUME DoctorReturns PROVE \E out : output' = {out} /\ AreActions(out.actions)
            <7>1. Returned(Report, <<>>, failExit, {}, {}).actions = <<>>
              BY DEF Returned
            <7> QED BY <6>4, <7>1, AreNone DEF DoctorReturns
          <6> QED BY <4>1, <6>1, <6>2, <6>3, <6>4, Zenon DEF HandlerAnswers
        <5> QED BY <5>1, <5>2 DEF WireInv
      <4>2. CASE HandlerSuccess
        <5>1. PICK out \in output :
                answer' = {[result |-> Projected(out).result, warning |-> Projected(out).warning,
                            actions |-> NextActions(out), exit |-> ExitOf(out.exit)]}
          BY <4>2 DEF HandlerSuccess
        <5>2. AreActions(NextActions(out)) /\ ExitOf(out.exit) # None
          BY OfferedActions DEF WireInv, ExitOf, None
        <5>3. IsOption(answer') /\ \A told \in answer' : IsAnswer(told)
          BY <5>1, <5>2 DEF IsOption, IsAnswer
        <5>4. output' = output
          BY <4>2 DEF HandlerSuccess
        <5> QED BY <5>3, <5>4 DEF WireInv
      <4> QED BY <1>1, <4>1, <4>2 DEF Answering
    <3> QED BY <1>1, <2>2, <3>1, <3>2 DEF WireInv, wire, IsOption
  <2> QED BY <2>1, <2>2
<1>2. CASE Rendering /\ ~call.stream /\ error = {} /\ UNCHANGED wire
  <2>1. /\ Running /\ call' = call /\ IsOption(answer')
        /\ \A told \in answer' : IsAnswer(told)
        /\ \A out \in output' : AreActions(out.actions)
    BY <1>2, ActionsAssumption, AreNone
       DEF Rendering, FrameworkAnswers, IsOption, None, IsAnswer, Returned
  <2>2. status = None
    BY <1>2, <2>1 DEF Running, WireInv
  <2> QED BY <1>2, <2>1, <2>2 DEF WireInv, wire, IsOption
<1>3. ASSUME NEW failure \in call.failures, HandlerErrs(failure) PROVE WireInv'
  <2>1. /\ Running /\ error = {} /\ error' = {ReturnedError(failure)}
        /\ UNCHANGED <<vars, line, status>>
    BY <1>3 DEF HandlerErrs
  <2>2. IsOption(failure.data) /\ AreActions(failure.actions)
    BY CallFields
  <2>3. IsError(ReturnedError(failure))
    BY <2>2, EnsuredActions, ActionsAssumption DEF ReturnedError, HandlerPanic, IsOption, IsError
  <2>4. status = None
    BY <2>1 DEF Running, WireInv
  <2> QED BY <2>1, <2>3, <2>4 DEF WireInv, IsOption, Running, vars
<1>4. CASE FrameworkRefuses
  <2>1. PICK failed : IsError(failed) /\ error' = {failed}
    BY <1>4, ActionsAssumption DEF FrameworkRefuses, IsError, IsOption
  <2>2. Running /\ error = {} /\ UNCHANGED <<vars, line, status>>
    BY <1>4 DEF FrameworkRefuses
  <2>3. status = None
    BY <2>2 DEF Running, WireInv
  <2> QED BY <2>1, <2>2, <2>3 DEF WireInv, IsOption, Running, vars
<1>5. ASSUME NEW event \in call.events, Emit(event) PROVE WireInv'
  <2>1. /\ Running /\ error = {} /\ line' = {EventLine(event)}
        /\ UNCHANGED <<vars, error, status>>
    BY <1>5 DEF Emit
  <2>2. status = None
    BY <2>1 DEF Running, WireInv
  <2> QED BY <2>1, <2>2 DEF WireInv, IsOption, Running, vars
<1>6. ASSUME NEW told \in answer, Finish(SuccessEnvelope(told)) PROVE WireInv'
  <2>1. /\ UNCHANGED <<vars, error>> /\ status' = told.exit
        /\ line' = {Printed(SuccessEnvelope(told))'}
    BY <1>6 DEF Finish, vars
  <2>2. answer = {told} /\ error = {} /\ told.exit # None
    BY DEF WireInv, IsOption, IsAnswer
  <2> QED BY <2>1, <2>2 DEF WireInv, IsOption, vars
<1>7. ASSUME NEW failed \in error, Finish(ErrorEnvelope(failed)) PROVE WireInv'
  <2>1. /\ UNCHANGED <<vars, error>> /\ status' = ErrorEnvelope(failed).exit
        /\ line' = {Printed(ErrorEnvelope(failed))'}
    BY <1>7 DEF Finish, vars
  <2>2. /\ error = {failed} /\ answer = {} /\ output = {}
        /\ ErrorEnvelope(failed).exit # None
    BY DEF WireInv, IsOption, None
  <2> QED BY <2>1, <2>2 DEF WireInv, IsOption, vars
<1>8. CASE Rerunning /\ status # None /\ error' = {} /\ line' = {} /\ status' = None
  <2>1. /\ answer' = {} /\ output' = output
        /\ call'.pin = call.pin /\ call'.elapsed = call.elapsed
    BY <1>8, FieldsStay DEF Kept, Rerunning, Rerun
  <2> QED BY <1>8, <2>1 DEF WireInv, IsOption
<1>9. CASE UNCHANGED <<vars, wire>>
  <2>1. /\ call' = call /\ answer' = answer /\ output' = output
        /\ error' = error /\ line' = line /\ status' = status
    BY <1>9 DEF vars, wire
  <2>2. /\ \A event : EventLine(event)' = EventLine(event)
        /\ \A told : Printed(SuccessEnvelope(told))' = Printed(SuccessEnvelope(told))
        /\ \A failed : /\ Printed(ErrorEnvelope(failed))' = Printed(ErrorEnvelope(failed))
                        /\ ErrorEnvelope(failed)' = ErrorEnvelope(failed)
    BY <2>1
  <2> HIDE DEF Printed, SuccessEnvelope, ErrorEnvelope, Terminal, Serialized, Common, ErrorBody,
               Now, EventLine, Stamped
  <2> QED BY <2>1, <2>2 DEF WireInv, IsOption
<1>10. ASSUME WireNext PROVE WireInv'
  <2>1. CASE PrintAnswer
    BY <2>1, <1>6, <1>7, Zenon DEF PrintAnswer
  <2> HIDE DEF Printed, SuccessEnvelope, ErrorEnvelope, Terminal, Serialized, Common, ErrorBody,
               Now, EventLine, Stamped
  <2> QED BY <2>1, <1>1, <1>2, <1>3, <1>4, <1>5, <1>8, <1>10, Zenon DEF WireNext
<1> QED BY <1>9, <1>10, Zenon

-----------------------------------------------------------------------------
(* The clock, and the texts near a moment's.                               *)

LEMMA FromEpochInRange ==
  ASSUME NEW reading \in Readings, FromEpoch(reading) # {}
  PROVE  FromEpoch(reading) = {reading} /\ InRange(reading)
<1>1. reading.day \in Nat /\ reading.day <= MaxDay
  BY DEF FromEpoch, Readings
<1>2. PICK day \in Nat : day = reading.day /\ day <= MaxDay
  BY <1>1
<1>3. MaxDay \in Int
  BY SMT DEF MaxDay
<1> QED BY <1>2, <1>3 DEF FromEpoch, Readings, InRange, Moment

LEMMA ClockReads ==
  ASSUME CallKept, DefaultClock(call.pin, call.elapsed) # {}
  PROVE  InRange(Now)
<1>1. InRange(UnixEpoch)
  <2>1. MaxDay \in Nat /\ DaySeconds - 1 \in Nat
    BY SMT DEF MaxDay, DaySeconds
  <2> QED BY <2>1 DEF InRange, UnixEpoch
<1>2. \A moment \in DefaultClock(call.pin, call.elapsed) : InRange(moment)
  <2>1. CASE call.pin # {}
    <3>1. PICK value : call.pin = {value} /\ value \in {Malformed} \cup Readings
      BY <2>1, CallFields DEF IsOption
    <3>2. DefaultClock(call.pin, call.elapsed) = ParseSourceDateEpoch(value)
      BY <3>1 DEF DefaultClock
    <3> QED BY <3>1, <3>2, FromEpochInRange DEF ParseSourceDateEpoch
  <2>2. CASE call.pin = {} /\ call.elapsed # {}
    <3>1. PICK reading : call.elapsed = {reading} /\ reading \in Readings
      BY <2>2, CallFields DEF IsOption
    <3>2. DefaultClock(call.pin, call.elapsed) = FromEpoch(reading)
      BY <2>2, <3>1 DEF DefaultClock, SystemNow
    <3> QED BY <3>1, <3>2, FromEpochInRange
  <2>3. CASE call.pin = {} /\ call.elapsed = {}
    BY <2>3, <1>1 DEF DefaultClock, SystemNow
  <2> QED BY <2>1, <2>2, <2>3
<1> QED BY <1>2 DEF Now, The

LEMMA InRangeReadsBack ==
  ASSUME NEW moment, InRange(moment)
  PROVE  Parse(Display(moment)) = {moment}
BY RoundTrip DEF InRange

-----------------------------------------------------------------------------
(* What a line says of an envelope, whatever more it holds.                *)

Says(map, envelope) ==
  /\ {"ok", "command", "timestamp", "exit_code", "next_actions"} \subseteq DOMAIN map
  /\ map["ok"] = Scalar(envelope.ok) /\ map["command"] = Text
  /\ map["timestamp"] = Scalar(Display(envelope.timestamp))
  /\ map["exit_code"] = Scalar(envelope.exit) /\ map["next_actions"] = ActionsJson(envelope.actions)
  /\ Given(map, "schema_version") = envelope.version
  /\ "ts" \notin DOMAIN map

SaysSuccess(map, envelope) ==
  /\ "result" \in DOMAIN map /\ map["result"] = envelope.result
  /\ Given(map, "select_warning") = envelope.warning

SaysError(map, envelope) ==
  /\ {"error", "fix"} \subseteq DOMAIN map
  /\ map["error"] = ErrorBody(envelope) /\ map["fix"] = Text
  /\ Given(map, "data") = envelope.data

(* A map with more keys than another, none of which a decoder knows.       *)
Extends(more, map, keys) ==
  /\ DOMAIN more = DOMAIN map \cup keys
  /\ \A key \in DOMAIN map : more[key] = map[key]

LEMMA OptionalGiven ==
  ASSUME NEW map, NEW key, NEW option, IsOption(option), key \notin DOMAIN map
  PROVE  LET more == With(map, Optional(key, option))
         IN  /\ Given(more, key) = option /\ DOMAIN map \subseteq DOMAIN more
             /\ DOMAIN more \subseteq DOMAIN map \cup {key}
             /\ \A k \in DOMAIN map : more[k] = map[k]
<1>1. Given(Optional(key, option), key) = option /\ DOMAIN Optional(key, option) \subseteq {key}
  BY DEF Given, Optional, IsOption, The
<1> QED BY <1>1 DEF With, Given

LEMMA CommonSays ==
  ASSUME NEW envelope, IsOption(envelope.version)
  PROVE  /\ Says(Common(envelope), envelope)
         /\ DOMAIN Common(envelope) \subseteq
              {"ok", "command", "timestamp", "exit_code", "next_actions", "schema_version"}
<1> DEFINE always == [ok |-> Scalar(envelope.ok), command |-> Text,
        timestamp |-> Scalar(Display(envelope.timestamp)), exit_code |-> Scalar(envelope.exit),
        next_actions |-> ActionsJson(envelope.actions)]
<1>1. /\ DOMAIN always = {"ok", "command", "timestamp", "exit_code", "next_actions"}
      /\ always["ok"] = Scalar(envelope.ok) /\ always["command"] = Text
      /\ always["timestamp"] = Scalar(Display(envelope.timestamp))
      /\ always["exit_code"] = Scalar(envelope.exit) /\ always["next_actions"] = ActionsJson(envelope.actions)
  OBVIOUS
<1>2. Common(envelope) = With(always, Optional("schema_version", envelope.version))
  BY DEF Common
<1> HIDE DEF always
<1> QED BY <1>1, <1>2, OptionalGiven DEF Says

LEMMA SerializedSays ==
  ASSUME NEW envelope, IsOption(envelope.version), envelope.ok \in BOOLEAN,
         envelope.ok => IsOption(envelope.warning), ~envelope.ok => IsOption(envelope.data)
  PROVE  /\ Says(Serialized(envelope), envelope) /\ "type" \notin DOMAIN Serialized(envelope)
         /\ envelope.ok => SaysSuccess(Serialized(envelope), envelope)
         /\ ~envelope.ok => SaysError(Serialized(envelope), envelope)
<1>1. /\ Says(Common(envelope), envelope)
      /\ DOMAIN Common(envelope) \subseteq
              {"ok", "command", "timestamp", "exit_code", "next_actions", "schema_version"}
  BY CommonSays
<1>2. CASE envelope.ok
  <2> DEFINE shown == With([result |-> envelope.result], Optional("select_warning", envelope.warning))
  <2>1. /\ DOMAIN shown \subseteq {"result", "select_warning"} /\ "result" \in DOMAIN shown
        /\ shown["result"] = envelope.result /\ Given(shown, "select_warning") = envelope.warning
    <3> DEFINE always == [result |-> envelope.result]
    <3>1. DOMAIN always = {"result"} /\ always["result"] = envelope.result
      OBVIOUS
    <3> HIDE DEF always
    <3>2. shown = With(always, Optional("select_warning", envelope.warning))
      BY DEF always
    <3> QED BY <1>2, <3>1, <3>2, OptionalGiven
  <2>2. Serialized(envelope) = With(Common(envelope), shown)
    BY <1>2 DEF Serialized
  <2> HIDE DEF shown
  <2>3. PICK common : common = Common(envelope)
    OBVIOUS
  <2>4. /\ Says(With(common, shown), envelope) /\ "type" \notin DOMAIN With(common, shown)
        /\ SaysSuccess(With(common, shown), envelope)
    BY <1>1, <2>1, <2>3 DEF With, Says, SaysSuccess, Given
  <2> QED BY <1>2, <2>2, <2>3, <2>4
<1>3. CASE ~envelope.ok
  <2> DEFINE shown == With([error |-> ErrorBody(envelope), fix |-> Text], Optional("data", envelope.data))
  <2>1. /\ DOMAIN shown \subseteq {"error", "fix", "data"} /\ {"error", "fix"} \subseteq DOMAIN shown
        /\ shown["error"] = ErrorBody(envelope) /\ shown["fix"] = Text
        /\ Given(shown, "data") = envelope.data
    <3> DEFINE always == [error |-> ErrorBody(envelope), fix |-> Text]
    <3>1. /\ DOMAIN always = {"error", "fix"}
          /\ always["error"] = ErrorBody(envelope) /\ always["fix"] = Text
      OBVIOUS
    <3> HIDE DEF always
    <3>2. shown = With(always, Optional("data", envelope.data))
      BY DEF always
    <3> QED BY <1>3, <3>1, <3>2, OptionalGiven
  <2>2. Serialized(envelope) = With(Common(envelope), shown)
    BY <1>3 DEF Serialized
  <2> HIDE DEF shown
  <2> QED BY <1>1, <1>3, <2>1, <2>2 DEF With, Says, SaysError, Given
<1> QED BY <1>2, <1>3

LEMMA StillSays ==
  ASSUME NEW map, NEW more, NEW envelope, NEW keys, keys \subseteq {"type", "added"},
         Extends(more, map, keys), Says(map, envelope)
  PROVE  /\ Says(more, envelope)
         /\ SaysSuccess(map, envelope) => SaysSuccess(more, envelope)
         /\ SaysError(map, envelope) => SaysError(more, envelope)
BY DEF Extends, Says, SaysSuccess, SaysError, Given

(* A next action is read as what was offered, without its nulls.          *)

LEMMA ParamReadsBack ==
  ASSUME NEW param, IsParam(param)
  PROVE  ReadParam(param) =
           [key \in {k \in DOMAIN param : ~IsNull(param[k])} |-> param[key]]
<1>1. {k \in ParamKeys : GivenValue(param, k) # {}} = {k \in DOMAIN param : ~IsNull(param[k])}
  BY DEF IsParam, GivenValue, Given
<1> QED BY <1>1 DEF ReadParam

LEMMA ActionReadsBack ==
  ASSUME NEW action, IsAction(action)
  PROVE  ReadAction(ActionJson(action)) = WithoutNulls(action)
<1> DEFINE always == [command |-> Scalar(action.command), description |-> Text]
<1> DEFINE written == {ParamsJson(params) : params \in action.params}
<1> DEFINE map == With(always, Optional("params", written))
<1>1. ActionJson(action).map = map
  BY DEF ActionJson, Obj
<1>2. "params" \notin DOMAIN always /\ "command" \in DOMAIN always
      /\ always["command"] = Scalar(action.command)
  OBVIOUS
<1>3. IsOption(written)
  BY DEF IsAction, IsOption
<1> HIDE DEF always
<1>4. Given(map, "params") = written /\ "command" \in DOMAIN map
      /\ map["command"] = Scalar(action.command)
  BY <1>2, <1>3, OptionalGiven
<1> HIDE DEF map
<1>5. GivenValue(map, "params") = written
  BY <1>4 DEF GivenValue, ParamsJson, Obj, IsNull
<1> DEFINE Read(json) == [name \in DOMAIN json.map |-> ReadParam(json.map[name].map)]
<1> DEFINE Told(params) ==
      [name \in DOMAIN params |->
         [key \in {k \in DOMAIN params[name] : ~IsNull(params[name][k])} |-> params[name][key]]]
<1>6. ASSUME NEW params \in action.params
      PROVE  Read(ParamsJson(params)) = Told(params)
  <2>1. /\ DOMAIN ParamsJson(params).map = DOMAIN params
        /\ \A name \in DOMAIN params : ParamsJson(params).map[name].map = params[name]
    BY DEF ParamsJson, Obj
  <2>2. \A name \in DOMAIN params : IsParam(params[name])
    BY DEF IsAction
  <2> QED BY <2>1, <2>2, ParamReadsBack
<1>7. ReadAction(ActionJson(action)) =
        [command |-> map["command"].value,
         params |-> {Read(json) : json \in GivenValue(map, "params")}]
  BY <1>1 DEF ReadAction
<1>8. WithoutNulls(action) =
        [command |-> action.command, params |-> {Told(params) : params \in action.params}]
  BY DEF WithoutNulls
<1> HIDE DEF Read, Told
<1>9. {Read(json) : json \in written} = {Told(params) : params \in action.params}
  BY <1>6
<1>10. map["command"].value = action.command
  BY <1>4 DEF Scalar
<1> QED BY <1>5, <1>7, <1>8, <1>9, <1>10

LEMMA ActionsReadBack ==
  ASSUME NEW actions, AreActions(actions)
  PROVE  ReadActions(ActionsJson(actions)) = [i \in DOMAIN actions |-> WithoutNulls(actions[i])]
<1>1. \A i \in DOMAIN actions : ReadAction(ActionJson(actions[i])) = WithoutNulls(actions[i])
  BY ActionReadsBack DEF AreActions, ToSet
<1>2. /\ DOMAIN ActionsJson(actions).items = DOMAIN actions
      /\ \A i \in DOMAIN actions : ActionsJson(actions).items[i] = ActionJson(actions[i])
  BY DEF ActionsJson, Arr
<1> QED BY <1>1, <1>2 DEF ReadActions

LEMMA AnswerAsRead ==
  ASSUME NEW envelope, NEW version, NEW result, NEW warning, NEW actions, NEW exit,
         envelope = [ok |-> TRUE, timestamp |-> Now, version |-> version, result |-> result,
                     warning |-> warning, actions |-> actions, exit |-> exit]
  PROVE  AsRead(envelope) =
           [ok |-> TRUE, timestamp |-> Now, version |-> version, result |-> result,
            warning |-> warning, actions |-> [i \in DOMAIN actions |-> WithoutNulls(actions[i])],
            exit |-> exit]
<1> DEFINE read == [i \in DOMAIN actions |-> WithoutNulls(actions[i])]
<1>1. envelope.actions = actions
  OBVIOUS
<1>2. AsRead(envelope) = [envelope EXCEPT !.actions = read]
  BY <1>1 DEF AsRead
<1> QED BY <1>2

LEMMA ErrorAsRead ==
  ASSUME NEW envelope, NEW version, NEW code, NEW retryable, NEW actions, NEW data, NEW exit,
         envelope = [ok |-> FALSE, timestamp |-> Now, version |-> version, code |-> code,
                     retryable |-> retryable, actions |-> actions, data |-> data, exit |-> exit]
  PROVE  AsRead(envelope) =
           [ok |-> FALSE, timestamp |-> Now, version |-> version, code |-> code,
            retryable |-> retryable,
            actions |-> [i \in DOMAIN actions |-> WithoutNulls(actions[i])],
            data |-> data, exit |-> exit]
<1> DEFINE read == [i \in DOMAIN actions |-> WithoutNulls(actions[i])]
<1>1. envelope.actions = actions
  OBVIOUS
<1>2. AsRead(envelope) = [envelope EXCEPT !.actions = read]
  BY <1>1 DEF AsRead
<1> QED BY <1>2

LEMMA SuccessReadsBack ==
  ASSUME NEW map, NEW told, CallKept, InRange(Now),
         AreActions(told.actions),
         Says(map, SuccessEnvelope(told)), SaysSuccess(map, SuccessEnvelope(told))
  PROVE  /\ ReadSuccess(map) = {AsRead(SuccessEnvelope(told))}
         /\ ReadEnvelope(map) = {AsRead(SuccessEnvelope(told))}
<1> DEFINE envelope == SuccessEnvelope(told)
<1>1. /\ envelope.ok = TRUE /\ envelope.timestamp = Now /\ envelope.version = call.version
      /\ envelope.warning \subseteq {Text} /\ envelope.actions = told.actions
  BY DEF SuccessEnvelope
<1> DEFINE read == [i \in DOMAIN envelope.actions |-> WithoutNulls(envelope.actions[i])]
<1>2. AsRead(envelope) = [ok |-> TRUE, timestamp |-> Now, version |-> envelope.version,
                          result |-> envelope.result, warning |-> envelope.warning,
                          actions |-> read, exit |-> envelope.exit]
  <2>1. envelope = [ok |-> TRUE, timestamp |-> Now, version |-> envelope.version,
                          result |-> envelope.result, warning |-> envelope.warning,
                          actions |-> envelope.actions, exit |-> envelope.exit]
    BY DEF SuccessEnvelope
  <2> HIDE DEF envelope
  <2> QED BY <2>1, AnswerAsRead
<1>3. \A version \in envelope.version : ~IsNull(version)
  BY <1>1, CallFields
<1> HIDE DEF envelope
<1>4. Says(map, envelope) /\ SaysSuccess(map, envelope)
  BY DEF envelope
<1>5. ReadTime(map["timestamp"]) = {Now}
  BY <1>1, <1>4, InRangeReadsBack DEF Says, ReadTime, IsNull, Scalar
<1>6. /\ map["ok"].value = TRUE /\ ReadActions(map["next_actions"]) = read
      /\ map["exit_code"].value = envelope.exit
  BY <1>1, <1>4, ActionsReadBack DEF Says, Scalar
<1>7. Strict(map, {"ok", "command", "timestamp", "exit_code", "next_actions"},
                  {"schema_version", "select_warning"})
  BY <1>1, <1>3, <1>4 DEF Strict, Says, SaysSuccess, IsNull, Scalar, ActionsJson, Arr, Text, Given
<1> HIDE DEF read
<1>8. ReadSuccess(map) = {AsRead(envelope)}
  BY <1>2, <1>4, <1>5, <1>6, <1>7 DEF ReadSuccess, Says, SaysSuccess
<1>9. "ok" \in DOMAIN map /\ ~IsNull(map["ok"])
  BY <1>4 DEF Says, IsNull, Scalar
<1> QED BY <1>6, <1>8, <1>9 DEF ReadEnvelope, envelope
(* No decoder takes an error whose data is null.                           *)
Heard(failed) ==
  IF \E data \in failed.data : IsNull(data) THEN {} ELSE {AsRead(ErrorEnvelope(failed))}

LEMMA ErrorReadsBack ==
  ASSUME NEW map, NEW failed, CallKept, InRange(Now), IsError(failed),
         Says(map, ErrorEnvelope(failed)), SaysError(map, ErrorEnvelope(failed))
  PROVE  ReadError(map) = Heard(failed) /\ ReadEnvelope(map) = Heard(failed)
<1> DEFINE envelope == ErrorEnvelope(failed)
<1>1. /\ envelope.ok = FALSE /\ envelope.timestamp = Now /\ envelope.version = call.version
      /\ envelope.code = failed.code /\ envelope.data = failed.data
      /\ envelope.exit # "SUCCESS" /\ AreActions(envelope.actions)
  BY DEF ErrorEnvelope, IsError
<1> DEFINE read == [i \in DOMAIN envelope.actions |-> WithoutNulls(envelope.actions[i])]
<1>2. AsRead(envelope) = [ok |-> FALSE, timestamp |-> Now, version |-> envelope.version,
                          code |-> envelope.code, retryable |-> envelope.retryable,
                          actions |-> read, data |-> envelope.data, exit |-> envelope.exit]
  <2>1. envelope = [ok |-> FALSE, timestamp |-> Now, version |-> envelope.version,
                          code |-> envelope.code, retryable |-> envelope.retryable,
                          actions |-> envelope.actions, data |-> envelope.data, exit |-> envelope.exit]
    BY DEF ErrorEnvelope
  <2> HIDE DEF envelope
  <2> QED BY <2>1, ErrorAsRead
<1>3. \A version \in envelope.version : ~IsNull(version)
  BY <1>1, CallFields
<1>4. Says(map, envelope) /\ SaysError(map, envelope)
  BY DEF envelope
<1> HIDE DEF envelope
<1>5. ReadTime(map["timestamp"]) = {Now}
  BY <1>1, <1>4, InRangeReadsBack DEF Says, ReadTime, IsNull, Scalar
<1>6. /\ map["ok"].value = FALSE /\ ReadActions(map["next_actions"]) = read
      /\ map["exit_code"].value = envelope.exit
  BY <1>1, <1>4, ActionsReadBack DEF Says, Scalar
<1>7. Strict(map, {"ok", "command", "timestamp", "exit_code", "error", "fix", "next_actions"},
                  {"schema_version"})
  BY <1>1, <1>3, <1>4
     DEF Strict, Says, SaysError, IsNull, Scalar, ActionsJson, Arr, Text, Given, ErrorBody, Obj
<1>8. /\ IsObj(map["error"]) /\ Strict(map["error"].map, {"message", "code", "retryable"}, {})
      /\ map["error"].map["code"].value = envelope.code
      /\ map["error"].map["retryable"].value = envelope.retryable
  BY <1>4 DEF SaysError, ErrorBody, Obj, IsObj, Strict, IsNull, Scalar, Text
<1>9. envelope.code # ""
  BY <1>1 DEF IsError
<1>10. Given(map, "data") = envelope.data /\ Given(map, "schema_version") = envelope.version
  BY <1>4 DEF Says, SaysError
<1> HIDE DEF read
<1>11. ReadError(map) = Heard(failed)
  <2>1. CASE \E data \in failed.data : IsNull(data)
    BY <2>1, <1>1, <1>10 DEF ReadError, Heard
  <2>2. CASE \A data \in failed.data : ~IsNull(data)
    <3>1. ReadError(map) = {AsRead(envelope)}
      BY <2>2, <1>1, <1>2, <1>5, <1>6, <1>7, <1>8, <1>9, <1>10 DEF ReadError
    <3> QED BY <2>2, <3>1 DEF Heard, envelope
  <2> QED BY <2>1, <2>2
<1>12. "ok" \in DOMAIN map /\ ~IsNull(map["ok"])
  BY <1>4 DEF Says, IsNull, Scalar
<1> QED BY <1>6, <1>11, <1>12 DEF ReadEnvelope

(* The event lines.                                                        *)

LEMMA EventReadsBack ==
  ASSUME NEW event, IsEvent(event), NEW moment, InRange(moment), NEW more, NEW keys,
         keys \subseteq {"added"}, Extends(more, Stamped(event, moment), keys)
  PROVE  /\ "ok" \notin DOMAIN Stamped(event, moment) /\ "ok" \notin DOMAIN more
         /\ ReadLine(more) = {[event |-> event, timestamp |-> moment]}
<1>1. PICK type \in DOMAIN Required,
           given \in SUBSET {"duration_ms", "error", "percent", "message"} :
        /\ DOMAIN event = {"type"} \cup Required[type] \cup given
        /\ event = [key \in DOMAIN event |-> event[key]]
        /\ given \subseteq Optionals[type] /\ event["type"] = Scalar(type)
        /\ \A key \in DOMAIN event \ {"data"} : ~IsNull(event[key])
  BY DEF IsEvent
<1>2. /\ type \in {"start", "step", "progress", "log", "event"}
      /\ Required[type] \subseteq {"command", "name", "status", "level", "message", "data"}
      /\ Optionals[type] \subseteq {"duration_ms", "error", "percent", "message"}
      /\ Optionals[type] \cap Required[type] = {} /\ "data" \notin Optionals[type]
  BY DEF Required, Optionals
<1>3. /\ DOMAIN more = DOMAIN event \cup {"ts"} \cup keys
      /\ \A key \in DOMAIN event : more[key] = event[key]
      /\ more["ts"] = Scalar(Display(moment))
  BY <1>1, <1>2 DEF Extends, Stamped, With
<1>4. DOMAIN Stamped(event, moment) = DOMAIN event \cup {"ts"}
  BY DEF Stamped, With
<1>5. "ok" \notin DOMAIN Stamped(event, moment) /\ "ok" \notin DOMAIN more
  BY <1>1, <1>2, <1>3, <1>4
<1>6. "type" \in DOMAIN more /\ more["type"].value = type
  BY <1>1, <1>3 DEF Scalar
<1>7. UNION {ReadTime(ts) : ts \in Given(more, "ts")} = {moment}
  <2>1. Given(more, "ts") = {Scalar(Display(moment))}
    BY <1>3 DEF Given
  <2>2. ReadTime(Scalar(Display(moment))) = {moment}
    BY InRangeReadsBack DEF ReadTime, IsNull, Scalar
  <2> QED BY <2>1, <2>2
<1>8. ReadEvent(more, type) = {event}
  <2>1. {key \in Optionals[type] \cap DOMAIN more : ~IsNull(more[key])} = given
    BY <1>1, <1>2, <1>3
  <2>2. \A key \in Required[type] \ {"data"} : ~IsNull(more[key])
    BY <1>1, <1>2, <1>3
  <2>3. [key \in {"type"} \cup Required[type] \cup given |-> more[key]] = event
    BY <1>1, <1>3
  <2> QED BY <1>1, <1>3, <2>1, <2>2, <2>3 DEF ReadEvent
<1>9. ReadLine(more) = {[event |-> got, timestamp |-> read] : got \in {event}, read \in {moment}}
  BY <1>2, <1>6, <1>7, <1>8 DEF ReadLine
<1> QED BY <1>5, <1>9
-----------------------------------------------------------------------------
(* Every line that is printed.                                             *)

LEMMA LaterExtends == ASSUME NEW map PROVE Extends(Later(map), map, {"added"})
BY DEF Extends, Later, With

LEMMA PrintedSays ==
  ASSUME NEW envelope, IsOption(envelope.version), envelope.ok \in BOOLEAN,
         envelope.ok => IsOption(envelope.warning), ~envelope.ok => IsOption(envelope.data),
         NEW read, read \in {Printed(envelope), Later(Printed(envelope))}
  PROVE  /\ Says(read, envelope)
         /\ envelope.ok => SaysSuccess(read, envelope)
         /\ ~envelope.ok => SaysError(read, envelope)
         /\ ~call.stream => "type" \notin DOMAIN read
         /\ call.stream => /\ "type" \in DOMAIN read
                           /\ read["type"].value = IF envelope.ok THEN "result" ELSE "error"
<1> DEFINE plain == Serialized(envelope)
<1> DEFINE printed == Printed(envelope)
<1>1. /\ Says(plain, envelope) /\ "type" \notin DOMAIN plain
      /\ envelope.ok => SaysSuccess(plain, envelope)
      /\ ~envelope.ok => SaysError(plain, envelope)
  BY SerializedSays
<1>2. CASE ~call.stream
  <2>1. printed = plain
    BY <1>2 DEF Printed
  <2> HIDE DEF plain
  <2>2. read = plain \/ Extends(read, plain, {"added"})
    BY <2>1, LaterExtends
  <2>3. "type" \notin DOMAIN read
    BY <1>1, <2>2 DEF Extends
  <2> QED BY <1>1, <1>2, <2>2, <2>3, StillSays
<1>3. CASE call.stream
  <2> DEFINE type == IF envelope.ok THEN "result" ELSE "error"
  <2>1. printed = With([type |-> Scalar(type)], plain)
    BY <1>3 DEF Printed, Terminal
  <2> HIDE DEF plain
  <2>2. Extends(printed, plain, {"type"}) /\ printed["type"] = Scalar(type)
    BY <1>1, <2>1 DEF With, Extends
  <2> HIDE DEF printed
  <2>3. read = printed \/ Extends(read, printed, {"added"})
    BY LaterExtends DEF printed
  <2>4. /\ Says(printed, envelope)
        /\ envelope.ok => SaysSuccess(printed, envelope)
        /\ ~envelope.ok => SaysError(printed, envelope)
    BY <1>1, <2>2, StillSays
  <2>5. "type" \in DOMAIN read /\ read["type"] = Scalar(type)
    BY <2>2, <2>3 DEF Extends
  <2>6. read["type"].value = type
    BY <2>5 DEF Scalar
  <2> QED BY <1>3, <2>3, <2>4, <2>5, <2>6, StillSays
<1> QED BY <1>2, <1>3

LEMMA AnswerLine ==
  ASSUME CallKept, InRange(Now), NEW told, AreActions(told.actions), NEW read,
         read \in {Printed(SuccessEnvelope(told)), Later(Printed(SuccessEnvelope(told)))}
  PROVE  /\ Says(read, SuccessEnvelope(told)) /\ ReadEnvelope(read) = {AsRead(SuccessEnvelope(told))}
         /\ ReadLine(read) = IF call.stream THEN {AsRead(SuccessEnvelope(told))} ELSE {}
<1>1. /\ SuccessEnvelope(told).ok = TRUE /\ IsOption(SuccessEnvelope(told).version)
      /\ IsOption(SuccessEnvelope(told).warning)
  BY CallFields DEF SuccessEnvelope, IsOption
<1>2. /\ Says(read, SuccessEnvelope(told)) /\ SaysSuccess(read, SuccessEnvelope(told))
      /\ ~call.stream => "type" \notin DOMAIN read
      /\ call.stream => "type" \in DOMAIN read /\ read["type"].value = "result"
  BY <1>1, PrintedSays
<1>3. ReadEnvelope(read) = {AsRead(SuccessEnvelope(told))} /\ ReadSuccess(read) = {AsRead(SuccessEnvelope(told))}
  BY <1>2, SuccessReadsBack
<1> QED BY <1>2, <1>3 DEF ReadLine

LEMMA ErrorLine ==
  ASSUME CallKept, InRange(Now), NEW failed, NEW read,
         IsError(failed), read \in {Printed(ErrorEnvelope(failed)), Later(Printed(ErrorEnvelope(failed)))}
  PROVE  /\ Says(read, ErrorEnvelope(failed)) /\ ReadEnvelope(read) = Heard(failed)
         /\ ReadLine(read) = IF call.stream THEN Heard(failed) ELSE {}
<1>1. /\ ErrorEnvelope(failed).ok = FALSE /\ IsOption(ErrorEnvelope(failed).version)
      /\ IsOption(ErrorEnvelope(failed).data)
  BY CallFields DEF ErrorEnvelope, IsError
<1>2. /\ Says(read, ErrorEnvelope(failed)) /\ SaysError(read, ErrorEnvelope(failed))
      /\ ~call.stream => "type" \notin DOMAIN read
      /\ call.stream => "type" \in DOMAIN read /\ read["type"].value = "error"
  BY <1>1, PrintedSays
<1>3. ReadEnvelope(read) = Heard(failed) /\ ReadError(read) = Heard(failed)
  BY <1>2, ErrorReadsBack
<1> QED BY <1>2, <1>3 DEF ReadLine

LEMMA LinesHold ==
  ASSUME CallKept, WireInv
  PROVE  LinesReadBack
<1>1. InRange(Now)
  BY ClockReads DEF WireInv
<1> SUFFICES ASSUME NEW map \in line, NEW read \in {map, Later(map)}
             PROVE  IF "ok" \notin DOMAIN map
                    THEN /\ {Stamped(got.event, got.timestamp) : got \in ReadLine(read)} = {map}
                         /\ ReadEnvelope(read) = {}
                    ELSE /\ ReadEnvelope(read) = IF NullData THEN {} ELSE {AsRead(said) : said \in Said}
                         /\ ReadLine(read) = IF call.stream THEN ReadEnvelope(read) ELSE {}
                         /\ status = map["exit_code"].value
                         /\ status = "SUCCESS" => map["ok"].value
  BY DEF LinesReadBack
<1>2. CASE status = None
  <2>1. PICK event \in call.events : map = EventLine(event)
    BY <1>2 DEF WireInv
  <2>2. IsEvent(event)
    BY CallFields
  <2>3. Extends(map, map, {}) /\ Extends(Later(map), map, {"added"})
    BY LaterExtends DEF Extends
  <2>4. /\ "ok" \notin DOMAIN map /\ "ok" \notin DOMAIN read
        /\ ReadLine(read) = {[event |-> event, timestamp |-> Now]}
    BY <1>1, <2>1, <2>2, <2>3, EventReadsBack DEF EventLine
  <2>5. map = Stamped(event, Now)
    BY <2>1 DEF EventLine
  <2> QED BY <2>4, <2>5 DEF ReadEnvelope
<1>3. ASSUME NEW told, answer = {told}, error = {}, status = told.exit, status # None,
             line = {Printed(SuccessEnvelope(told))}
      PROVE  /\ "ok" \in DOMAIN map /\ ReadEnvelope(read) = IF NullData THEN {} ELSE {AsRead(said) : said \in Said}
             /\ ReadLine(read) = IF call.stream THEN ReadEnvelope(read) ELSE {}
             /\ status = map["exit_code"].value
             /\ status = "SUCCESS" => map["ok"].value
  <2>1. Said = {SuccessEnvelope(told)} /\ ~NullData
    BY <1>3 DEF Said, NullData
  <2>2. map = Printed(SuccessEnvelope(told)) /\ AreActions(told.actions)
    BY <1>3 DEF WireInv, IsAnswer
  <2>3. /\ Says(map, SuccessEnvelope(told)) /\ ReadEnvelope(read) = {AsRead(SuccessEnvelope(told))}
        /\ ReadLine(read) = IF call.stream THEN {AsRead(SuccessEnvelope(told))} ELSE {}
    BY <1>1, <2>2, AnswerLine
  <2>4. /\ "ok" \in DOMAIN map /\ map["ok"].value = TRUE /\ map["exit_code"].value = told.exit
    BY <2>3 DEF Says, SuccessEnvelope, Scalar
  <2> QED BY <1>3, <2>1, <2>3, <2>4
<1>4. ASSUME NEW failed, error = {failed}, status = ErrorEnvelope(failed).exit, status # None,
             line = {Printed(ErrorEnvelope(failed))}
      PROVE  /\ "ok" \in DOMAIN map /\ ReadEnvelope(read) = IF NullData THEN {} ELSE {AsRead(said) : said \in Said}
             /\ ReadLine(read) = IF call.stream THEN ReadEnvelope(read) ELSE {}
             /\ status = map["exit_code"].value
             /\ status = "SUCCESS" => map["ok"].value
  <2>1. answer = {} /\ IsError(failed)
    BY <1>4 DEF WireInv
  <2>2. Said = {ErrorEnvelope(failed)} /\ (NullData <=> \E data \in failed.data : IsNull(data))
    BY <1>4, <2>1 DEF Said, NullData
  <2>3. map = Printed(ErrorEnvelope(failed))
    BY <1>4
  <2>4. /\ Says(map, ErrorEnvelope(failed)) /\ ReadEnvelope(read) = Heard(failed)
        /\ ReadLine(read) = IF call.stream THEN Heard(failed) ELSE {}
    BY <1>1, <2>1, <2>3, ErrorLine
  <2>5. /\ "ok" \in DOMAIN map /\ map["exit_code"].value = ErrorEnvelope(failed).exit
    BY <2>4 DEF Says, Scalar
  <2>6. ErrorEnvelope(failed).exit # "SUCCESS"
    BY <2>1 DEF ErrorEnvelope, IsError
  <2> QED BY <1>4, <2>2, <2>4, <2>5, <2>6 DEF Heard
<1> QED BY <1>2, <1>3, <1>4 DEF WireInv

-----------------------------------------------------------------------------
(* The second a line says.                                                 *)

LEMMA DisplayIsText ==
  ASSUME NEW moment, InRange(moment)
  PROVE  Display(moment) \in Texts
<1>1. PICK day \in Nat, second \in Nat : moment = Moment(day, second)
  <2>1. MaxDay \in Int /\ DaySeconds - 1 \in Int
    BY SMT DEF MaxDay, DaySeconds
  <2> QED BY <2>1 DEF InRange
<1>2. moment.day = day /\ moment.second = second
  BY <1>1 DEF Moment
<1>3. second \div 3600 \in Nat /\ (second % 3600) \div 60 \in Nat /\ second % 60 \in Nat
  BY SMT
<1>4. Date(day) \in Dates
  <2>1. PICK z, doe \in Int : z = day + Epoch /\ doe = z % Era
    BY SMT DEF Epoch, Era
  <2>2. z \div Era \in Int
    BY SMT DEF Era
  <2>3. YearOfEra(doe) \in Int
    BY SMT DEF YearOfEra
  <2>4. DayOfYear(doe) \in Int
    BY <2>3, SMT DEF DayOfYear
  <2>5. MarchMonth(DayOfYear(doe)) \in Int
    BY <2>4, SMT DEF MarchMonth
  <2>6. DaysToMonth(MarchMonth(DayOfYear(doe))) \in Int
    BY <2>5, SMT DEF DaysToMonth
  <2> QED BY <2>1, <2>2, <2>3, <2>4, <2>5, <2>6, SMT DEF Date, Dates
<1> QED BY <1>2, <1>3, <1>4 DEF Display, Texts

LEMMA NearAreTexts ==
  ASSUME NEW text \in Texts
  PROVE  Near(text) \subseteq Texts
BY DEF Near, Texts, Dates

LEMMA DisplayIsTrue ==
  ASSUME NEW moment, InRange(moment)
  PROVE  LET text == Display(moment)
         IN  /\ IsDayOf(text.date, moment.day)
             /\ text.hour * 3600 + text.minute * 60 + text.second = moment.second
             /\ Parse(text) = {moment}
             /\ \A other \in Near(text) : \A read \in Parse(other) : Display(read) = other
<1>1. PICK day \in 0..MaxDay, second \in 0..(DaySeconds - 1) : moment = Moment(day, second)
  BY DEF InRange
<1>2. moment.day = day /\ moment.second = second
  BY <1>1 DEF Moment
<1>3. IsDayOf(Display(moment).date, day)
  BY <1>1, GregorianDates
<1>4. second \in Int /\ 0 <= second /\ second <= DaySeconds - 1
  <2>1. DaySeconds - 1 \in Int
    BY SMT DEF DaySeconds
  <2> QED BY <2>1
<1>5. Display(moment).hour * 3600 + Display(moment).minute * 60 + Display(moment).second = second
  BY <1>2, <1>4, TimeReadsBack DEF Display, Seconds
<1>6. \A other \in Near(Display(moment)) : \A read \in Parse(other) : Display(read) = other
  BY DisplayIsText, NearAreTexts, OneSpelling
<1> QED BY <1>2, <1>3, <1>5, <1>6, InRangeReadsBack

LEMMA TimestampsHold ==
  ASSUME CallKept, WireInv
  PROVE  TimestampsAreTrue
<1>1. InRange(Now)
  BY ClockReads DEF WireInv
<1> SUFFICES ASSUME NEW map \in line
             PROVE  (IF "ts" \in DOMAIN map THEN map["ts"].value ELSE map["timestamp"].value)
                      = Display(Now)
  BY <1>1, DisplayIsTrue DEF TimestampsAreTrue
<1>2. ASSUME NEW event \in call.events, map = EventLine(event)
      PROVE  "ts" \in DOMAIN map /\ map["ts"] = Scalar(Display(Now))
  <2>1. "ts" \notin DOMAIN event
    <3>1. IsEvent(event)
      BY CallFields
    <3> QED BY <3>1 DEF IsEvent, Required
  <2> QED BY <1>2, <2>1 DEF EventLine, Stamped, With
<1>3. ASSUME NEW envelope, Says(map, envelope), envelope.timestamp = Now
      PROVE  "ts" \notin DOMAIN map /\ map["timestamp"] = Scalar(Display(Now))
  BY <1>3 DEF Says
<1>4. CASE status = None
  BY <1>2, <1>4 DEF WireInv, Scalar
<1>5. CASE status # None
  <2>1. ASSUME NEW told \in answer, line = {Printed(SuccessEnvelope(told))}
        PROVE  Says(map, SuccessEnvelope(told)) /\ SuccessEnvelope(told).timestamp = Now
    BY <1>1, <2>1, AnswerLine DEF SuccessEnvelope, WireInv, IsAnswer
  <2>2. ASSUME NEW failed \in error, line = {Printed(ErrorEnvelope(failed))}
        PROVE  Says(map, ErrorEnvelope(failed)) /\ ErrorEnvelope(failed).timestamp = Now
    <3>1. IsError(failed)
      BY DEF WireInv
    <3>2. Says(map, ErrorEnvelope(failed))
      BY <1>1, <2>2, <3>1, ErrorLine
    <3> QED BY <3>2 DEF ErrorEnvelope
  <2>3. \E envelope : Says(map, envelope) /\ envelope.timestamp = Now
    BY <1>5, <2>1, <2>2 DEF WireInv
  <2> QED BY <1>3, <2>3 DEF Scalar
<1> QED BY <1>4, <1>5

-----------------------------------------------------------------------------
(* The invariant the two properties rest on.                               *)
EnvelopeInvariant == CallKept /\ DoctorInv /\ WireInv

THEOREM EnvelopeInvariantHolds == WireSpec => []EnvelopeInvariant
<1>1. WireInit => EnvelopeInvariant
  BY DoctorStarts, WireStarts DEF WireInit, EnvelopeInvariant
<1>2. EnvelopeInvariant /\ [WireNext]_<<vars, wire>> => EnvelopeInvariant'
  BY WireSteps, CallStays, DoctorStays, WireStays DEF EnvelopeInvariant
<1> QED BY <1>1, <1>2, PTL DEF WireSpec

(* What a run says on its last line is what a reader of another process,   *)
(* of this agcli or a later one, decodes, by one decoder only, and its     *)
(* exit status is the line's (envelope.rs, stream.rs, next_action.rs). Two *)
(* nulls are lost: an error whose data is null is not decoded, and a null  *)
(* value or default of a next action's param is read as not given.         *)
THEOREM EveryLineReadsBack == WireSpec => []LinesReadBack
<1>1. EnvelopeInvariant => LinesReadBack
  BY LinesHold DEF EnvelopeInvariant
<1> QED BY <1>1, EnvelopeInvariantHolds, PTL

(* Every line's timestamp is the Gregorian date and the time of the second *)
(* the clock read, and reads back as that second (timestamp.rs, clock.rs). *)
THEOREM EveryTimestampIsTrue == WireSpec => []TimestampsAreTrue
<1>1. EnvelopeInvariant => TimestampsAreTrue
  BY TimestampsHold DEF EnvelopeInvariant
<1> QED BY <1>1, EnvelopeInvariantHolds, PTL
=============================================================================
