------------------------------ MODULE ClockChip ------------------------------
(***************************************************************************)
(* RTClib.cpp: the calendar arithmetic of DateTime, and the registers of   *)
(* the MCP7940 clock chip, which hold decimal digits.  The step of the     *)
(* model is a day; hours, minutes and seconds go through the same          *)
(* conversions as the year.                                                *)
(*                                                                         *)
(* The chip shows with a bit of the month register that the year is a leap *)
(* year.  now() takes the bit for a digit: January of a leap year is read  *)
(* as month 21, which mktime() makes September of the next year.           *)
(***************************************************************************)
EXTENDS Integers, Sequences, FiniteSets

CONSTANT LastYear \* bound: the last year; RTClib promises 2099

ASSUME YearAssumption == LastYear \in 2000 .. 2099

VARIABLES
  day,    \* the true day, counted from 1 January 2000
  civil,  \* its date in the Gregorian calendar
  chip,   \* the date the chip has counted to
  running \* the chip's oscillator was started

chipVars == <<day, civil, chip, running>>

daysInMonth == <<31, 28, 31, 30, 31, 30, 31, 31, 30, 31, 30, 31>>

-----------------------------------------------------------------------------
(* DateTime                                                                 *)

\* Days of the months before m.
DaysBefore[m \in 1 .. 12] == IF m = 1 THEN 0 ELSE DaysBefore[m - 1] + daysInMonth[m - 1]

\* A fault the runs must notice: the leap day counts from February on.
date2daysEarly(y, m, d) ==
  LET yOff == y - 2000
      own  == IF m >= 2 /\ yOff % 4 = 0 THEN 1 ELSE 0
  IN  (d + DaysBefore[m] + own + 365 * yOff + (yOff + 3) \div 4 - 1) % 2^16

date2days(y, m, d) ==
  LET yOff == y - 2000
      own  == IF m > 2 /\ yOff % 4 = 0 THEN 1 ELSE 0
  IN  (d + DaysBefore[m] + own + 365 * yOff + (yOff + 3) \div 4 - 1) % 2^16

LeapDay(yOff) == IF yOff % 4 = 0 THEN 1 ELSE 0

\* The lengths of years, and of months, are taken off the days in turn until
\* what is left is less than the next one.
YearStart[yOff \in 0 .. 100] ==
  IF yOff = 0 THEN 0 ELSE YearStart[yOff - 1] + 365 + LeapDay(yOff - 1)

MonthStart(yOff, m) == DaysBefore[m] + (IF m > 2 THEN LeapDay(yOff) ELSE 0)

\* DateTime(t) for the first second of the day n.
DateTime(n) ==
  LET yOff == CHOOSE y \in 0 .. 99 : YearStart[y] <= n /\ n < YearStart[y + 1]
      left == n - YearStart[yOff]
      m    == CHOOSE k \in 1 .. 12 :
                /\ MonthStart(yOff, k) <= left
                /\ k < 12 => left < MonthStart(yOff, k + 1)
  IN  [year |-> 2000 + yOff, month |-> m, day |-> left - MonthStart(yOff, m) + 1]

-----------------------------------------------------------------------------
(* The chip                                                                 *)

\* The calendar, and what the chip's registers do with it at midnight.
Leap(y) == y % 4 = 0 /\ (y % 100 # 0 \/ y % 400 = 0)

MonthLength(y, m) == IF m = 2 /\ Leap(y) THEN 29 ELSE daysInMonth[m]

NextDay(c) ==
  IF c.day < MonthLength(c.year, c.month) THEN [c EXCEPT !.day = @ + 1]
  ELSE IF c.month < 12 THEN [c EXCEPT !.day = 1, !.month = @ + 1]
  ELSE [year |-> c.year + 1, month |-> 1, day |-> 1]

bin2bcd(val) == (val + 6 * (val \div 10)) % 256

\* A fault the runs must notice: digits are taken for a binary number.
bcd2binPlain(val) == val

bcd2bin(val) == (val - 6 * (val \div 16)) % 256

\* The chip's registers: the month register shows the leap year in bit 5.
Registers(c) ==
  [day   |-> bin2bcd(c.day),
   month |-> bin2bcd(c.month) + (IF Leap(c.year) THEN 32 ELSE 0),
   year  |-> bin2bcd(c.year - 2000)]

\* The date in the chip when r has been written to its registers.
Digits(val) == 10 * (val \div 16) + (val % 16)
Set(r) == [year |-> 2000 + Digits(r.year), month |-> Digits(r.month), day |-> Digits(r.day)]

\* What a chip without power stands at.
FirstDay == [year |-> 2000, month |-> 1, day |-> 1]

LeapYearsBefore(y) == Cardinality({z \in 2000 .. y - 1 : Leap(z)})

\* The logger is first switched on on a New Year's Day; the chip is empty.
ChipInit ==
  /\ \E y \in 2000 .. LastYear :
       /\ civil = [FirstDay EXCEPT !.year = y]
       /\ day = 365 * (y - 2000) + LeapYearsBefore(y)
  /\ chip = FirstDay
  /\ running = FALSE

Midnight ==
  /\ civil.year < LastYear \/ civil.month < 12 \/ civil.day < 31
  /\ day' = day + 1
  /\ civil' = NextDay(civil)
  /\ chip' = IF running THEN NextDay(chip) ELSE chip
  /\ UNCHANGED running

\* A fault the runs must notice: the digits are written, the start bit is not.
adjustStopped ==
  /\ chip' = Set([day |-> bin2bcd(civil.day), month |-> bin2bcd(civil.month),
                  year |-> bin2bcd(civil.year - 2000)])
  /\ running' = FALSE
  /\ UNCHANGED <<day, civil>>

\* adjust() with the date of the NTP time; it starts the oscillator.
adjust ==
  /\ chip' = Set([day |-> bin2bcd(civil.day), month |-> bin2bcd(civil.month),
                  year |-> bin2bcd(civil.year - 2000)])
  /\ running' = TRUE
  /\ UNCHANGED <<day, civil>>

\* The battery is empty too.
BatteryLost ==
  /\ chip' = FirstDay
  /\ running' = FALSE
  /\ UNCHANGED <<day, civil>>

\* now(): nothing but the stop bit of the seconds is masked.
now ==
  LET r == Registers(chip)
  IN  [year |-> bcd2bin(r.year) + 2000, month |-> bcd2bin(r.month), day |-> bcd2bin(r.day)]

\* loop() puts the fields into timeinfo, and mktime() carries months over 12.
\* Its count of days is the calendar's, which CalendarAgrees says date2days is.
mktime(c) ==
  LET y == c.year + (c.month - 1) \div 12
      m == 1 + ((c.month - 1) % 12)
  IN  date2days(y, m, c.day)

ChipNext == Midnight \/ adjust \/ BatteryLost

ChipSpec == ChipInit /\ [][ChipNext]_chipVars

-----------------------------------------------------------------------------

\* The two directions of RTClib's arithmetic agree with the calendar on every
\* day of the century, through all leap years.
CalendarAgrees ==
  /\ date2days(civil.year, civil.month, civil.day) = day
  /\ DateTime(day) = civil

\* The day a reading is stamped with is the true one as long as the clock has
\* been set and the year is no leap year.  In a leap year the stamp is twenty
\* months ahead.  Nothing else may go wrong between the registers and mktime().
StampRight ==
  running => LET ahead == mktime(now) - day
             IN  IF Leap(civil.year) THEN ahead \in 607 .. 612 ELSE ahead = 0

\* setup() starts without a time server if the year is 2017 or later.  A chip
\* that has lost its battery never passes this test, however long ago it was.
TrustsSetClock == now.year >= 2017 => running

=============================================================================
