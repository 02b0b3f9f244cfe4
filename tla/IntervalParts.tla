------------------------------ MODULE IntervalParts ------------------------------
(***************************************************************************)
(* The arithmetic of intervals (sql/src/value/interval.rs,                 *)
(* arrow_decoder.rs): the number an Arrow array holds, what a text shows   *)
(* of months and micros, and the sums that reading a text makes of it.     *)
(* The widths of i32 and i64 are parameters, and so is the second.         *)
(***************************************************************************)
EXTENDS Integers

CONSTANTS
  Width,         \* how many values months and days have: those of an i32
  MicroWidth,    \* how many micros has: those of an i64
  MICROS_PER_SEC

MICROS_PER_MINUTE == 60 * MICROS_PER_SEC
MICROS_PER_HOUR == 60 * MICROS_PER_MINUTE

Interval(months, days, micros) == [months |-> months, days |-> days, micros |-> micros]
Fits(n, width) == -(width \div 2) <= n /\ n < width \div 2
Abs(n) == IF n < 0 THEN -n ELSE n
\* Division of the code: towards zero.
Quotient(n, d) == IF n < 0 THEN -((-n) \div d) ELSE n \div d

-----------------------------------------------------------------------------
\* Arrow

\* months_days_micros: the parts of the number, each cut to its width.
Signed(n, width) == IF n < width \div 2 THEN n ELSE n - width
\* Mutant: the days are the number's upper part as well, not cut to their width.
UnpackUncut(number) ==
  Interval(Signed((number \div (MicroWidth * Width)) % Width, Width),
           number \div MicroWidth,
           Signed(number % MicroWidth, MicroWidth))
Unpack(number) ==
  Interval(Signed((number \div (MicroWidth * Width)) % Width, Width),
           Signed((number \div MicroWidth) % Width, Width),
           Signed(number % MicroWidth, MicroWidth))

\* The number the server sends for an interval.
Pack(i) ==
  i.months * (MicroWidth * Width) + (i.days % Width) * MicroWidth + (i.micros % MicroWidth)

-----------------------------------------------------------------------------
\* Texts

\* format: years and months of one sign, and the time of day.
YearsOf(months) == Quotient(months, 12)
MonthsOf(months) == months - 12 * YearsOf(months)
ClockOf(micros) ==
  LET hour == micros \div MICROS_PER_HOUR
      ofHour == micros - hour * MICROS_PER_HOUR
      min == ofHour \div MICROS_PER_MINUTE
      ofMinute == ofHour - min * MICROS_PER_MINUTE
      sec == ofMinute \div MICROS_PER_SEC
  IN [hour |-> hour, min |-> min, sec |-> sec, micros |-> ofMinute - sec * MICROS_PER_SEC]

\* parse_number: a time of day is micros.
MicrosOf(clock) ==
  clock.hour * MICROS_PER_HOUR + clock.min * MICROS_PER_MINUTE + clock.sec * MICROS_PER_SEC
  + clock.micros

\* apply_specifier: an addend that does not fit, or a sum, changes nothing, since the caller
\* drops the error.
Sum(a, b, width) == IF Fits(b, width) /\ Fits(a + b, width) THEN a + b ELSE a

=============================================================================
