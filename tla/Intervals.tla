------------------------------- MODULE Intervals -------------------------------
(***************************************************************************)
(* sql/src/value/interval.rs: the text of an interval, made from the       *)
(* number an Arrow array holds (arrow_decoder.rs) and read again by the     *)
(* Python binding (bindings/python/src/types.rs).                          *)
(*                                                                         *)
(* A text is a sequence of lexemes: digits, "-", ":", ".", " " and words.   *)
(* The arithmetic is that of IntervalParts, with as many digits of a       *)
(* fraction as a parameter says.                                           *)
(***************************************************************************)
EXTENDS Integers, Sequences, SequencesExt

CONSTANTS
  Width, MicroWidth, \* see IntervalParts
  FractionDigits     \* the digits of a second's fraction: 6

INSTANCE IntervalParts WITH MICROS_PER_SEC <- 10 ^ FractionDigits

-----------------------------------------------------------------------------
\* Texts

RECURSIVE Digits(_)
Digits(n) == IF n < 10 THEN <<ToString(n)>> ELSE Append(Digits(n \div 10), ToString(n % 10))
Number(n) == IF n < 0 THEN <<"-">> \o Digits(-n) ELSE Digits(n)
Padded(n, width) ==
  LET d == Digits(n) IN [k \in 1 .. width - Len(d) |-> "0"] \o d

\* format_interval_value, after what is there already; a word is in the plural but
\* after 1 and -1.
Part(before, n, word, words) ==
  IF n = 0 THEN before
  ELSE before \o (IF before = <<>> THEN <<>> ELSE <<" ">>) \o Number(n)
       \o <<" ", IF Abs(n) = 1 THEN word ELSE words>>

\* format_micros: the zeros at the end go.
Fraction(micros) ==
  LET d == Padded(micros, FractionDigits)
      last == CHOOSE k \in DOMAIN d : d[k] # "0" /\ \A j \in k + 1 .. Len(d) : d[j] = "0"
  IN IF micros = 0 THEN <<>> ELSE <<".">> \o SubSeq(d, 1, last)

Clock(micros) ==
  LET clock == ClockOf(Abs(micros))
  IN (IF micros < 0 THEN <<"-">> ELSE <<>>)
     \o Digits(clock.hour) \o <<":">> \o Padded(clock.min, 2) \o <<":">> \o Padded(clock.sec, 2)
     \o Fraction(clock.micros)

\* format.
Format(i) ==
  LET dated == Part(Part(Part(<<>>, YearsOf(i.months), "year", "years"),
                         MonthsOf(i.months), "month", "months"),
                    i.days, "day", "days")
  IN IF i.micros # 0 THEN dated \o (IF dated = <<>> THEN <<>> ELSE <<" ">>) \o Clock(i.micros)
     ELSE IF dated = <<>> THEN <<"0", "0", ":", "0", "0", ":", "0", "0">> ELSE dated

-----------------------------------------------------------------------------
\* Reading

Digit == {"0", "1", "2", "3", "4", "5", "6", "7", "8", "9"}
DigitValue == [d \in Digit |-> CHOOSE n \in 0 .. 9 : ToString(n) = d]
Blank == {" ", "tab", "nl"}

FromPos(s, k) == SubSeq(s, k, Len(s))
At(s, lexeme) == s # <<>> /\ s[1] = lexeme
Run(s, set) ==
  LET other == {k \in DOMAIN s : s[k] \notin set}
  IN IF other = {} THEN Len(s) ELSE Min(other) - 1
Decimal(digits) == FoldLeft(LAMBDA n, d : 10 * n + DigitValue[d], 0, digits)

\* A number, its fraction in micros (digits beyond the last count nothing), the rest.
Plain(s) ==
  LET n == Run(s, Digit)
      point == At(FromPos(s, n + 1), ".")
      m == IF point THEN n + 1 + Run(FromPos(s, n + 2), Digit) ELSE n
      kept == SubSeq(s, n + 2, Min({m, n + 1 + FractionDigits}))
  IN [number |-> Decimal(SubSeq(s, 1, n)),
      fraction |-> Decimal(kept) * 10 ^ (FractionDigits - Len(kept)),
      rest |-> FromPos(s, m + 1)]

\* parse_time_part: digits.
TimePart(s) ==
  LET n == Run(s, Digit)
  IN [number |-> Decimal(SubSeq(s, 1, n)), rest |-> FromPos(s, n + 1)]

\* parse_number: hours with a colon after them begin a time of day, all of it micros;
\* the seconds may be missing.
ParseNumber(s) ==
  LET p == Plain(s)
      minutes == TimePart(Tail(p.rest))
      seconds == Plain(IF At(minutes.rest, ":") THEN Tail(minutes.rest) ELSE minutes.rest)
  IN IF ~At(p.rest, ":") THEN p
     ELSE [number |-> MicrosOf([hour |-> p.number, min |-> minutes.number, sec |-> seconds.number,
                                 micros |-> seconds.fraction]),
           fraction |-> 0, rest |-> seconds.rest]

MonthsIn == [millennium |-> 12000, millennia |-> 12000, century |-> 1200, centuries |-> 1200,
             decade |-> 120, decades |-> 120, year |-> 12, years |-> 12, y |-> 12,
             quarter |-> 3, quarters |-> 3, month |-> 1, months |-> 1, mon |-> 1]
DaysIn == [day |-> 1, days |-> 1, d |-> 1, week |-> 7, weeks |-> 7, w |-> 7]
MicrosIn ==
  LET second == 10 ^ FractionDigits
  IN [second |-> second, seconds |-> second, s |-> second,
      minute |-> MICROS_PER_MINUTE, minutes |-> MICROS_PER_MINUTE, m |-> MICROS_PER_MINUTE,
      hour |-> MICROS_PER_HOUR, hours |-> MICROS_PER_HOUR, h |-> MICROS_PER_HOUR,
      millisecond |-> second \div 1000, milliseconds |-> second \div 1000,
      ms |-> second \div 1000, microsecond |-> 1, microseconds |-> 1, us |-> 1]

\* apply_specifier.  An unknown word changes nothing: the caller drops the error.  A
\* fraction counts only without a word, and after a number that does not overflow.
ApplySpecifier(i, number, fraction, word) ==
  CASE word = "" /\ ~Fits(i.micros + number, MicroWidth) -> i
    [] word = "" -> [i EXCEPT !.micros = Sum(@ + number, fraction, MicroWidth)]
    [] word \in DOMAIN MonthsIn -> [i EXCEPT !.months = Sum(@, number * MonthsIn[word], Width)]
    [] word \in DOMAIN DaysIn -> [i EXCEPT !.days = Sum(@, number * DaysIn[word], Width)]
    [] word \in DOMAIN MicrosIn -> [i EXCEPT !.micros = Sum(@, number * MicrosIn[word], MicroWidth)]
    [] OTHER -> i

Words == DOMAIN MonthsIn \cup DOMAIN DaysIn \cup DOMAIN MicrosIn \cup {"ago"}
Invalid == Interval("invalid", "invalid", "invalid")

\* The number p counts for the word after it, if there is one.
Applied(i, sign, p) ==
  LET after == FromPos(p.rest, Run(p.rest, Blank) + 1)
      word == IF after # <<>> /\ after[1] \in Words THEN after[1] ELSE ""
  IN [interval |-> ApplySpecifier(i, sign * p.number, sign * p.fraction, word),
      rest |-> IF word = "" THEN after ELSE Tail(after)]
TakeNumber(s, i) ==
  IF At(s, "-") THEN Applied(i, -1, ParseNumber(Tail(s))) ELSE Applied(i, 1, ParseNumber(s))

StartsNumber(s) ==
  s[1] \in Digit \/ (At(s, "-") /\ Tail(s) # <<>> /\ s[2] \in Digit \cup {".", ":"})

\* from_cstring.  A sign belongs to the number after it, `ago` to all of them.
RECURSIVE Parse(_, _, _)
Parse(s, i, found) ==
  CASE s = <<>> -> IF found THEN i ELSE Invalid
    [] s # <<>> /\ s[1] \in Blank -> Parse(Tail(s), i, found)
    [] s # <<>> /\ StartsNumber(s) ->
         LET next == TakeNumber(s, i) IN Parse(next.rest, next.interval, TRUE)
    [] At(s, "ago") /\ Run(Tail(s), Blank) = Len(s) - 1 -> Interval(-i.months, -i.days, -i.micros)
    [] OTHER -> Invalid

FromString(s) == Parse(IF At(s, "@") THEN Tail(s) ELSE s, Interval(0, 0, 0), FALSE)

-----------------------------------------------------------------------------
\* Properties

\* An interval of an Arrow result is the same interval after it has been a text: for
\* any signs of its parts, a fraction with zeros at either end, and the ends of i32
\* and i64 (the least i64 alone cannot be written, it has no positive).
IntervalReads(i) ==
  Fits(-i.micros, MicroWidth) => FromString(Format(Unpack(Pack(i)))) = i

=============================================================================
