-------------------------------- MODULE Values --------------------------------
(***************************************************************************)
(* sql/src/value and sql/src/cursor_ext: how a cell becomes a value, from  *)
(* the text of a JSON page (string_decoder.rs) or from an Arrow array       *)
(* (arrow_decoder.rs), and the text a raw row gives for a value             *)
(* (result_encode.rs).                                                     *)
(*                                                                         *)
(* A text is a sequence of lexemes: brackets, quotes, signs, digits and     *)
(* letters, and single lexemes for what the decoder hands to a library: a   *)
(* float, a date, a time, a JSON document.  A value is a kind, its data (a  *)
(* sequence of lexemes) and the values inside it.                          *)
(***************************************************************************)
EXTENDS Types

Value(kind, data, items) == [kind |-> kind, data |-> data, items |-> items]
Null == Value("Null", <<>>, <<>>)
Failed == Value("failed", <<>>, <<>>)
Strict(v) == IF \E i \in DOMAIN v.items : v.items[i] = Failed THEN Failed ELSE v

Digit == {"0", "1", "2", "3", "4", "5", "6", "7", "8", "9"}
Hex == Digit \cup {"a", "b", "A", "B"}
Floats == {"1.5", "nan", "-inf"}
Json == {"{}", "[1]"}
White == {" "}

FromPos(s, i) == SubSeq(s, i, Len(s))
\* The longest prefix whose lexemes are all in set.
Prefix(s, set) ==
  LET other == {i \in DOMAIN s : s[i] \notin set}
  IN IF other = {} THEN s ELSE SubSeq(s, 1, Min(other) - 1)
\* What stands before and after the first x; all of s and nothing if there is none.
Before(s, x) == IF x \in Range(s) THEN Prefix(s, Range(s) \ {x}) ELSE s
After(s, x) == FromPos(s, Len(Before(s, x)) + 2)
SkipWhite(s) == FromPos(s, Len(Prefix(s, White)) + 1)
Strip(digits) == FromPos(digits, Len(Prefix(digits, {"0"})) + 1)

-----------------------------------------------------------------------------
\* Numbers

\* What an integer type holds; the wider ones are beyond the numbers used here.
Bounds(t) ==
  CASE t = "Int8" -> -128 .. 127 [] t = "UInt8" -> 0 .. 255
    [] t \in {"Int16", "Int32", "Int64"} -> -999 .. 999 [] OTHER -> 0 .. 999

DigitValue == [d \in Digit |-> CHOOSE n \in 0 .. 9 : ToString(n) = d]
Magnitude(digits) == FoldLeft(LAMBDA n, d : 10 * n + DigitValue[d], 0, digits)

\* str::parse and read_int_text: a sign, digits, within the type.
ParseInt(t, text) ==
  LET minus == text # <<>> /\ text[1] = "-"
      digits == IF minus THEN Tail(text) ELSE text
      n == IF minus THEN -Magnitude(digits) ELSE Magnitude(digits)
  IN IF digits # <<>> /\ Range(digits) \subseteq Digit /\ n \in Bounds(t)
     THEN Value(t, text, <<>>) ELSE Failed

\* The digits an i64 holds: nineteen of them only up to 9223372036854775807.
MaxI64 == <<"9", "2", "2", "3", "3", "7", "2", "0", "3", "6", "8", "5", "4", "7", "7", "5", "8",
            "0", "7">>
FitsI64(digits) ==
  \/ Len(digits) < 19
  \/ /\ Len(digits) = 19
     /\ \/ digits = MaxI64
        \/ \E i \in 1 .. 19 :
             /\ DigitValue[digits[i]] < DigitValue[MaxI64[i]]
             /\ \A j \in 1 .. i - 1 : digits[j] = MaxI64[j]

\* parse_decimal: the digits before and after the point, as many zeros as an exponent
\* adds, without the zeros in front; the scale is the type's, not the text's.
ParseDecimal(text, size) ==
  LET minus == text # <<>> /\ text[1] = "-"
      digits == Strip(IF minus THEN Tail(text) ELSE text)
      mantissa == Before(digits, "e")
      exp == Magnitude(After(digits, "e"))
      whole == Before(mantissa, ".")
      part == After(mantissa, ".")
      zeros == [i \in 1 .. (exp - Len(part)) |-> "0"]
      all == whole \o part \o zeros
      kept == Strip(SubSeq(all, 1, Min({Len(all), 76})))
      number == IF kept = <<>> THEN <<"0">> ELSE kept
      kind == IF size[1] > 38 THEN "Decimal256" ELSE IF size[1] > 19 THEN "Decimal128"
              ELSE "Decimal64"
  IN IF text = <<>> \/ Len(whole) + exp > 76 \/ (kind = "Decimal64" /\ ~FitsI64(kept))
     THEN Failed
     ELSE Value(kind, (IF minus /\ kept # <<>> THEN <<"-">> ELSE <<>>) \o number, <<>>)

\* display_decimal_128, display_decimal_256.
DecimalText(number, scale) ==
  LET minus == number[1] = "-"
      n == IF minus THEN Tail(number) ELSE number
      padded == [i \in 1 .. scale + 1 - Len(n) |-> "0"] \o n
      point == Len(padded) - scale
  IN (IF minus THEN <<"-">> ELSE <<>>) \o SubSeq(padded, 1, point)
     \o (IF scale = 0 THEN <<>> ELSE <<".">> \o FromPos(padded, point + 1))

-----------------------------------------------------------------------------
\* Times.  Instants are numbers; at Fold the clocks of the session's time zone go back
\* by one, so that one local time stands for two instants.

Fold == 3
Local(i) == IF i < Fold THEN i + 1 ELSE i
Instants == 0 .. 6
\* TIMESTAMP_MIN, TIMESTAMP_MAX: what jiff can hold.
Holds == 1 .. 5
Instant(i) == <<ToString(i)>>
InstantOf(data) == CHOOSE i \in Instants : data = Instant(i)
LocalText(i) == <<"local " \o ToString(Local(i))>>
ZonedText(i) == <<"zoned " \o ToString(i)>>
Dates == {<<"2024-02-29">>}

\* parse_timestamp: the first instant with this local time.
ParseTimestamp(text) ==
  LET at == {i \in Holds : text = LocalText(i)}
  IN IF at = {} THEN Failed ELSE Value("Timestamp", Instant(Min(at)), <<>>)
ParseTimestampTz(text) ==
  LET at == {i \in Holds : text = ZonedText(i)}
  IN IF at = {} THEN Failed ELSE Value("Timestamp_Tz", Instant(Min(at)), <<>>)
ParseDate(text) == IF text \in Dates THEN Value("Date", text, <<>>) ELSE Failed

ClampTs(i) == IF i < Min(Holds) THEN Min(Holds) ELSE IF i > Max(Holds) THEN Max(Holds) ELSE i

-----------------------------------------------------------------------------
\* Scalars

ParseHex(text) ==
  IF Len(text) % 2 = 0 /\ Range(text) \subseteq Hex THEN Value("Binary", text, <<>>) ELSE Failed

\* GeoValue: bytes (as hex digits) under WKB and EWKB, otherwise a string.
IsBinary(geometry) == geometry \in {"WKB", "EWKB"}
ParseGeo(kind, text, geometry) ==
  IF IsBinary(geometry) /\ ParseHex(text) = Failed THEN Failed ELSE Value(kind, text, <<>>)

\* try_from for a cell's whole text, and read_* for the text of a scalar inside a
\* nested value.
Scalar(t, text, geometry) ==
  CASE t.name = "Boolean" -> Value("Boolean", <<IF text = <<"1">> THEN "1" ELSE "0">>, <<>>)
    [] t.name \in {"Float32", "Float64"} ->
         IF Len(text) = 1 /\ text[1] \in Floats THEN Value(t.name, text, <<>>) ELSE Failed
    [] t.name \in Numbers \ {"Float32", "Float64"} -> ParseInt(t.name, text)
    [] t.name \in Decimals -> ParseDecimal(text, t.size)
    [] t.name = "Binary" -> ParseHex(text)
    [] t.name \in {"String", "Bitmap", "Variant", "Interval"} -> Value(t.name, text, <<>>)
    [] t.name \in {"Geometry", "Geography"} -> ParseGeo(t.name, text, geometry)
    [] t.name = "Timestamp" -> ParseTimestamp(text)
    [] t.name = "Timestamp_Tz" -> ParseTimestampTz(text)
    [] t.name = "Date" -> ParseDate(text)

-----------------------------------------------------------------------------
\* Nested values.  Reading takes a prefix of a text: the value and what is left.

Got(v, rest) == [value |-> v, rest |-> rest]
Stuck == Got(Failed, <<>>)

Starts(s, lexeme) == s # <<>> /\ s[1] = lexeme

\* collect_number: how many lexemes a number has, and how many of them count (zeros
\* after a point do not).
CollectNumber(s) ==
  LET sign == Len(Prefix(s, {"-", "+"}))
      whole == Len(Prefix(FromPos(s, sign + 1), Digit))
      n == sign + whole
      point == Starts(FromPos(s, n + 1), ".")
      part == IF point THEN Prefix(FromPos(s, n + 2), Digit) ELSE <<>>
      m == IF point THEN n + 1 + Len(part) ELSE n
      exp == whole > 0 /\ m < Len(s) /\ s[m + 1] \in {"e", "E"}
      signed == m + 1 < Len(s) /\ s[m + 2] \in {"-", "+"}
      k == IF signed THEN m + 2 ELSE m + 1
      all == IF exp THEN k + Len(Prefix(FromPos(s, k + 1), Digit)) ELSE m
  IN [all |-> all,
      effective |-> IF ~exp /\ point /\ Range(part) \subseteq {"0"} THEN n ELSE all]

\* read_quoted_text, after the opening quote.  A doubled quote and some escapes stand
\* for one character; of other escapes the backslash stays.
Escaped(c) ==
  CASE c = "n" -> <<"newline">> [] c \in {"'", "\\"} -> <<c>> [] OTHER -> <<"\\", c>>

RECURSIVE Unquote(_, _, _)
Unquote(s, q, out) ==
  CASE s = <<>> \/ s = <<"\\">> -> Stuck
    [] Starts(s, q) /\ Starts(Tail(s), q) -> Unquote(FromPos(s, 3), q, Append(out, q))
    [] Starts(s, q) /\ ~Starts(Tail(s), q) -> Got(Value("text", out, <<>>), Tail(s))
    [] s[1] = "\\" /\ Len(s) > 1 -> Unquote(FromPos(s, 3), q, out \o Escaped(s[2]))
    [] OTHER -> Unquote(Tail(s), q, Append(out, s[1]))

Quoted(s) ==
  IF Starts(s, "\"") THEN Unquote(Tail(s), "\"", <<>>)
  ELSE IF Starts(s, "'") THEN Unquote(Tail(s), "'", <<>>) ELSE Stuck

\* The `?` of the code: what follows a reading that has not failed.
Then(r, Next(_)) == IF r = Stuck THEN Stuck ELSE Next(r)

\* The first n lexemes, of which the first count.
Take(s, n, count) == IF n = 0 THEN Stuck ELSE Got(Value("text", SubSeq(s, 1, count), <<>>), FromPos(s, n + 1))

\* The text of a scalar of read_field.
ScalarText(t, s) ==
  LET number == CollectNumber(s)
      hex == Len(Prefix(s, Hex))
      OneOf(set) == Take(s, IF s # <<>> /\ s[1] \in set THEN 1 ELSE 0, 1)
  IN CASE t.name = "Boolean" -> OneOf({"0", "1"})
       [] t.name \in {"Float32", "Float64"} -> OneOf(Floats)
       [] t.name \in Decimals -> Take(s, number.all, number.all)
       [] t.name \in Numbers \ {"Float32", "Float64"} -> Take(s, number.all, number.effective)
       [] t.name = "Binary" -> Got(Value("text", SubSeq(s, 1, hex), <<>>), FromPos(s, hex + 1))
       [] t.name = "Variant" /\ ~Starts(s, "'") -> OneOf(Json)
       [] OTHER -> Quoted(s)

\* The scalars of read_field.
ReadScalar(t, s, geometry) ==
  IF t.name \in {"Geometry", "Geography"} /\ s # <<>> /\ s[1] \in Json
  THEN Got(Value(t.name, <<s[1]>>, <<>>), Tail(s))
  ELSE Then(ScalarText(t, s),
            LAMBDA r : LET v == Scalar(t, r.value.data, geometry)
                       IN IF v = Failed THEN Stuck ELSE Got(v, r.rest))

RECURSIVE Read(_, _, _), ReadUntil(_, _, _, _, _), ReadEach(_, _, _)

\* An item and those after it.
Nothing(rest) == Got(Value("items", <<>>, <<>>), rest)
Prepend(item, more) ==
  Then(more, LAMBDA r : Got([r.value EXCEPT !.items = <<item.value>> \o @], r.rest))

\* read_array, read_map: items up to the closing bracket, a comma before all but the
\* first.
ReadUntil(t, close, text, first, geometry) ==
  LET s == SkipWhite(text)
  IN CASE Starts(s, close) -> Nothing(Tail(s))
       [] s = <<>> \/ (~first /\ ~Starts(s, ",")) -> Stuck
       [] OTHER ->
            Then(Read(t, SkipWhite(IF first THEN s ELSE Tail(s)), geometry),
                 LAMBDA item : Prepend(item, ReadUntil(t, close, item.rest, FALSE, geometry)))

\* read_tuple, read_vector: one item of each type.
ReadEach(types, text, geometry) ==
  LET Next(item) ==
        LET rest == SkipWhite(item.rest)
        IN CASE Len(types) = 1 -> Prepend(item, Nothing(item.rest))
             [] Starts(rest, ",") -> Prepend(item, ReadEach(Tail(types), Tail(rest), geometry))
             [] OTHER -> Stuck
  IN IF types = <<>> THEN Nothing(text)
     ELSE Then(Read(types[1], SkipWhite(text), geometry), Next)

\* One entry of a map.
ReadEntry(of, s, geometry) ==
  Then(Read(of[1], s, geometry), LAMBDA key :
    LET colon == SkipWhite(key.rest)
    IN IF ~Starts(colon, ":") THEN Stuck
       ELSE Then(Read(of[2], SkipWhite(Tail(colon)), geometry), LAMBDA val :
              Got(Value("Tuple", <<>>, <<key.value, val.value>>), val.rest)))

Brackets(name) ==
  CASE name \in {"Array", "EmptyArray", "Vector"} -> <<"[", "]">>
    [] name \in {"Map", "EmptyMap"} -> <<"{", "}">> [] OTHER -> <<"(", ")">>

\* What is between the brackets of a nested value, and the second one.
ReadInside(t, s, geometry) ==
  LET close == Brackets(t.name)[2]
      types == IF t.name = "Vector" THEN [i \in 1 .. t.size[1] |-> Plain("Float32")] ELSE t.of
      item == IF t.name = "Map" THEN [t.of[1] EXCEPT !.name = "entry"] ELSE t.of[1]
  IN IF t.name \in {"Array", "Map"} THEN ReadUntil(item, close, s, TRUE, geometry)
     ELSE Then(IF t.name \in {"Tuple", "Vector"} THEN ReadEach(types, s, geometry) ELSE Nothing(s),
               LAMBDA r : IF Starts(r.rest, close) THEN Got(r.value, Tail(r.rest)) ELSE Stuck)

\* read_field.  A map's entries are read as a type of their own; read_empty_map makes
\* an EmptyArray.
Read(t, s, geometry) ==
  CASE t.name \in {"Null", "Nullable"} /\ Starts(s, "NULL") -> Got(Null, Tail(s))
    [] t.name = "Null" /\ ~Starts(s, "NULL") -> Stuck
    [] t.name = "Nullable" /\ ~Starts(s, "NULL") -> Read(t.of[1], s, geometry)
    [] t.name = "entry" -> ReadEntry(t.of, s, geometry)
    [] t.name \in {"Array", "EmptyArray", "Vector", "Map", "EmptyMap", "Tuple"} ->
         IF ~Starts(s, Brackets(t.name)[1]) THEN Stuck
         ELSE Then(ReadInside(t, Tail(s), geometry),
                   LAMBDA r : Got([r.value EXCEPT !.kind = IF t.name = "EmptyMap" THEN "EmptyArray" ELSE t.name],
                                  r.rest))
    [] OTHER -> ReadScalar(t, s, geometry)

\* try_from of a cell with a text; what follows a nested value is not looked at.
RECURSIVE TextCell(_, _, _)
TextCell(t, text, geometry) ==
  CASE t.name \in {"Null", "EmptyArray", "EmptyMap"} -> Value(t.name, <<>>, <<>>)
    [] t.name \in {"Array", "Map", "Tuple", "Vector"} -> Read(t, text, geometry).value
    [] t.name = "Nullable" ->
         IF t.of[1].name # "String" /\ text = <<"NULL">> THEN Null
         ELSE TextCell(t.of[1], text, geometry)
    [] OTHER -> Scalar(t, text, geometry)

\* try_from of a cell of a JSON page; <<>> is JSON's null.
Cell(t, cell, geometry) ==
  IF cell # <<>> THEN TextCell(t, cell[1], geometry)
  ELSE IF t.name \in {"Null", "Nullable"} THEN Null ELSE Failed

-----------------------------------------------------------------------------
\* Texts of values

\* write_quoted_string_min_escape, under double quotes.
Quote(text) ==
  <<"\"">> \o FoldLeft(LAMBDA s, c : s \o (IF c = "\"" THEN <<"\\", c>> ELSE <<c>>), <<>>, text)
  \o <<"\"">>

\* write_with_option: what a raw row made from a row gives for a value (the type only
\* says a decimal's scale).  Strings and times are quoted inside nested values, numbers,
\* bytes and JSON are not.
Joined(texts, comma, open, close) ==
  LET inner == [i \in DOMAIN texts |-> IF i = 1 THEN texts[i] ELSE comma \o texts[i]]
  IN <<open>> \o FlattenSeq(inner) \o <<close>>

RECURSIVE TextWith(_, _, _, _)
TextWith(comma, t, v, raw) ==
  LET OfType(i) == IF t.name = "Tuple" THEN t.of[i] ELSE t.of[1]
      items == [i \in DOMAIN v.items |-> TextWith(comma, OfType(i), v.items[i], FALSE)]
      entries == [i \in DOMAIN v.items |->
                    TextWith(comma, t.of[1].of[1], v.items[i].items[1], FALSE) \o <<":">>
                    \o TextWith(comma, t.of[1].of[2], v.items[i].items[2], FALSE)]
      floats == [i \in DOMAIN v.items |-> v.items[i].data]
      Text == CASE t.name = "Timestamp" -> LocalText(InstantOf(v.data))
                [] t.name = "Timestamp_Tz" -> ZonedText(InstantOf(v.data))
                [] OTHER -> v.data
  IN CASE v.kind = "Null" -> <<"NULL">>
       [] v.kind = "EmptyArray" -> <<"[", "]">>
       [] v.kind = "EmptyMap" -> <<"{", "}">>
       [] t.name = "Nullable" /\ v.kind # "Null" -> TextWith(comma, t.of[1], v, raw)
       [] v.kind = "Array" -> Joined(items, comma, "[", "]")
       [] v.kind = "Tuple" -> Joined(items, comma, "(", ")")
       [] v.kind = "Map" -> Joined(entries, comma, "{", "}")
       [] v.kind = "Vector" -> Joined(floats, comma, "[", "]")
       [] t.name \in Decimals -> DecimalText(v.data, t.size[2])
       [] t.name \in (Numbers \cup {"Boolean", "Binary", "Variant"}) -> v.data
       [] OTHER -> IF raw \/ (t.name \in {"Geometry", "Geography"} /\ v.data = <<"{}">>)
                   THEN Text ELSE Quote(Text)

RawText(t, v) == TextWith(<<",">>, t, v, TRUE)

\* A cell of the server's JSON page: the same text, maybe with white space after the
\* commas, and JSON's null for NULL.
ServerCell(t, v, spaced) ==
  IF v = Null THEN <<>> ELSE <<TextWith(IF spaced THEN <<",", " ">> ELSE <<",">>, t, v, TRUE)>>

-----------------------------------------------------------------------------
\* Arrow arrays.  A cell: whether it is null, its data (a Variant's as text, or as
\* jsonb before version two), its items.

RECURSIVE ServerArrow(_, _, _)
ServerArrow(t, v, version) ==
  LET base == IF t.name = "Nullable" THEN t.of[1] ELSE t
      OfType(i) == IF base.name = "Tuple" THEN base.of[i] ELSE base.of[1]
  IN [null |-> v.kind = "Null",
      data |-> IF v.kind = "Variant" /\ version < 2 THEN <<"jsonb">> \o v.data ELSE v.data,
      items |-> IF base.name = "Vector" THEN v.items
                ELSE [i \in DOMAIN v.items |-> ServerArrow(OfType(i), v.items[i], version)]]

\* Value::try_from(field, array, seq), for an array of the field's type.  An extension's
\* name decides first; the two empty ones do not look at the null bit.
Clamped(cell) == Instant(ClampTs(InstantOf(cell.data)))
ExtensionCell(f, cell, version) ==
  CASE f.ext \in {"EmptyArray", "EmptyMap"} -> Value(f.ext, <<>>, <<>>)
    [] f.nullable /\ cell.null /\ f.ext \notin {"EmptyArray", "EmptyMap"} -> Null
    [] f.ext = "Variant" ->
         Value(f.ext, IF version > 1 THEN cell.data ELSE Tail(cell.data), <<>>)
    [] f.ext \in {"Interval", "Bitmap", "Geometry", "Geography"} -> Value(f.ext, cell.data, <<>>)
    [] f.ext = "TimestampTz" -> Value("Timestamp_Tz", Clamped(cell), <<>>)
    [] f.ext = "Vector" -> Value("Vector", <<>>, SubSeq(cell.items, 1, f.size[1]))

\* An array of fixed-size bytes is taken for one of large bytes, which it is not, and of
\* timestamps only the microseconds without a zone are read.
PlainCell(f, cell) ==
  CASE f.arrow = "Null" -> Null
    [] f.arrow \in {"FixedSizeBinary", "OtherTimestamp"} -> Failed
    [] f.arrow = "Timestamp" -> Value("Timestamp", Clamped(cell), <<>>)
    [] OTHER -> Value(ArrowType([f EXCEPT !.nullable = FALSE]).name, cell.data, <<>>)

RECURSIVE ArrowCell(_, _, _)
ArrowCell(f, cell, version) ==
  LET items == [i \in DOMAIN cell.items |->
                  ArrowCell(IF f.arrow = "Struct" THEN f.of[i] ELSE f.of[1], cell.items[i], version)]
  IN CASE f.ext # "" -> ExtensionCell(f, cell, version)
       [] f.ext = "" /\ f.nullable /\ cell.null -> Null
       [] f.arrow \in {"List", "LargeList"} -> Strict(Value("Array", <<>>, items))
       [] f.arrow = "Struct" -> Strict(Value("Tuple", <<>>, items))
       [] f.arrow = "Map" -> Strict(Value("Map", <<>>, items))
       [] OTHER -> PlainCell(f, cell)

-----------------------------------------------------------------------------
\* Properties

\* A value without the width of its decimals: a page's decimals have the width the
\* decoder chooses, an array's the server's.
RECURSIVE Widthless(_)
Widthless(v) ==
  [kind |-> IF v.kind \in Decimals THEN "Decimal128" ELSE v.kind, data |-> v.data,
   items |-> [i \in DOMAIN v.items |-> Widthless(v.items[i])]]

\* The values some text does not tell apart: the second instant of a local time and
\* those beyond what jiff holds, and inside a nested value a string with a quote or a
\* backslash, an empty map and no bytes.
RECURSIVE Tells(_, _)
Tells(v, nested) ==
  /\ v.kind = "Timestamp" => InstantOf(v.data) \in Holds \ {Fold}
  /\ v.kind = "Timestamp_Tz" => InstantOf(v.data) \in Holds
  /\ nested => v.kind # "EmptyMap" /\ (v.kind = "Binary" => v.data # <<>>)
  /\ nested /\ v.kind = "String" => Range(v.data) \cap {"\"", "\\"} = {}
  /\ \A i \in DOMAIN v.items : Tells(v.items[i], TRUE)

\* A program sees the same value whether the server sends JSON pages or Arrow arrays,
\* and the text of a raw row reads back as the value of its row; NULL does not in a
\* nullable string.
CellReads(t, v, geometry, version, spaced) ==
  Tells(v, FALSE) =>
    /\ Widthless(Cell(t, ServerCell(t, v, spaced), geometry)) = v
    /\ Widthless(ArrowCell(ServerField(t), ServerArrow(t, v, version), version)) = v
    /\ \/ v = Null /\ t = Nullable(Plain("String"))
       \/ Widthless(TextCell(t, RawText(t, v), geometry)) = v

=============================================================================
