--------------------------------- MODULE Types ---------------------------------
(***************************************************************************)
(* core/src/schema.rs: the type of a column, as the driver reads it from   *)
(* the text of a JSON answer or from the field of an Arrow schema.         *)
(*                                                                         *)
(* A text is a sequence of lexemes: names, numbers, "(", ")", "," and " ". *)
(***************************************************************************)
EXTENDS Integers, Sequences, SequencesExt

\* DataType: a name, the sizes of a Decimal or a Vector, and the types inside.
Type(name, size, of) == [name |-> name, size |-> size, of |-> of]
Plain(name) == Type(name, <<>>, <<>>)
Nullable(t) == Type("Nullable", <<>>, <<t>>)

\* No type: an error, or a panic (a Decimal or a Vector without arguments).
NoType == Plain("no type")
Wrap(name, of) == IF \E i \in DOMAIN of : of[i] = NoType THEN NoType ELSE Type(name, <<>>, of)

Numbers == {"Int8", "Int16", "Int32", "Int64", "UInt8", "UInt16", "UInt32", "UInt64",
            "Float32", "Float64"}
Simple == Numbers \cup
  {"Boolean", "Binary", "String", "Timestamp", "Timestamp_Tz", "Date", "Variant",
   "Bitmap", "Geometry", "Geography", "Interval"}
Decimals == {"Decimal64", "Decimal128", "Decimal256"}

-----------------------------------------------------------------------------
\* Texts

Commas(texts) ==
  FoldLeft(LAMBDA s, x : IF s = <<>> THEN x ELSE s \o <<",", " ">> \o x, <<>>, texts)

Apply(name, texts) == <<name, "(">> \o Commas(texts) \o <<")">>

\* fmt: the name a program is shown.  The three widths of a Decimal show alike.
RECURSIVE Display(_)
Display(t) ==
  LET inner == [i \in DOMAIN t.of |-> Display(t.of[i])]
      sizes == [i \in DOMAIN t.size |-> <<ToString(t.size[i])>>]
  IN CASE t.name \in Decimals -> Apply("Decimal", sizes)
       [] t.name = "Vector" -> Apply(t.name, sizes)
       [] t.name = "Map" -> Apply(t.name, [i \in 1 .. 2 |-> Display(t.of[1].of[i])])
       [] t.name \in {"Nullable", "Array", "Tuple"} -> Apply(t.name, inner)
       [] OTHER -> <<t.name>>

\* What the server calls a type: a nullable one is "T NULL" or, on older servers,
\* "Nullable(T)".
RECURSIVE ServerType(_, _)
ServerType(t, suffix) ==
  LET inner == [i \in DOMAIN t.of |-> ServerType(t.of[i], suffix)]
  IN CASE t.name = "Nullable" /\ suffix -> inner[1] \o <<" ", "NULL">>
       [] t.name = "EmptyArray" -> Apply("Array", <<<<"Nothing">>>>)
       [] t.name = "EmptyMap" -> Apply("Map", <<<<"Nothing">>>>)
       [] t.name = "Null" -> <<"NULL">>
       [] t.name = "Map" -> Apply(t.name, [i \in 1 .. 2 |-> ServerType(t.of[1].of[i], suffix)])
       [] t.name \in {"Nullable", "Array", "Tuple"} -> Apply(t.name, inner)
       [] OTHER -> Display(t)

\* Only the commas at depth one separate arguments.
\* Mutant: every comma does.
SeparatesAnywhere(c, depth) == c = ","
Separates(c, depth) == c = "," /\ depth = 1

\* parse_type_desc: a name, its arguments, and a NULL after them.
RECURSIVE ParseTypeDesc(_)
ParseTypeDesc(s) ==
  LET Piece(d, i) == SubSeq(s, d.start, i - 1)
      Past(d, i) == [d EXCEPT !.start = i + 1]
      Named(d, i) == [Past(d, i) EXCEPT !.name = Piece(d, i)]
      Arg(d, i) == [Past(d, i) EXCEPT !.args = Append(@, ParseTypeDesc(Piece(d, i)))]
      Step(d, i) ==
        CASE s[i] = "(" -> [IF d.depth = 0 THEN Named(d, i) ELSE d EXCEPT !.depth = @ + 1]
          [] s[i] = ")" /\ d.depth = 1 ->
               [IF Piece(d, i) = <<>> THEN Past(d, i) ELSE Arg(d, i) EXCEPT !.depth = 0]
          [] s[i] = ")" /\ d.depth # 1 -> [d EXCEPT !.depth = @ - 1]
          [] Separates(s[i], d.depth) -> Arg(d, i)
          [] s[i] = " " /\ d.depth = 0 -> IF Piece(d, i) = <<>> THEN Past(d, i) ELSE Named(d, i)
          [] OTHER -> d
      d == FoldLeftDomain(Step, [name |-> <<>>, args |-> <<>>, depth |-> 0, start |-> 1], s)
      rest == SubSeq(s, d.start, Len(s))
      bare == d.name = <<>>
  IN [name |-> IF bare THEN rest ELSE d.name,
      nullable |-> ~bare /\ rest = <<"NULL">>,
      args |-> d.args,
      valid |-> /\ d.depth = 0
                /\ bare \/ rest \in {<<>>, <<"NULL">>}
                /\ \A i \in DOMAIN d.args : d.args[i].valid]

\* parse::<u8>() of a Decimal's and a Vector's argument.
SizeNumber ==
  [lexeme \in {ToString(n) : n \in 0 .. 76} |-> CHOOSE n \in 0 .. 76 : ToString(n) = lexeme]
Sized(name, args) ==
  IF \E i \in DOMAIN args : Len(args[i].name) # 1 \/ args[i].name[1] \notin DOMAIN SizeNumber
  THEN NoType
  ELSE Type(name, [i \in DOMAIN args |-> SizeNumber[args[i].name[1]]], <<>>)

DecimalOf(args) ==
  IF Len(args) < 2 THEN NoType
  ELSE LET d == Sized("Decimal128", SubSeq(args, 1, 2))
       IN IF d # NoType /\ d.size[1] > 38 THEN [d EXCEPT !.name = "Decimal256"] ELSE d

\* TryFrom<&TypeDesc>.
RECURSIVE DataType(_)
DataType(desc) ==
  LET name == IF Len(desc.name) = 1 THEN desc.name[1] ELSE ""
      of == [i \in DOMAIN desc.args |-> DataType(desc.args[i])]
      nothing == Len(of) = 1 /\ desc.args[1].name = <<"Nothing">>
  IN CASE desc.nullable -> Wrap("Nullable", <<DataType([desc EXCEPT !.nullable = FALSE])>>)
       [] name \in {"NULL", "Null"} -> Plain("Null")
       [] name \in Simple -> Plain(name)
       [] name = "Decimal" -> DecimalOf(desc.args)
       [] name = "Vector" -> IF of = <<>> THEN NoType ELSE Sized("Vector", SubSeq(desc.args, 1, 1))
       [] name = "Array" /\ nothing -> Plain("EmptyArray")
       [] name = "Map" /\ nothing -> Plain("EmptyMap")
       [] name \in {"Nullable", "Array"} -> IF Len(of) = 1 THEN Wrap(name, of) ELSE NoType
       [] name = "Map" -> IF Len(of) = 2 THEN Wrap("Map", <<Wrap("Tuple", of)>>) ELSE NoType
       [] name = "Tuple" -> Wrap("Tuple", of)
       [] OTHER -> NoType

\* Field::try_from(APISchemaField).
FieldType(text) ==
  LET desc == ParseTypeDesc(text) IN IF desc.valid THEN DataType(desc) ELSE NoType

-----------------------------------------------------------------------------
\* Arrow fields: an extension's name or "", the Arrow type, its sizes, its children.  A
\* Timestamp is one of microseconds without a zone, an OtherTimestamp any other.

ArrowField(ext, arrow, size, of, nullable) ==
  [ext |-> ext, arrow |-> arrow, size |-> size, of |-> of, nullable |-> nullable]

\* TryFrom<&Arc<ArrowField>>.
Extensions == {"EmptyArray", "EmptyMap", "Variant", "Bitmap", "Geometry", "Geography",
               "Interval"}
RECURSIVE ArrowType(_)
ArrowType(f) ==
  LET of == [i \in DOMAIN f.of |-> ArrowType(f.of[i])]
      t == CASE f.ext \in Extensions -> Plain(f.ext)
             [] f.ext = "TimestampTz" -> Plain("Timestamp_Tz")
             [] f.ext = "Vector" ->
                  IF f.arrow = "FixedSizeList" /\ f.of[1].arrow = "Float32"
                  THEN Type("Vector", f.size, <<>>) ELSE NoType
             [] f.ext = "" /\ f.arrow \in Numbers \cup {"Null", "Boolean", "Timestamp"} ->
                  Plain(f.arrow)
             [] f.ext = "" /\ f.arrow = "OtherTimestamp" -> Plain("Timestamp")
             [] f.ext = "" /\ f.arrow \in {"Binary", "LargeBinary", "FixedSizeBinary"} ->
                  Plain("Binary")
             [] f.ext = "" /\ f.arrow \in {"Utf8", "LargeUtf8", "Utf8View"} -> Plain("String")
             [] f.ext = "" /\ f.arrow = "Date32" -> Plain("Date")
             [] f.ext = "" /\ f.arrow \in Decimals -> Type(f.arrow, f.size, <<>>)
             [] f.ext = "" /\ f.arrow \in {"List", "LargeList"} -> Wrap("Array", of)
             [] f.ext = "" /\ f.arrow = "Map" -> Wrap("Map", of)
             [] f.ext = "" /\ f.arrow = "Struct" -> Wrap("Tuple", of)
             [] OTHER -> NoType
  IN IF f.nullable /\ t.name \notin {"Null", "no type"} THEN Nullable(t) ELSE t

\* The field the server sends for a type.
RECURSIVE ServerField(_)
ServerField(t) ==
  LET of == [i \in DOMAIN t.of |-> ServerField(t.of[i])]
      Of(ext, arrow) == ArrowField(ext, arrow, t.size, of, FALSE)
  IN CASE t.name = "Nullable" -> [of[1] EXCEPT !.nullable = TRUE]
       [] t.name \in {"EmptyArray", "EmptyMap"} -> Of(t.name, "Null")
       [] t.name \in {"Variant", "Bitmap", "Geometry", "Geography"} -> Of(t.name, "LargeBinary")
       [] t.name = "Interval" -> Of("Interval", "Decimal128")
       [] t.name = "Timestamp_Tz" -> Of("TimestampTz", "Decimal128")
       [] t.name = "Vector" ->
            ArrowField("Vector", "FixedSizeList", t.size,
                       <<ArrowField("", "Float32", <<>>, <<>>, FALSE)>>, FALSE)
       [] t.name = "Null" -> [Of("", "Null") EXCEPT !.nullable = TRUE]
       [] t.name = "Binary" -> Of("", "LargeBinary")
       [] t.name = "String" -> Of("", "Utf8View")
       [] t.name = "Date" -> Of("", "Date32")
       [] t.name = "Array" -> Of("", "LargeList")
       [] t.name = "Tuple" -> Of("", "Struct")
       [] OTHER -> Of("", t.name)

-----------------------------------------------------------------------------
\* Properties

\* Whichever way the server sends a result and names its types, the driver knows
\* every type, reads the same one, and shows the same name for it.
TypeReads(t) ==
  /\ ArrowType(ServerField(t)) = t
  /\ \A suffix \in BOOLEAN : Display(FieldType(ServerType(t, suffix))) = Display(t)

=============================================================================
