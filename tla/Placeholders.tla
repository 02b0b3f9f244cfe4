------------------------------ MODULE Placeholders ------------------------------
(***************************************************************************)
(* driver/src/params.rs, driver/src/placeholder.rs and the builders of      *)
(* driver/src/client.rs: the statement and the parameters a bound query     *)
(* sends, where the server binds parameters and where the driver does.      *)
(*                                                                         *)
(* A text is a sequence of lexemes: the placeholders "?", ":a" and "$1",    *)
(* "?fields", quotes, and words; a string that holds a question mark is one *)
(* lexeme.                                                                 *)
(***************************************************************************)
EXTENDS Integers, Sequences, FiniteSets, SequencesExt

-----------------------------------------------------------------------------
\* Values and their texts

\* serde_json::Value: a tag, the text of a scalar, the items of an array.
Json(tag, text, items) == [tag |-> tag, text |-> text, items |-> items]

\* quote_sql_string: backslashes and quotes are doubled.
QuoteSql(text) ==
  <<"'">> \o FlattenSeq([i \in DOMAIN text |->
                           IF text[i] \in {"'", "\\"} THEN <<text[i], text[i]>> ELSE <<text[i]>>])
  \o <<"'">>

\* json_value_to_sql_string.
RECURSIVE ToSql(_)
ToSql(v) ==
  CASE v.tag = "string" -> QuoteSql(v.text)
    [] v.tag = "object" -> Append(QuoteSql(v.text), "::JSON")
    [] v.tag = "array" ->
         <<"[">> \o FlattenSeq([i \in DOMAIN v.items |->
                                  (IF i = 1 THEN <<>> ELSE <<",">>) \o ToSql(v.items[i])])
         \o <<"]">>
    [] OTHER -> v.text

\* The server reads a literal: a backslash takes the next character, a doubled quote
\* is one.  What follows the literal is its rest.
Literal(sql) ==
  LET f[i \in 2 .. Len(sql) + 2] ==
        IF i > Len(sql) THEN [text |-> <<"open">>, rest |-> <<>>]
        ELSE IF sql[i] = "\\" \/ (sql[i] = "'" /\ i < Len(sql) /\ sql[i + 1] = "'")
        THEN [f[i + 2] EXCEPT !.text = <<sql[i + 1]>> \o @]
        ELSE IF sql[i] = "'" THEN [text |-> <<>>, rest |-> SubSeq(sql, i + 1, Len(sql))]
        ELSE [f[i + 1] EXCEPT !.text = <<sql[i]>> \o @]
  IN f[2]

-----------------------------------------------------------------------------
\* Parameters: a sequence, or values with names.

Question(list) == [kind |-> "question", list |-> list, map |-> <<>>]
Named(map) == [kind |-> "named", list |-> <<>>, map |-> map]
NoParams == [kind |-> "none", list |-> <<>>, map |-> <<>>]

\* get_by_index and get_by_name: a value's text, <<>> for none.
ByIndex(params, n) ==
  IF params.kind = "question" /\ n \in DOMAIN params.list THEN ToSql(params.list[n]) ELSE <<>>
ByName(params, name) ==
  IF params.kind = "named" /\ name \in DOMAIN params.map THEN ToSql(params.map[name]) ELSE <<>>

Names == [name \in {":a", ":b"} |-> IF name = ":a" THEN "a" ELSE "b"]
Positions == [position \in {"$1", "$2"} |-> IF position = "$1" THEN 1 ELSE 2]

\* What the hole at place i stands for: the n-th "?" for the n-th parameter.
HoleValue(params, text, i) ==
  IF text[i] = "?" THEN ByIndex(params, Cardinality({j \in 1 .. i : text[j] = "?"}))
  ELSE IF text[i] \in DOMAIN Names THEN ByName(params, Names[text[i]]) ELSE <<>>
PositionValue(params, text, i) ==
  IF text[i] \in DOMAIN Positions THEN ByIndex(params, Positions[text[i]]) ELSE <<>>

\* Replacements, by place, of those that have a value.
Edits(values) ==
  SelectSeq([i \in DOMAIN values |-> [at |-> i, value |-> values[i]]], LAMBDA e : e.value # <<>>)

\* replace_range.
Splice(e, text) == SubSeq(text, 1, e.at - 1) \o e.value \o SubSeq(text, e.at + 1, Len(text))

\* From the last to the first, so that the places of those to come stay right.
\* Mutant: from the first to the last.
ApplyForward(edits, text) == FoldLeft(LAMBDA s, e : Splice(e, s), text, edits)
ApplyEdits(edits, text) == FoldRight(Splice, edits, text)

\* replace_sql: the holes and then the positions, all at their places in the statement
\* as it was.
ReplaceSql(params, text) ==
  LET holes == Edits([i \in DOMAIN text |-> HoleValue(params, text, i)])
      positions == Edits([i \in DOMAIN text |-> PositionValue(params, text, i)])
  IN ApplyEdits(positions, ApplyEdits(holes, text))

\* Params::replace: without parameters, and for a statement the driver's parser does
\* not take, the text stays.
Replace(params, sql) ==
  IF (params.list = <<>> /\ params.map = <<>>) \/ ~sql.parses THEN sql.text
  ELSE ReplaceSql(params, sql.text)

-----------------------------------------------------------------------------
\* Builders

HasDollarPlaceholders(sql) ==
  sql.parses /\ \E i \in DOMAIN sql.text : sql.text[i] \in DOMAIN Positions

\* replace_query_fields_placeholder.
FieldNames == <<"x", ",", "y">>
ReplaceFields(text) ==
  FlattenSeq([i \in DOMAIN text |-> IF text[i] = "?fields" THEN FieldNames ELSE <<text[i]>>])

Sent(text, json) == [text |-> text, json |-> json]

\* iter, iter_ext, one, all and exec: the server binds where it can.
BuilderSends(sql, params, serverSide) ==
  IF params.kind = "none" THEN Sent(sql.text, NoParams)
  ELSE IF serverSide /\ ~HasDollarPlaceholders(sql) THEN Sent(sql.text, params)
  ELSE Sent(Replace(params, sql), NoParams)

\* cursor_as and ORMQueryBuilder::execute: always the driver.
OrmSends(sql, params) ==
  LET text == ReplaceFields(sql.text)
  IN Sent(IF params.kind = "none" THEN text ELSE Replace(params, [sql EXCEPT !.text = text]), NoParams)

Sends(orm, sql, params, serverSide) ==
  IF orm THEN OrmSends(sql, params) ELSE BuilderSends(sql, params, serverSide)

-----------------------------------------------------------------------------
\* Properties

\* The text with every placeholder in its place replaced by its parameter.
Bound(params, text) ==
  FlattenSeq([i \in DOMAIN text |->
    LET value == HoleValue(params, text, i) \o PositionValue(params, text, i)
    IN IF value = <<>> THEN <<text[i]>> ELSE value])

\* A "$1" after a "?" that has a value is looked for where it no longer is.
Shifted(params, text) ==
  \E i, j \in DOMAIN text :
    /\ i < j /\ text[j] \in DOMAIN Positions /\ PositionValue(params, text, j) # <<>>
    /\ text[i] = "?" /\ Len(HoleValue(params, text, i)) > 1

\* Whoever binds the parameters, the server runs the statement with each placeholder
\* replaced by its own parameter and nothing else changed, also a server that binds
\* none; and the text of a string or of an object reads back as that string, to its
\* last character.
ParamsAreBound(orm, sql, params, serverSide, binds) ==
  LET sent == Sends(orm, sql, params, serverSide)
      text == IF orm THEN ReplaceFields(sql.text) ELSE sql.text
  IN /\ sql.parses /\ ~Shifted(params, text) =>
          (IF binds THEN Bound(sent.json, sent.text) ELSE sent.text) = Bound(params, text)
     /\ \A i \in DOMAIN params.list :
          params.list[i].tag \in {"string", "object"} =>
            Literal(ToSql(params.list[i])) =
              [text |-> params.list[i].text,
               rest |-> IF params.list[i].tag = "object" THEN <<"::JSON">> ELSE <<>>]

=============================================================================
