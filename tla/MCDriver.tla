------------------------------- MODULE MCDriver -------------------------------
(***************************************************************************)
(* The parts of the driver between the client and a program, each on its   *)
(* own: load calls of two tasks, a sequence of PUTs and GETs, an            *)
(* InsertCursor, a DB-API cursor over every result of up to three pages,    *)
(* the decoding of cells and intervals, the statements of bound queries,    *)
(* and the options of a start.  `part` says which of them a behaviour is    *)
(* about; the others keep an initial state.                                *)
(***************************************************************************)
EXTENDS Loading, StageFiles, InsertCursor, Cursor

CONSTANTS Width, MicroWidth, FractionDigits, KeyOrder

V == INSTANCE Values
I == INSTANCE Intervals
P == INSTANCE Placeholders
O == INSTANCE Options

VARIABLES
  part,
  cell,     \* a column's type, the value of a cell, and the settings of the session
  interval,
  query,    \* a bound query, the client's DSN and the server it goes to
  start     \* the options, the files and the mode of a start of the command line client

-----------------------------------------------------------------------------
\* Transfers

File(dir, base) == [dir |-> <<dir>>, base |-> <<base>>, kind |-> "file"]
Dir(dir, base) == [dir |-> <<dir>>, base |-> <<base>>, kind |-> "dir"]

\* One file; two; two of one base name; a directory between two files.
MCGlobs ==
  {<<File("x", "a")>>, <<File("x", "a"), File("x", "b")>>, <<File("x", "a"), File("y", "a")>>,
   <<File("x", "a"), Dir("x", "k"), File("x", "b")>>}

MCChars == {"@", "/", "s", "a", "b", "d", "k", "x", "y", "2"}

\* @s, @s/d, @s/d/.
MCLocations == {<<"@", "s">>, <<"@", "s", "/", "d">>, <<"@", "s", "/", "d", "/">>}

\* a, d/a, d/b, d2/a (which @s/d matches as well), s/b (in a directory named like
\* the stage).
MCSeeds ==
  {<<"a">>, <<"d", "/", "a">>, <<"d", "/", "b">>, <<"d", "2", "/", "a">>, <<"s", "/", "b">>}

\* Up to three pages of up to two rows.
MCResults == {r \in BoundedSeq(0 .. 6, 3) : \A i \in DOMAIN r : r[i] - (IF i = 1 THEN 0 ELSE r[i - 1]) \in 0 .. 2}
MCSizes == {0, 1, 2, 3}

-----------------------------------------------------------------------------
\* Cells

Decimal(name, p, s) == V!Type(name, <<p, s>>, <<>>)
Array(t) == V!Type("Array", <<>>, <<t>>)
Tuple(of) == V!Type("Tuple", <<>>, of)
Map(k, v) == V!Type("Map", <<>>, <<Tuple(<<k, v>>)>>)
Text == V!Plain("String")
Vector == V!Type("Vector", <<2>>, <<>>)
Empty == {V!Plain("Null"), V!Plain("EmptyArray"), V!Plain("EmptyMap")}
Scalars ==
  {V!Plain(n) : n \in {"Int8", "UInt16", "Float64"} \cup (V!Simple \ V!Numbers)}
  \cup {Decimal("Decimal128", 4, 0), Decimal("Decimal128", 20, 2), Decimal("Decimal256", 40, 3)}

\* Each type with one more level.
Maybe(types) == types \cup {V!Nullable(t) : t \in types}
Nested(types) ==
  {Array(t) : t \in types} \cup {Map(Text, t) : t \in types}
  \cup {Tuple(<<t, Decimal("Decimal128", 4, 2)>>) : t \in types}
MCTypes ==
  Empty \cup Maybe(Scalars \cup {Vector}) \cup Nested(Empty \cup Maybe(Scalars))
  \cup Nested({Vector, Array(Text), Map(Text, V!Plain("Int8")),
               V!Nullable(Array(V!Nullable(V!Plain("Boolean"))))})

Data(name, geometry) ==
  CASE name \in {"Null", "EmptyArray", "EmptyMap"} -> {<<>>}
    [] name = "Boolean" -> {<<"0">>, <<"1">>}
    [] name = "Int8" -> {<<"0">>, <<"-", "1", "2", "8">>, <<"1", "2", "7">>}
    [] name = "UInt16" -> {<<"9", "0", "0">>}
    [] name \in {"Float32", "Float64"} -> {<<x>> : x \in V!Floats}
    [] name \in V!Decimals -> {<<"0">>, <<"5">>, <<"-", "1", "5", "0">>, <<"1", "2", "0", "5">>}
    [] name = "Binary" -> {<<>>, <<"A", "0">>}
    [] name = "String" ->
         {<<>>, <<"a">>, <<"NULL">>, <<"a", "'">>, <<"\"", "\\", "n">>, <<"1", ",", " ", "]">>}
    [] name = "Variant" -> {<<x>> : x \in V!Json}
    [] name \in {"Geometry", "Geography"} ->
         IF V!IsBinary(geometry) THEN {<<"A", "0">>} ELSE {<<"{}">>, <<"p">>}
    [] name \in {"Timestamp", "Timestamp_Tz"} -> {V!Instant(i) : i \in V!Instants}
    [] name = "Date" -> V!Dates
    [] OTHER -> {<<"1", " ", "b">>}

RECURSIVE ValuesOf(_, _)
ValuesOf(t, geometry) ==
  LET Items(items) == {V!Value(t.name, <<>>, s) : s \in items}
      Of(inner) == ValuesOf(inner, geometry)
      first == V!Value("Float32", <<"1.5">>, <<>>)
      kind == IF t.name \in V!Decimals THEN "Decimal128" ELSE t.name
  IN CASE t.name = "Nullable" -> {V!Null} \cup Of(t.of[1])
       [] t.name = "Array" -> Items(BoundedSeq(Of(t.of[1]), 2))
       [] t.name = "Map" -> Items(BoundedSeq(Of(t.of[1]), 1))
       [] t.name = "Tuple" -> Items({<<a, b>> : a \in Of(t.of[1]), b \in Of(t.of[2])})
       [] t.name = "Vector" -> Items({<<first, x>> : x \in Of(V!Plain("Float32"))})
       [] OTHER -> {V!Value(kind, d, <<>>) : d \in Data(t.name, geometry)}

Cells ==
  LET Under(t, geometry, version) ==
        {[type |-> t, value |-> v, geometry |-> geometry, version |-> version] :
           v \in ValuesOf(t, geometry)}
  IN UNION {Under(t, "WKB", 1) \cup Under(t, "WKT", 2) : t \in MCTypes}

\* A program sees the same schema and the same values whether the server sends JSON
\* pages or Arrow arrays, and the text of a raw row reads back as the value of its
\* row (schema.rs, string_decoder.rs, arrow_decoder.rs, result_encode.rs).
TransportsAgree ==
  part = "cells" =>
    /\ V!TypeReads(cell.type)
    /\ \A spaced \in BOOLEAN :
         V!CellReads(cell.type, cell.value, cell.geometry, cell.version, spaced)

-----------------------------------------------------------------------------
\* Intervals: years and months of each sign, and micros around each carry.

MCMicros ==
  LET edges == {0, 1, 9, 10, 11, 99, 100, 101, 5999, 6000, 6001, 6050, 359999, 360000, 366101,
                MicroWidth \div 2 - 1}
  IN edges \cup {-x : x \in edges} \cup {-(MicroWidth \div 2)}

\* An interval of an Arrow result is the same interval when the Python binding reads
\* its text (interval.rs): see IntervalReads.
IntervalsReadBack == part = "intervals" => I!IntervalReads(interval)

-----------------------------------------------------------------------------
\* Bound queries: statements of up to three lexemes, and one in another case.

Number == P!Json("number", <<"7">>, <<>>)
String == P!Json("string", <<"\\", "'", "?">>, <<>>)
Object == P!Json("object", <<"{", "'", "}">>, <<>>)
MCParams ==
  {P!NoParams, P!Question(<<>>), P!Question(<<Number>>),
   P!Question(<<P!Json("array", <<>>, <<Number, String>>), String>>),
   P!Question(<<Object, P!Json("null", <<"NULL">>, <<>>)>>), P!Named([a |-> String])}
MCServers ==
  {[login |-> a, version |-> v, tokens |-> TRUE, presigns |-> FALSE] :
     a \in {"accepts", "unknown"}, v \in {900, 901}}

Queries ==
  LET texts == BoundedSeq({"?", ":a", "$1", "$2", "'?'", "?fields", "w"}, 3)
  IN [sql : [text : texts, parses : BOOLEAN], params : MCParams, orm : BOOLEAN,
      login : {"enable", "disable"}, server : MCServers]
NoQuery ==
  [sql |-> [text |-> <<>>, parses |-> TRUE], params |-> P!NoParams, orm |-> FALSE, login |-> "enable",
   server |-> CHOOSE s \in MCServers : TRUE]

\* A program's parameters end up in the statement, whether the client has learnt the
\* version of the server or not (placeholder.rs, params.rs, client.rs): see
\* ParamsAreBound.
ParamsBound ==
  part = "params" =>
    LET dsn == [scheme |-> "lake", host |-> "h", user |-> "u", password |-> "",
                query |-> <<<<"login", query.login>>>>]
        client == O!Opened(O!Connect(dsn, <<>>), query.server)
    IN P!ParamsAreBound(query.orm, query.sql, query.params,
                        "server_side_params" \in client.features, query.server.version > 900)

-----------------------------------------------------------------------------
\* Starts of the command line client

MCKeyOrder ==
  <<"access_token", "access_token_file", "login", "max_threads", "presign", "private_key_file",
    "private_key_passphrase_file", "retry_count", "role", "sslmode", "warehouse">>

MCFiles ==
  [name \in {"plain.pem", "locked.pem", "p521.pem", "pass"} |->
     CASE name = "plain.pem" ->
            <<O!Block("PUBLIC KEY", "EC", "P-256", <<>>), O!Block("PRIVATE KEY", "EC", "P-384", <<>>)>>
       [] name = "locked.pem" -> <<O!Block("ENCRYPTED PRIVATE KEY", "RSA", "none", <<"w", " ">>)>>
       [] name = "p521.pem" ->
            <<O!Block("PRIVATE KEY", "Ed25519", "none", <<>>), O!Block("EC PRIVATE KEY", "EC", "P-521", <<>>)>>
       [] OTHER -> <<"w", " ", "\r", "\n">>]

Url(scheme, user, password, args) ==
  [scheme |-> scheme, host |-> "app.tidbcloud.com", user |-> user, password |-> password, query |-> args]
Keyed == <<<<"private_key_passphrase_file", "pass">>, <<"private_key_file", "locked.pem">>>>
Urls ==
  {Url("lake", "u", "a%2520b", <<<<"role", "r0">>, <<"max_threads", "8">>>>),
   Url("lake", "", "p", <<<<"sslmode", "disable">>, <<"login", "disable">>>>),
   Url("lake", "a%20b", "p", Keyed),
   Url("lake", "", "p", Keyed),
   Url("lake", "u", "p", <<<<"access_token_file", "t">>, <<"access_token", "x">>>>),
   Url("lake+http", "u", "p", <<<<"access_token", "x">>, <<"warehouse", "w">>>>),
   Url("lake", "u", "p", <<<<"retry_count", "x">>>>),
   [database |-> <<"a%20b", "e">>, port |-> 8900]
     @@ Url("lake+flight", "u", "p", <<<<"warehouse", "w">>, <<"retry_count", "x">>>>),
   [port |-> 8900] @@ Url("databend+flight", "u", "p", Keyed),
   Url("lake+flight", "", "p", <<>>),
   Url("lake+grpc", "u", "p", <<>>),
   [scheme |-> "lake", user |-> "", password |-> "", query |-> <<>>]}

Optional(name, values) == {<<>>} \cup {name :> v : v \in values}
Ignored == [host |-> "h", port |-> 1, tls |-> FALSE, flight |-> TRUE, set |-> <<<<"role", "r2">>>>]
Sources ==
  {("dsn" :> u) @@ more : u \in Urls, more \in {<<>>, Ignored}}
  \cup {tls @@ at @@ [set |-> s, flight |-> f] :
          tls \in Optional("tls", BOOLEAN), at \in {<<>>, [host |-> "h", port |-> 443]},
          s \in {<<>>, <<<<"sslmode", "disable">>, <<"retry_count", "1">>>>, Keyed}, f \in BOOLEAN}
Overrides ==
  {user @@ password @@ database @@ role @@ key @@ passphrase :
     user \in Optional("user", {"", "a b"}), password \in Optional("password", {"a%20b"}),
     database \in Optional("database", {<<"a b">>}), role \in Optional("role", {"r1"}),
     key \in Optional("private_key_file", {"plain.pem", "locked.pem", "p521.pem"}),
     passphrase \in Optional("private_key_passphrase_file", {"pass"})}
Flags == {<<>>, [show_stats |-> TRUE, time |-> "server", output_format |-> "csv"]}

Absence == [state |-> "absent"]
Config(connection, settings) == [state |-> "read", connection |-> connection, settings |-> settings]
MCPaths ==
  {<<Absence, Absence>>,
   <<[state |-> "bad"], Config([user |-> "u"], <<>>)>>,
   <<Absence, Config([tls |-> TRUE, args |-> O!ToMap(Keyed)], [show_stats |-> FALSE])>>,
   <<Config([user |-> "u", database |-> <<"d">>, args |-> [sslmode |-> "disable"]],
            [show_progress |-> TRUE]), Absence>>}
NoStart == [options |-> [set |-> <<>>, flight |-> FALSE], paths |-> <<Absence, Absence>>]

\* What a user gives the command line client is what the client it opens works with
\* (main.rs, args.rs, config.rs, client.rs of the core, flight_sql.rs): see
\* OptionsReach.
OptionsArrive == part = "options" => O!OptionsReach(start.options, start.paths, MCFiles)

-----------------------------------------------------------------------------

NoCell == [type |-> Text, value |-> V!Null, geometry |-> "WKT", version |-> 2]

Init ==
  /\ part \in {"load", "files", "rows", "cursor", "cells", "intervals", "params", "options"}
  /\ LoadInit /\ FilesInit /\ RowsInit /\ CursorInit
  /\ part # "load" => ~streaming /\ ~presign
  /\ part # "files" => ~allowPrivate /\ ~named /\ \A p \in MCSeeds : remote[p] = Absent
  /\ cell \in IF part = "cells" THEN Cells ELSE {NoCell}
  /\ interval \in IF part = "intervals"
                  THEN {I!Interval(m, d, u) : m \in -16 .. 15, d \in {-16, -1, 0, 1, 2, 15}, u \in MCMicros}
                  ELSE {I!Interval(0, 0, 0)}
  /\ query \in IF part = "params" THEN Queries ELSE {NoQuery}
  /\ start \in IF part = "options"
               THEN [options : {a @@ b @@ c : a \in Sources, b \in Overrides, c \in Flags}, paths : MCPaths]
               ELSE {NoStart}

Next ==
  /\ \/ part = "load" /\ LoadNext /\ UNCHANGED <<filesVars, rowsVars, cursorVars>>
     \/ part = "files" /\ FilesNext /\ UNCHANGED <<loadVars, rowsVars, cursorVars>>
     \/ part = "rows" /\ RowsNext /\ UNCHANGED <<loadVars, filesVars, cursorVars>>
     \/ part = "cursor" /\ CursorNext /\ UNCHANGED <<loadVars, filesVars, rowsVars>>
  /\ UNCHANGED <<part, cell, interval, query, start>>

Spec ==
  Init /\ [][Next]_<<part, cell, interval, query, start, loadVars, filesVars, rowsVars, cursorVars>>

=============================================================================
