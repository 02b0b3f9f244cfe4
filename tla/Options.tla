-------------------------------- MODULE Options --------------------------------
(***************************************************************************)
(* cli/src/main.rs, args.rs and config.rs, the DSN they make, and what the  *)
(* driver's two handlers read from it (client.rs of the core, flight_sql.rs *)
(* of the driver): from the options of a start to the client it opens.      *)
(*                                                                         *)
(* A record or a map holds the fields somebody gave: an Option that is None *)
(* is a name outside its domain.  A query is a sequence of pairs.           *)
(***************************************************************************)
EXTENDS Keys

CONSTANT KeyOrder    \* the names of parameters, in the order a BTreeMap gives them

Given(r, names) == Restrict(r, names \cap DOMAIN r)
ToMap(pairs) == FoldLeft(LAMBDA m, p : (p[1] :> p[2]) @@ m, <<>>, pairs)
Or(r, name, default) == IF name \in DOMAIN r THEN r[name] ELSE default

-----------------------------------------------------------------------------
\* Texts in a URL

\* set_username and set_path leave a percent sign alone; utf8_percent_encode does not.
Encode(text) == IF text = "a b" THEN "a%20b" ELSE text
EncodeAll(text) == CASE text = "a b" -> "a%20b" [] text = "a%20b" -> "a%2520b" [] OTHER -> text
Decode(text) == CASE text = "a%20b" -> "a b" [] text = "a%2520b" -> "a%20b" [] OTHER -> text

-----------------------------------------------------------------------------
\* The command line client

\* Config::load: the first of the two files that exists; a bad one counts as empty.
\* A field it lacks has its default.
DefaultConnection == [host |-> "localhost", port |-> 8000, user |-> "root", args |-> <<>>]
LoadConfig(paths) ==
  LET found == SelectSeq(paths, LAMBDA p : p.state # "absent")
      file == IF found = <<>> \/ found[1].state = "bad"
              THEN [connection |-> <<>>, settings |-> <<>>] ELSE found[1]
  IN [connection |-> file.connection @@ DefaultConnection, settings |-> file.settings]

\* ConnectionArgs::from_dsn.
FromDsn(url) ==
  IF "host" \notin DOMAIN url THEN Error("missing host")
  ELSE Given(url, {"host", "port", "user", "database"})
       @@ [password |-> Decode(url.password), flight |-> url.scheme \in {"lake+flight", "databend+flight"},
           args |-> ToMap(url.query)]

\* The arguments of a DSN, or of the command line and the file.
BaseArgs(options, config) ==
  IF "dsn" \in DOMAIN options THEN FromDsn(options.dsn)
  ELSE Given(options, {"host", "port", "user", "password"})
       @@ Given(config.connection, {"host", "port", "user", "database", "args"})
       @@ [password |-> "", flight |-> options.flight]

\* configure_tls.
SslMode(given) ==
  IF "tls" \in DOMAIN given THEN "sslmode" :> (IF given.tls THEN "enable" ELSE "disable") ELSE <<>>

KeyFiles == {"private_key_file", "private_key_passphrase_file"}

\* Mutant: the passphrase file stays with another key file.
OverriddenKeeps(options, config, conn) ==
  LET args == IF "dsn" \in DOMAIN options THEN conn.args
              ELSE ToMap(options.set)
                   @@ SslMode(Given(options, {"tls"}) @@ Given(config.connection, {"tls"}))
                   @@ conn.args
  IN Given(options, {"database", "user", "password"})
     @@ [conn EXCEPT !.args = Given(options, {"role"} \cup KeyFiles) @@ args]
\* main's overrides: --set and the TLS option count only without a DSN.
Overridden(options, config, conn) ==
  LET args == IF "dsn" \in DOMAIN options THEN conn.args
              ELSE ToMap(options.set)
                   @@ SslMode(Given(options, {"tls"}) @@ Given(config.connection, {"tls"}))
                   @@ conn.args
      kept == IF "private_key_file" \in DOMAIN options THEN DOMAIN args \ KeyFiles ELSE DOMAIN args
  IN Given(options, {"database", "user", "password"})
     @@ [conn EXCEPT !.args = Given(options, {"role"} \cup KeyFiles) @@ Given(args, kept)]

\* get_dsn.
GetDsn(conn) ==
  IF conn.flight /\ "private_key_file" \in DOMAIN conn.args THEN Error("key pair")
  ELSE LET names == SelectSeq(KeyOrder, LAMBDA k : k \in DOMAIN conn.args)
           path == IF "database" \in DOMAIN conn
                   THEN [database |-> [i \in DOMAIN conn.database |-> Encode(conn.database[i])]] ELSE <<>>
       IN Given(conn, {"host", "port"}) @@ path
          @@ [scheme |-> IF conn.flight THEN "lake+flight" ELSE "lake", user |-> Encode(conn.user),
              password |-> EncodeAll(conn.password),
              query |-> [i \in DOMAIN names |-> <<names[i], conn.args[names[i]]>>]]

\* The settings of a start: the mode's, the file's fields, the flags; --time takes
\* the output away.
FileSettings == {"show_progress", "show_stats", "max_display_rows", "expand"}
StartSettings(options, config, isRepl) ==
  (IF "time" \in DOMAIN options THEN [output_format |-> "null"] ELSE <<>>)
  @@ Given(options, {"output_format", "show_progress", "show_stats", "time"})
  @@ Given(config.settings, FileSettings)
  @@ (IF isRepl THEN [output_format |-> "table", show_progress |-> TRUE, show_stats |-> TRUE]
      ELSE [output_format |-> "tsv"])
  @@ [show_progress |-> FALSE, show_stats |-> FALSE, max_display_rows |-> 200, expand |-> "auto"]

-----------------------------------------------------------------------------
\* The driver

\* The values some parameters must have.
Enumerated == [sslmode |-> {"disable", "require", "enable"}, presign |-> {"auto", "detect", "on", "off"},
            login |-> {"disable", "enable"}, session_token |-> {"disable", "enable"},
            body_format |-> {"json", "arrow"}, query_result_format |-> {"json", "arrow"},
            presign_allow_private |-> {"true", "false"}]
Numeric == {"wait_time_secs", "max_rows_in_buffer", "max_rows_per_page", "connect_timeout",
            "page_request_timeout_secs", "retry_count", "retry_delay_secs"}
FlightNumeric == {"connect_timeout", "query_timeout", "tcp_keepalive", "http2_keep_alive_interval",
                  "keep_alive_timeout"}
FlightSwitches == {"tcp_nodelay", "keep_alive_while_idle"}
Numbers == {"0", "1", "30"}

Wrong(args, enumerated, numeric) ==
  \/ \E k \in enumerated \cap DOMAIN args : args[k] \notin Enumerated[k]
  \/ \E k \in numeric \cap DOMAIN args : args[k] \notin Numbers

\* from_dsn's authentication: a key file, the last token of the query, the user and
\* the password of the URL, root.
AuthOf(url, files) ==
  LET args == ToMap(url.query)
      tokens == SelectSeq(url.query, LAMBDA p : p[1] \in {"access_token", "access_token_file"})
  IN IF "private_key_file" \in DOMAIN args
     THEN IF url.user = "" THEN Error("username is required")
          ELSE [user |-> url.user]
               @@ ReadKey(files, args.private_key_file, Or(args, "private_key_passphrase_file", "none"))
     ELSE IF tokens # <<>> THEN [token |-> Last(tokens)]
     ELSE IF url.user = "" THEN [user |-> "root", password |-> ""]
     ELSE [user |-> url.user, password |-> Decode(url.password)]

\* What from_dsn keeps of its own; the other parameters are settings of the session.
OwnNames ==
  DOMAIN Enumerated \cup Numeric \cup KeyFiles
  \cup {"tenant", "warehouse", "role", "tls_ca_file", "access_token", "access_token_file"}

\* APIClient::from_dsn.
RestClient(url, files) ==
  LET args == ToMap(url.query)
      auth == AuthOf(url, files)
      http == Or(args, "sslmode", "enable") = "disable"
  IN IF Wrong(args, DOMAIN Enumerated, Numeric) THEN Error("value")
     ELSE IF IsError(auth) THEN auth
     ELSE [handler |-> "RestAPI", host |-> Or(url, "host", "localhost"), scheme |-> IF http THEN "http" ELSE "https",
           port |-> Or(url, "port", IF http THEN 80 ELSE 443), auth |-> auth,
           login |-> Or(args, "login", "enable"), presign |-> Or(args, "presign", "auto"),
           session |-> Given(url, {"database"}) @@ Given(args, {"role"})
                       @@ [settings |-> Given(args, DOMAIN args \ OwnNames)]]
          @@ Given(args, OwnNames \ ({"role", "login", "presign", "sslmode"} \cup KeyFiles))

\* Args::from_url of the Flight SQL handler: a port is required, a key file refused,
\* the database is the first part of the path.  A tcp_keepalive of "0" or "close" is none.
FlightClient(url) ==
  LET args == ToMap(url.query)
      path == Or(url, "database", <<>>)
      closes == Or(args, "tcp_keepalive", "") \in {"0", "close"}
  IN IF \/ Wrong(args, {"sslmode", "presign_allow_private"},
                 FlightNumeric \ {k \in {"tcp_keepalive"} : closes})
        \/ \E k \in FlightSwitches \cap DOMAIN args : args[k] \notin {"true", "false"}
     THEN Error("value")
     ELSE IF DOMAIN args \cap KeyFiles # {} THEN Error("key pair")
     ELSE IF {"host", "port"} \ DOMAIN url # {} THEN Error("host or port")
     ELSE [handler |-> "FlightSQL", host |-> url.host, port |-> url.port,
           scheme |-> IF Or(args, "sslmode", "enable") = "disable" THEN "http" ELSE "https",
           auth |-> [user |-> url.user, password |-> Decode(url.password)],
           session |-> IF path = <<>> THEN <<>> ELSE [database |-> <<path[1]>>]]
          @@ (IF closes THEN [tcp_keepalive |-> "none"] ELSE <<>>)
          @@ Given(args, {"tenant", "warehouse", "tls_ca_file", "presign_allow_private"}
                         \cup FlightNumeric \cup FlightSwitches)

\* Client::get_conn.
Connect(url, files) ==
  CASE url.scheme \in {"lake", "lake+http", "lake+https", "databend"} -> RestClient(url, files)
    [] url.scheme \in {"lake+flight", "databend+flight", "lake+grpc", "databend+grpc"} -> FlightClient(url)
    [] OTHER -> Error("scheme")

\* main, up to the connection.
Start(options, paths, files) ==
  LET config == LoadConfig(paths)
      base == BaseArgs(options, config)
      dsn == GetDsn(Overridden(options, config, base))
  IN IF IsError(base) THEN base ELSE IF IsError(dsn) THEN dsn ELSE Connect(dsn, files)

-----------------------------------------------------------------------------
\* Opening

\* Capability::from_server_version, for the third number of a version 1.2.x.
Features(version) ==
  (IF version > 781 THEN {"streaming_load"} ELSE {}) \cup (IF version > 835 THEN {"arrow_data"} ELSE {})
  \cup (IF version > 900 THEN {"server_side_params"} ELSE {})

\* APIClient::new: login, which an old server does not know, and the check for
\* presigned uploads.
Opened(client, server) ==
  LET known == client.login = "enable" /\ server.login = "accepts"
      presign == CASE client.presign = "auto" -> (IF client.host = "app.tidbcloud.com" THEN "on" ELSE "off")
                   [] client.presign = "detect" -> (IF server.presigns THEN "on" ELSE "off")
                   [] OTHER -> client.presign
  IN IF client.login = "enable" /\ server.login = "refuses" THEN Error("authentication")
     ELSE [client EXCEPT !.presign = presign]
          @@ [session_id |-> IF known THEN "server" ELSE "no_login",
              tokens |-> known /\ server.tokens,
              features |-> IF known THEN Features(server.version) ELSE {}]

-----------------------------------------------------------------------------
\* Properties

\* What a DSN means to the driver by itself.  The command line client knows neither
\* the scheme +grpc nor the order of two tokens, and needs a host.
SameAsDriver(options, paths, files) ==
  LET dsn == options.dsn
      names == {dsn.query[i][1] : i \in DOMAIN dsn.query}
  IN DOMAIN options \subseteq {"dsn", "host", "port", "tls", "set", "flight"}
       /\ "host" \in DOMAIN dsn /\ dsn.scheme \notin {"lake+grpc", "databend+grpc"}
       /\ Cardinality(names \cap {"access_token", "access_token_file"}) < 2
     => LET driver == Connect(dsn, files)
            client == Start(options, paths, files)
        IN IF IsError(driver) THEN IsError(client) ELSE client = driver

\* A user, a password, a database and a role of the command line reach the client
\* whatever else is given; a REST client without a user is root without a password,
\* Flight SQL has no roles.
CommandWins(options, client) ==
  LET rest == client.handler = "RestAPI"
      user == Or(options, "user", IF "dsn" \in DOMAIN options THEN options.dsn.user ELSE "root")
  IN /\ "password" \in DOMAIN client.auth /\ "user" \in DOMAIN options =>
          client.auth.user = (IF rest /\ user = "" THEN "root" ELSE Encode(user))
     /\ "password" \in DOMAIN client.auth /\ "password" \in DOMAIN options =>
          client.auth.password = (IF rest /\ user = "" THEN "" ELSE options.password)
     /\ "database" \in DOMAIN options => client.session.database = <<Encode(options.database[1])>>
     /\ "role" \in DOMAIN options /\ rest => client.session.role = options.role

\* A key file of the command line is read with the passphrase file of the command
\* line, or none: no other source's passphrase makes the start fail or succeed.
KeyArrives(options, client, files) ==
  "private_key_file" \in DOMAIN options =>
    LET key == ReadKey(files, options.private_key_file, Or(options, "private_key_passphrase_file", "none"))
    IN IF IsError(client)
       THEN IsError(key) \/ client.error \in {"key pair", "value", "missing host", "username is required"}
       ELSE ~IsError(key) /\ client.auth.block = key.block /\ client.auth.algorithm = key.algorithm

\* A flag decides a setting, then the file, in every mode; --time shows no rows.
SettingsReach(options, paths, isRepl) ==
  LET config == LoadConfig(paths)
      settings == StartSettings(options, config, isRepl)
  IN /\ \A name \in FileSettings \cap (DOMAIN options \cup DOMAIN config.settings) :
          settings[name] = Or(options, name, Or(config.settings, name, "none"))
     /\ "time" \in DOMAIN options => settings.output_format = "null"

\* The options of a start reach the client it opens, as the four claims above say.
OptionsReach(options, paths, files) ==
  LET client == Start(options, paths, files)
  IN /\ "dsn" \in DOMAIN options => SameAsDriver(options, paths, files)
     /\ ~IsError(client) => CommandWins(options, client)
     /\ KeyArrives(options, client, files)
     /\ \A isRepl \in BOOLEAN : SettingsReach(options, paths, isRepl)

=============================================================================
