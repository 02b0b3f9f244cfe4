# lakesql in TLA+

This directory is a formal model of the TiDB Cloud Lake client (`core`, `sql`, `driver`, `cli`,
`bindings`): TLA+ modules translated from its Rust sources, TLC configurations that model-check
them on small instances, and proofs checked by TLAPS. Paths below are relative to the root of the
repository.

Run a model with `tlc -config MCClientManager.cfg ClientManager` and a proof with
`tlapm ClientManager_proofs.tla`. `PROJECT.json` names, for every definition, the lines it models.

## 1. The system

lakesql is the client of an HTTP query service. A program opens a *session* (an `APIClient`), sends
statements, reads their results page by page and lets go of the session in the end. A background
task keeps sessions and half-read results alive on the server with heartbeats.

| Component | State it keeps | Operations | Talks to |
|---|---|---|---|
| **Session registry and heartbeat loop** `core/src/client_mgr.rs` | map of weak session references, a `Notify`, the loop's sleep and snapshot | `register_client`, `unregister_client`, the loop | every session: `Weak::upgrade`, `try_heartbeat` |
| **APIClient life cycle** `core/src/client.rs` | session id, tokens, session state, the `closed` flag | login, clone, `close`, `close_with_spawn`, `Drop`, logout | registry; server (`/login`, `/session/logout`) |
| **HTTP request helper, session tokens** `core/src/client.rs`, `auth.rs`, `error_code.rs` | session and refresh token, reloadable credential, local retry counters | `query_request_helper`, `refresh_session_token`, `wrap_auth_or_session_token` | server; called by every other request |
| **Query life cycle** `core/src/pages.rs`, `core/src/client.rs` | `Pages` (first page, page future, next uri), `queries_need_heartbeat` | `start_query`, `query_all`, `poll_next`, `wait_for_schema`, `Drop`, `finalize_query`, `kill_query`, `try_heartbeat` | helper; heartbeat loop; server's result sets |
| **Query keep-alive times** the same files | `last_access_time`, `timeout_secs` | `need_heartbeat` | loop's interval |
| **Session state and routing** `core/src/session.rs`, `core/src/client.rs` | database, role, settings, transaction state, `last_node_id`, route hint | `set_*`, `handle_session`, `handle_warnings`, `need_pre_refresh`… | every request sends it, every answer replaces it |
| **Row stream** `driver/src/rest_api.rs`, `sql/src/rows.rs` | decoded rows, the held-back last row | `RestAPIRows::poll_next` | `Pages` |
| **Loading and stages** `driver/src/rest_api.rs`, `conn.rs`, `core/src/stage.rs`, `presign.rs` | none between calls; files in the user's stage | `load_data`, `load_file`, `load_file_with_options`, `stream_load`, `put_files`, `get_files` | helper, object store |
| **Driver facade** `driver/src/client.rs`, `placeholder.rs`, `params.rs` | buffered insert rows | builders, placeholders, `InsertCursor` | REST or Flight driver |
| **Flight SQL driver** `driver/src/flight_sql.rs` | channel, handshake flag | handshake, `exec`, `query_iter`, the row stream | arrow-flight |
| **Values and decoding** `sql/src/value/*`, `core/src/schema.rs` | none | decoders, interval arithmetic, type-name parser | row stream |
| **Command line** `cli/src/session.rs`, `sql_parser.rs` | statement buffer, REPL settings, interrupt flag, session | splitter, REPL, runs over a file, reconnect | driver |
| **Configuration, keys** `cli/src/args.rs`, `config.rs`, `main.rs`, `core/src/auth.rs` | none after the start | options, files and DSN to a client; private keys | REST or Flight driver |
| **Bindings** `bindings/python`, `bindings/nodejs` | DB-API cursor | forwards, conversions, cursor | driver |
| Derive macros, errors, plain request and response types | none | | |

### What is hard about it

* **Interleaving.** A session is shared by tasks, the page streams they hold, spawned finals and
  logouts, and the heartbeat loop, which itself may own the last reference. `close`, the drop of a
  `Connection` and the drop of the client race on one flag.
* **State read before an await and used after it.** The loop works on a snapshot of the registry,
  the heartbeat on a clone of `queries_need_heartbeat`, a refresh on the tokens it read before it
  was sent, `close` on one look at `need_logout`.
* **Lost answers and retries.** Transient errors, 503, 401 for an expired token and 401 for an
  outdated credential all send the request again, with one counter, one nested request and one
  reset of the counter.
* **Times.** Half a timeout, whole seconds, the loop's sleep and the delays of requests must add up
  to less than the server's timeout.
* **Streams.** The page that carries the schema is taken out and put back; pages without rows are
  passed over; the end of the stream, an error and a drop must each leave the server and the map of
  heartbeats in the right state.
* **Several things in one call.** Loads share the user's stage; `PUT`, `GET` and an insert cursor do
  many requests and stop or go on after one that fails.
* **Two readings of one thing.** JSON and Arrow, server-side and client-side parameters, an interval
  and its text, two scans for the end of a statement, three sources of an option.

### What makes each component correct

* *Registry*: while a session is registered the loop does not sleep its hour; the map holds exactly
  the open sessions; a session is logged out once, if and only if the server keeps state for it;
  a released session is closed even when the loop held the last reference.
* *Request helper*: `retry_count` bounds the requests of a call, and a call does not give up on what
  it can retry before they are used up; a refresh ends with the newest tokens; every call returns.
* *Query life cycle*: the rows of every page reach the program once and in order, and the end is
  reported only after the last; a dropped result is finalized; a result being read stays in the
  heartbeat map; a query never returns to the map; entries of ended queries leave it.
* *Keep-alive times*: a registered query outlives any pause of the program.
* *Session state*: what the client sends is what it set or the server last answered; inside a
  transaction every statement goes to the same place.
* *Row stream and loading*: rows, statistics and errors in the server's order; files transferred
  before an error are reported.
* *Splitter, REPL, cursor*: the statements run are those typed; an error or an interrupt reaches the
  statement it belongs to and no other; a cursor never returns rows of an earlier statement.
* *Values*: a program sees the same types and values whichever way the server sends them.
* *Facade and configuration*: the server runs the statement with the parameters bound to it; what a
  user gives is what the client works with.

## 2. The modules

| Module | Kind | Models |
|---|---|---|
| `ClientManager` | specification | registry, heartbeat loop, and the life of the sessions in it |
| `ClientManager_proofs` | proofs | its six invariants and the refinement of `SessionService` |
| `SessionService` | abstract specification | what the server sees of each session; implemented by `ClientManager` |
| `RequestRetry` | specification | `query_request_helper`, the nested refresh, uploads, shared session tokens |
| `RequestRetry_proofs` | proofs | its four invariants |
| `QueryLifecycle` | specification | `Pages`, the heartbeat map, finals, kills, `try_heartbeat`, the server's result sets |
| `QueryLifecycle_proofs` | proofs | its four safety properties and the refinement of `ResultStream` |
| `ResultStream` | abstract specification | what a query promises; implemented by `QueryLifecycle` |
| `KeepAlive` | specification | the times of one registered query |
| `KeepAlive_proofs` | proofs | its two invariants |
| `SessionState` | specification | the session state of one client, the route hint, the sticky node |
| `SessionState_proofs` | proofs | its three invariants and its action property |
| `RowStream` | operators | `poll_next` of the REST and of the Flight rows as an operator on streams |
| `Cursor` | specification | the DB-API cursor of the Python bindings, over `RowStream` |
| `Cursor_proofs` | proofs | what a poll yields, and its four invariants |
| `Loading` | specification | load calls that interleave over one stage |
| `StageFiles` | specification | `PUT` and `GET` of several files |
| `InsertCursor` | specification | rows written and the inserts of the end |
| `Driver_proofs` | proofs | the invariants of `Loading`, `StageFiles` and `InsertCursor`; facts about `IntervalParts` |
| `Types` | operators | the type of a column, from its name and from an Arrow field (`schema.rs`) |
| `Values` | operators | a cell's value from JSON text and from Arrow, and a raw row's text; over `Types` |
| `IntervalParts` | operators | the arithmetic of an interval: unpacking, the parts of a text, the sums of a reading |
| `Intervals` | operators | printing and reading an interval, over `IntervalParts` |
| `Placeholders` | operators | what a bound query sends |
| `Keys` | operators | which private key of a PEM file is taken |
| `Options` | operators | from the options of a start to the client it opens, and the login; over `Keys` |
| `MCDriver` | composition | `Cursor` and the modules from `Loading` to `Options`, and the inputs the operators are checked on |
| `SqlParser` | operators | the statement splitter |
| `Repl` | specification | the command line session, over `SqlParser` |
| `Repl_proofs` | proofs | two of its invariants and the refinement of `StatementRunner`, for any splitter |
| `StatementRunner` | abstract specification | how the statements given to the command line are sent; implemented by `Repl` |
| `MC…` | model checking | finite constants and symmetry for the runs |

In every module a definition named *Mutant…* in its comment is a deliberately wrong variant of the
definition after it. No specification uses it: it exists to show that a property notices the bug.

### ClientManager and SessionService

An action is what runs between two lock acquisitions or awaits. `arcs[c]` is the set of tasks that
hold an `Arc<APIClient>`; the loop's own reference is `beating`. `Release` and `EndHeartbeat` are
the places where the last reference may go; both run `DropClient`, the `compare_exchange` on
`closed`. A close then goes through `Unregister` and `Logout`, with any other step possible in
between. The loop is `Notified` / `Timeout` / `Recheck` / `StartHeartbeat` / `EndHeartbeat` /
`EndRound`; `permit` is tokio's stored notification, which `timeout_at` consumes before it looks at
the deadline. Times are abstract here: `Timeout` may come at any moment after the deadline rule
allows it, `interval` only tells the long sleep from the short one.

`SessionService` is the same process as the server sees it: each session goes from `"new"` to
`"open"`, `"closing"`, `"closed"` and `"gone"`, one at a time is heartbeaten, and `End` sends a logout
if and only if the server keeps anything for the session in that step. In the mapping `Phase` reads
a session's phase off its flag and the stage of its closer, and `keeps` is `NeedLogout`; references,
tasks, the map and the sleep of the loop have no image.

### RequestRetry

One `Call` is one run of the helper, or an upload, which goes without it. A request is two steps
(`Serve` at the server, a `Receive…` at the client), so calls interleave at every await. The header
of the request is state (`cred`, `gen`), because the helper drops and rebuilds it. `Receive…` are
the arms of the helper's big `match`; each has one guard (`WantsResend`, `WantsRefresh`,
`WantsReload`) and they exclude each other in the order of the code. The refresh is a helper call
inside the helper call: it has its own counter and neither refreshes nor reloads.

### QueryLifecycle and ResultStream

A query's pages are numbered, 1 being the answer to the query start; a page's content is one of
four kinds: JSON rows, arrow rows, progress without rows, and neither rows nor schema (`blank`). A
page request is one exchange, with the retries of `RequestRetry` inside it; it ends answered or
failed. `TakeFirstPage`, `RequestPage`, `ReadPage`, `ReadError`, `EndStream` are the branches of
`poll_next`; `HandOver` is what its caller does with a page, i.e. `wait_for_schema` (pass it by, or
put it back and register the query) or the program. `DropPages` is `Drop for Pages` with the
spawned final. The server serves pages, expires a result set nobody keeps alive, and ends it on a
final or kill. `ResultStream` says it in three actions: the pages a program must get (`Needed`, in the mapping)
come once and in order, others may be passed over, and the end comes after the last of them.

### KeepAlive

One query of one session, on a discrete clock. `TicksPerSec` is there because `as_secs()`
truncates. The bounds `RoundTicks`, `RequestTicks`, `AnswerTicks` are what the environment may
take; `Margin` is the relation between them and the configured times that keeps the query alive.

`DropResult` is `finalize_query`, the end of the program's interest, and clears `registered`; after
it nothing is promised.

### SessionState

The client's copy of the session is one of two: the server has no other memory of a session than
what statements bring with them. A state is a set of facts, because all that matters of a field is
whether it has reached the other side: `"active"` (a transaction), `"sticky"` (temporary tables on
one node) and the members of `Change` (a database, a role, a setting). A query goes through
`StartQuery`, `NextHint`, `CopySession`, `SendQuery`, `ServeQuery`, `SetHint`, `Store`, `SetIds`:
one action per lock the code takes, because `set_database`, `set_role` and `set_session` may come
between any two of them. Loads and pages have fewer locks and fewer actions. `Lose` is every way an
answer does not arrive or cannot be used.

The model has **one request at a time**. Nothing keeps a program from sharing a session between
tasks that run statements, but the code promises nothing about it: the answers replace the whole
state and the last one wins, and a statement that passed `in_active_transaction` before a `BEGIN`
was answered changes the hint inside the transaction. Three history variables say what has happened
on the server's side (`truth`, `home`) and which of the excuses a property names has occurred
(`lapses`).

### RowStream and Cursor

`Poll(s)` is the set of what one `poll_next` may yield in stream `s`, with the stream it leaves:
rows while more than one is buffered, then the next page, the last row only when no page is left.
A page is the number of the last row it brings, so an empty page ends where the one before it did. A
conversion of a row or a batch may fail. `PollFlight` is the stream of a flight: no row is held
back, a batch that is not converted is lost as a whole behind one error and the stream goes on.
`Cursor` has one action per call of the program and one per poll a call makes; a call holds the
cursor exclusively. Rows are numbers in the server's order, so that what the program `got` shows
losses, duplicates and rows of an earlier statement.

### Loading

A call is started in one step (`Begin`: what `load_data`, `load_file`, `load_file_with_options` and
`stream_load` decide before their first request) and then makes its requests, each a step that may
fail with or without being carried out: `Presign`, `Upload`, `Statement` by way of the stage,
`Stream` otherwise. A call that has not begun is `Idle`. `Location` names the file by the clock, which
`Tick` advances at any time. The SQL is two facts: where its semicolon is and how it names the data.

### StageFiles

`job` is the running call with the files it still has to transfer and the rows it has answered.
Names are sequences of characters, because `LIST` matches prefixes and the code cuts them again
(`ParseLocation`, `List`, `Relative`, `IsBelow`); a server may list files in any order. `PutFile` and `GetFile` are one turn of the loops, with every
way a turn can end: a row of success, a row of failure, or the end of the call and of its rows.

### InsertCursor

`Write`, `EndCursor`, and `InsertRow` for each `exec` of the end. A failed `exec` may have been
carried out.

### Types, Values and Intervals

Functions of the code as operators on sequences of lexemes. `Types` has `parse_type_desc` and the
two `TryFrom`s, and, for the server, the name and the field it gives for a type (`ServerType`,
`ServerField`). `Values` has the cursor-based reader of nested JSON texts (`Read`), the scalars, the
Arrow arrays, and `RawText`; the server's side is `ServerCell` and `ServerArrow`. What a decoder hands to a
library (floats, dates, times, JSON documents) is one lexeme; times are instants around a clock
change and around both ends of what the library holds. The widths of `i32` and `i64` (`Width`,
`MicroWidth`) and the length of a second are parameters of `IntervalParts`, which has what of an
interval is arithmetic and no recursion; `Intervals` takes the second from the digits of a fraction
(`FractionDigits`, six in the code).

### Placeholders

`BuilderSends` and `OrmSends` are the text and the parameters each builder sends, with or without
`server_side_params`, a feature `Options` derives from the version learnt at login. Positions are
those of the lexemes, replaced from the end as the code does.

### Keys and Options

An option that is `None` is a name outside a record's domain. `Start` is `main`: `LoadConfig`,
`FromDsn` or `BaseArgs`, `Overridden`, `GetDsn`; `Connect` chooses the handler, `RestClient` and
`FlightClient` read the DSN; `Opened` is the login. A PEM file is a sequence of blocks.

### SqlParser, Repl and StatementRunner

A text is a sequence of lexemes; `Tokens` is what the client uses of the tokenizer, a crate outside
the repository. `ParseLine` is `parse_line` with the scan for an open comment and the scan for the
end of a statement, which are separate in the code. `Repl` is one run of the client. The statements
of a line wait in `queue`; `Begin`, `Answer`, `Display`, `Failure`, `Reconnect` are `handle_query`
and the arms of `handle_repl` around it, `reader` says whether `handle_reader` runs, of a file given
at the start or of `!source`; meanwhile the rest of the line that holds the `!source` waits in
`outer`. `CtrlC` may come at any time. A command may fail, a `!source` without its file too. A file
that is run again after a reconnect is read as further, arbitrary lines. `conn.last` is the
statement whose query `last_query_id` names: `Started` sets it when the start of a query is answered
without an error, which any statement may come to and only a `PUT` may go without (`Transfer`); 0 is
none, or a query of the session's own (its version, its keywords). It is a connection's, so a new
one forgets it. `killed` notes during which statement a kill was sent, of whose query, and whether
`Ctrl+C` had come while that statement ran. An error that says `Unauthenticated` reconnects wherever
in a statement it comes from (`Unauthenticated` of `Answer` and `Display`).

Of the lexemes, a word of `SlashG` ends with `\G` by itself, and `"backtick"` is the quote of a name.

`StatementRunner` has the order of statements only: which of those given is sent next, what follows
an error, of a first and of a second attempt, and when a statement or a file is tried again. How
lines are cut into statements and what a result is are not in it; `Forms` are the texts a
statement may be sent as, without its delimiter and its `\G`.

## 3. The runs

| Run | Bounds | What it shows |
|---|---|---|
| `sessions` | 2 sessions, 2 tasks and the loop | `BusyOrNotified`, `RegistryExact`, `LogoutWhenNeeded`, `ImplementsSessionService`; live: `RegisteredIsBeaten`, `ReleasedIsClosed`, `BackToIdle` |
| `retry` | 2 calls (of any of 5 kinds; an upload), `retry_count` 2, 2 issued token pairs, 2 rotations | `AttemptsBounded`, `NoEarlyGiveUp`, `NewestStored`, `CallsReturn` |
| `retry_unauthorized` | 1 query start, `retry_count` 2 | **violation**: finding 1 |
| `query_result` | 1 query, all 84 scripts of up to 3 pages, with and without `/final`, `node_id`, progress | `CompleteResult`, `ImplementsResultStream`, `PollingEnds`, `DroppedIsReleased`, `OverLeavesMap` |
| `query_pair` | 2 queries, two scripts | `DroppedIsFinalized`, `ReaderKeptAlive`, `NeverBack` |
| `query_exec` | 1 query, three scripts without rows at the end | **violation**: finding 2 |
| `query_dropped` | 1 query | **violation**: finding 3 |
| `session_state` | 1 change, 2 nodes, 3 hints, 1 statement with pages to come | `StickyGoesHome`, `StateIsCurrent`, `TxnKeepsRoute` |
| `driver` | see below | `LoadsOwnData`, `StagedFilesGo`, `TransfersReported`, `InsertedIsPrefix`, `FetchedInOrder`, `NoSilentLoss`, `EndIsComplete`, `FinalBeforeLast`, `TransportsAgree`, `IntervalsReadBack`, `ParamsBound`, `OptionsArrive` |
| `repl` | 3 lines of 16, 2 delimiters, 3 statements, 1 reconnect | `SplitIsStable`, `FileRuns`, `KillsInterrupted`, `StopsAtError`, `ImplementsStatementRunner` |
| `repl_set` | the same | **violation**: finding 4 |
| `keepalive` | 60 s timeout, 15 s interval, 14 s of delays, 1 tick per second | `NeverExpired` |

The run `driver` covers parts that share nothing; `part` says which of them a behaviour is about, so
that the state spaces add up and do not multiply:

| Part | Bounds |
|---|---|
| loads | 2 calls of every function, SQL and option, 3 readings of the clock, with and without streaming and presigning |
| files | 2 calls of `PUT` and `GET`; 4 local patterns, 3 locations, every subset of 5 stored files, both forms of a listing |
| insert | 4 rows |
| cursor | 2 statements, results of up to 3 pages of up to 2 rows in 3 formats, `fetchmany` of 0 to 3 |
| cells | every type of up to two levels and some of three, sequences of up to 2 items, both geometry formats and versions |
| intervals | months of 5 bits, days at the ends of 5 bits, micros around every carry and at the ends of 20 bits |
| params | statements of up to 3 lexemes, 6 parameter lists, both kinds of builder, servers before and after the version that binds |
| options | 12 DSNs, 36 option sets without one, 6 overriding options, 4 pairs of configuration files, 4 key files |

Why the bounds are enough. Two sessions and two tasks give every race the registry has: an insert
into an empty and into a filled map, two closers of one session, a closer and the loop, a session
that comes while another goes. With `retry_count` 2 there is a try before the last, a last one and
one too many, and every order of the four ways to send again; two token pairs and two rotations let a
credential become stale before and after the refresh, and the second call, which is an upload, makes the
answers of two refreshes arrive in either order. Three pages give a first page, one in the middle and a
last one, each of every kind; a page in the middle can be passed over after and before others. Two
queries show what a heartbeat's snapshot does to entries that change while it is out. Two nodes
tell the sticky one from another, one statement with pages is enough to bring an old state back, and
three hints are the initial one and one before and one after a transaction. Two statements show
what the first leaves to the second. Two loads are enough to share a file, and two `PUT`s to
overwrite one. The files have a base name in two directories, a path that another one's directory is a
prefix of, and a directory named like the stage. The scan for open comments and strings has no
memory beyond its mode, and three lines open, hide and close each of them. Statements and types are
cut at two or three levels where one more repeats the code's recursion. The carries of an interval
are those of seconds, minutes and hours whatever the widths.

Symmetry is used only in `query_pair`, where no liveness is checked. Deadlock is not checked where
the modelled part or a bound ends (calls return, queries are dropped, a result expires, hints,
statements and lines are used up, a function has been evaluated); `sessions` checks it: the loop
never stops.

**Named bounds**: `MaxIssued`, `MaxRotations` (RequestRetry); `RoundTicks`, `RequestTicks`,
`AnswerTicks` (KeepAlive); `MaxHints`, `MaxStreams` (SessionState); `MaxStatements` (Cursor);
`MaxTime` (Loading); `MaxJobs` (StageFiles); `MaxRows` (InsertCursor); `MaxLines`, `MaxSent`,
`MaxReconnects` (Repl). The proofs hold for every value of them. `KeyOrder` (Options) is the order a
`BTreeMap` gives the names of parameters.

### Fairness, and why the code justifies it

`KeepAlive`, `SessionState`, `Repl` and the modules of `MCDriver` state safety only and assume no fairness.

* `ClientManager`: the runtime polls the loop's task (weak fairness of `LoopStep`) and finishes a
  close that has begun (`CloseStep`: its requests are spawned, or awaited by the caller). The end of
  a heartbeat is **not** fair: `try_heartbeat` sets no timeout on its request, so
  `RegisteredIsBeaten` and `BackToIdle` assume `[]<>(beating = None)` and say so. Nothing is assumed
  of the program's tasks; an awaited close that the program cancels is outside the model.
* `RequestRetry`: an answer that arrived is read; a query start, a page and a refresh set a request
  timeout and therefore end. Heartbeats, uploads and loads do not.
* `QueryLifecycle`: `start_query`, `wait_for_schema` and `query_all` are loops that keep polling
  while they are awaited; a page request ends; a spawned final is sent; the server gives up result
  sets nobody keeps alive. Strong fairness of the heartbeat steps per query stands for "a query that
  nobody reads becomes due again and again, and now and then a heartbeat gets through". A program
  that holds a `query_iter` stream is *not* assumed to poll it.

## 4. The proofs

All invariants below hold for every value of the constants: any number of sessions, tasks, calls,
any `retry_count`, any times.

* **ClientManager_proofs**. `BusyOrNotified` and the others are not inductive. The invariant `IInv`
  adds, in named parts: every session has at most one closer, its flag is set and it has not been
  logged out yet (`ClosersOK`); a session in `register` is open, held by its task and not yet in the
  map (`OpeningOK`); nothing refers to a session that was never opened (`OpenedOK`); whoever lets the
  last reference go closes the session (`DroppedOK`); an open session is in the map or about to be
  (`OpenRegistered`), a closed one in the map is about to leave it (`ClosedLeaves`); only closed
  sessions are logged out, once, and the choice is that of `NeedLogout` (`LogoutsOK`,
  `LogoutChoice`); a stray heartbeat is one of a snapshot older than the close (`StrayOK`). From it follow
  `TypeCorrect`, `NeverIdleOverSessions`, `RegistryIsExact`, `AtMostOneLogout`, `LogoutIffNeeded`,
  `AtMostOneStrayBeat`, and the refinement `SessionsAreServed`: a step changes the phase of the
  session it is about and of no other (`OtherCloser`, `PhaseMoves`), because no two runners close the
  same one; who wins the flag makes a `Close` (`WinnerCloses`), who loses it a step that the server
  does not see; `StrayOK` gives the only heartbeat after the end, `ClosersOK` the only logout.
* **SessionState_proofs**. Before a step of a query may touch the hint, the copy of the session it
  carries still says what routing depends on: `CarriesRouting` keeps `"active"` and `"sticky"` of
  `sent` equal to the session's until the answer is stored, because local changes cannot touch them.
  `HintOK` says that a new hint never comes with an answer to a statement inside a transaction,
  `AnswerOK` and `KindOK` what an answer may hold at each stage; `HomeOK` and `SentHome` carry the
  home node through answers that are not stored yet, `TruthOK` relates the server's state to the
  answer on its way. From it follow `TypeCorrect`, `RouteIsKept` (an action property),
  `StatementsGoHome`, `ClientIsCurrent`.
* **RequestRetry_proofs**. The counters need a relation between `retries`, `tries` and where the
  call stands (a call in `wait` has made one more try than it has counted), and the tokens one
  between `stored`, `issued` and the refreshes on their way: without overlap at most one answer is
  out, and it is the newest. From it follow `TypeCorrect`, `RequestsAreBounded`, `RetriesAreUsedUp`,
  `NewestTokensStored`.
* **KeepAlive_proofs**. The invariant bounds `sinceServed` by `sinceAccess` and the age of answers,
  and, once the query is due, by the loop's next check; with `Margin` the sum stays below the
  timeout. `WholeSeconds` and `DueAtThreshold` are the lemmas about `\div`. From it follow
  `TypeCorrect` and `KeptAliveForever`.

* **QueryLifecycle_proofs**. The properties speak of what has been handed out and of what is dropped;
  the invariant adds how far the reading has come. `FreshOK` and `RequestOK` tie the page future to
  the state of the query, `OrderOK` says that the pages seen lie in order before the first unread
  one, `DeliveredOK` that every needed page before that one has been handed out or is held back as
  the first page, `ServedOK` that a stream without a next page is over at the server too, and
  `EntryOK` which entries the heartbeat map must and must not have, also while a heartbeat with an
  older snapshot is out. A step of one query leaves the facts of the others alone (`Frame`). From it
  follow `TypeCorrect`, `StreamsAreComplete`, `DropsFinalize`, `ReadersAreKeptAlive`,
  `EntriesNeverComeBack` (an action property), and `QueriesAreStreams`: under the refinement
  mapping each step is, for the query it is about, a `Deliver`, `Complete` or `Close` of
  `ResultStream`, or changes nothing of it.
* **Cursor_proofs**. Rows are in three places: with the program, collected by the running call, and in
  the stream. `RowsOK` says that, put one after another, they are rows of the current result in
  order, and without an error all of them; `CallOK` says which of these a call may have. What one
  poll does to that is stated and proved once for `Poll` and once for `PollFlight` (`StreamOK`,
  `Sound`, `Lossless`), and every call is a sequence of polls. From it follow `TypeCorrect`,
  `RowsComeInOrder`, `NoRowIsSkipped`, `EndsAreComplete`, `LastRowFinalizes`, for results with any
  number and size of pages and any arguments of `fetchmany`.
* **Driver_proofs**. *InsertCursor*: the table holds one row more than have been answered, or as
  many. *Loading*: the file of a call that did not get a name is named after the time it began, so
  two calls share a file only if they read one time (`Collides`); until the statement, the file a
  call has uploaded holds its data (`CallOK`). *StageFiles*: `PutOK` and `GetOK` say the report with
  the files still to come in it; what a GET has left are the files of the location, each once and
  each under the path it will be fetched from. That every location, file name and listed name means
  the path it should is a set of facts about sequences (`FileIs`, `StoredAt`, `BaseIs`, `ListedIs`);
  `LeastExists` stands in for induction. That all files of a listing are looked at, in whatever
  order the server lists them, is the pigeonhole principle (`SequenceHasAll`). From it follow
  `InsertsAreAPrefix`, `CallsLoadTheirOwn`, `StageIsCleanedUp`, `TransfersAreReported`.
  *IntervalParts*: what is packed is unpacked (`PartsComeBack`), the time of day a text shows is in
  range and worth its micros (`ClockComesBack`), and years and months add up to the months they were
  made from, through sums that fit (`MonthsComeBack`). The first holds for even widths, which those of
  `i32` and `i64` are, the second for a second of any length, the third for any width. The first rests on
  `QuotientUnique`: between two multiples of a number there is room for less than it.
* **Repl_proofs**. What the splitter cuts does not matter here: `queue` and `query` may hold anything.
  `RunningOK` says that the statement being run is the last one sent, on the connection the client
  has, that an interrupt noted while it runs is one that came while it ran, and that `last_query_id`
  is its own while it is displayed, unless it is a `PUT`; `ConnOK`, that `last_query_id` is always of a
  statement sent on that connection, or of none; `ErrorOK`, that after a
  failed statement nothing is sent that was read before the failure: nothing is pending of its line,
  and every later statement began on a later line. From it follow `TypeCorrect`,
  `OnlyInterruptedAreKilled`, `NothingAfterAnError`. For the refinement `StatementsRunInOrder`,
  `RunnerOK` adds what ties a second attempt to the first: between two lines nothing waits but, under
  a `!source`, the rest of its line; a reconnect comes after a first attempt and outside a file; and
  the text sent last is that of the statement typed, which is therefore what is sent again.

The type invariants are proved and not part of the runs; nor are `LogoutOnce` and `OneStrayBeat`, which
`SessionService` contains.

What is assumed of the constants is named in each module. `LoadingAssumption`: the name a call gives a
file is not the word for none. `CursorAssumption`: the pages of a result go on where the one before
ended. `StageFilesAssumption`: base names have no slash (a glob's file names), and paths do not begin
with one, in the stage and in the locations (`@s//d` is left out, which the server would read as
another path than the client). `KeepAlive.Margin` is explained in section 2. The others are types.

**Only model-checked**: all liveness properties (`RegisteredIsBeaten`, `ReleasedIsClosed`, `BackToIdle`,
`CallsReturn`, `PollingEnds`, `DroppedIsReleased`, `OverLeavesMap`), because fairness is beyond the prover; `SplitIsStable` and
`FileRuns`, which compare two runs of the splitter over a text; `TransportsAgree`,
`IntervalsReadBack`, `ParamsBound` and `OptionsArrive`, which say what functions compute. `Types`, `Values`,
the texts of `Intervals`, `Placeholders` and the splitter are recursion over data, which the prover
has no induction for; they are checked on bounded inputs. Of `IntervalsReadBack` the arithmetic is
proved; that digits and words are read as they were printed is checked.

## 5. What the model found

1. **A retry after a token refresh is not authorized** (`retry_unauthorized`, `core/src/client.rs:1359`).
   The helper removes the `Authorization` header when it meets the 401, refreshes, and sends the same
   request without a header. Callers see a 401 after a successful refresh.
2. **`exec` reports the progress of the first page** (`query_exec`, `core/src/pages.rs:167`). Pages
   without `data` are dropped by `query_all`, with their statistics and, in an arrow session, with
   their rows.
3. **A result dropped after a failed page request is kept alive** (`query_dropped`,
   `core/src/pages.rs:177`). `next_uri` is cleared, so `Drop` does not finalize; the entry stays in
   the map and the session's heartbeats protect it.
4. **`!set` does not reach the splitter** (`repl_set`, `cli/src/session.rs:176`). The splitter is made
   from the settings of the start, so `!set sql_delimiter` and `!set multi_line` have no effect on
   where a statement ends, which the settings table of `README.md` promises ("in runtime", line 218).

Observations without a run, by component. Properties that hold only with an exception name it in
their definition.

*Heartbeats, requests, sessions.* With the default interval of 15 s a result timeout up to about 32 s
leaves no margin, and at the default of 60 s one lost heartbeat uses it up (`KeepAlive.Margin`); a
program that leaves its page future unpolled makes `last_access_time` younger than the server's
clock; one heartbeat request that hangs stops those of every session; of two refreshes that overlap
the older answer may be stored last; a heartbeat alone does not refresh an expired token. The second look at the registry before the
loop's long sleep (`core/src/client_mgr.rs:65`) changes nothing, since `Notify` stores a permit. A
page of an older statement carries that statement's session and brings it back (`lapses`, "stale").
A streaming load sends no sticky node. An `UNSET` of the warehouse does not clear its header. A login that answers 404, and
`login=disable`, open a client without session id, tokens, version and features.

*Row streams and the cursor.* After an error a row stream still yields the row it held back. A batch
of a flight that fails to convert is lost as a whole and the stream goes on. The cursor of the Python
bindings, which "follows PEP 249" (`bindings/python/src/blocking.rs:249`), runs `executemany` after
`close`, answers a fetch after `close` with no rows instead of an error, returns a row for
`fetchmany(0)` while its first row is buffered, and loses the rows a `fetchmany` has collected when
it meets an error.

*Loads.* `load_data` by stage with a streaming server never removes its staged file. It finds the
placeholder in any case but replaces it in lower case only. `stream_load` appends its clause after a
semicolon. Two equal readings of the clock give two loads one file.

*PUT and GET.* `PUT` does not look for equal base names as `GET` does: the later file overwrites the
earlier, and both rows say SUCCESS. A file that cannot be opened ends a `PUT` and loses the rows of the
files before it. `GET @s/d` also fetches below `d2/`. A listing without the stage's name is misread
below a directory named like the stage.

*Bound queries.* A `$N` after a `?` whose value has another length is replaced at the wrong place
(`Shifted`). With parameters bound by the driver a text that does not tokenize panics
(`placeholder.rs`, an `unwrap`). `QueryBuilder::one` returns after the first row while `query_row` reads all.

*Values.* The NULL of a nullable empty array decodes as an empty array over Arrow; a nested empty map
decodes as an empty array over JSON; strings with `"` or `\` inside a nested value do not read back from a raw
row, where the NULL of a nullable string reads as the string `NULL`; the second instant of a
local time at a clock change decodes as the first; instants beyond jiff's range are clamped over Arrow
and an error over JSON; `Nullable(T NULL)` reads as two levels of Nullable (`Tells` lists those of
cells). The least `i64` of micros cannot be printed; `1:00:00 ago` loses its micros; errors of `apply_specifier`
are discarded.

*Options.* `--set` is ignored with `--dsn`, though its help says it overrides the DSN (the client warns). User and
database are percent-encoded in the URL and only the password is decoded, so a user `a b` logs in as
`a%20b`; a password without a user is dropped. Flight SQL ignores `--role` and session settings. A
`lake+grpc` DSN is Flight SQL to the driver and REST to the command line client, whose sorted query makes
`access_token_file` win over `access_token` in any order. A PKCS#1 key is taken before a SEC1 and a
PKCS#8 key wherever they stand in a file.

*Command line.* Blank lines inside a string that spans lines are dropped. A quote escaped by a backslash
makes the two scans of a statement disagree (`Plain` in `SplitIsStable`). `!source` closes the prompt's
connection at its end; an authentication error inside it reads the file again from the start; `\G` in
it is sent to the server. A retried statement's error does not stop the rest of its line. Ctrl+C
between two statements of a line is lost. `last_query_id` is not reset by a statement that starts no
query, as a `PUT` without presigned URLs or without a file that matches: `Ctrl+C` while its result is
displayed kills the query of a statement before it (`cli/src/session.rs:354`), which is over; on a new
connection that is one of the session's own. `--query-id` prints that earlier ID after such a `PUT`,
though `cli/README.md:104` promises the ID of every statement. An error of the display that says
`Unauthenticated` reconnects and sends again a statement that was executed. When the reconnect fails, the rest of
the line runs all the same. `!exit;` is an unknown command, as commands keep their delimiter. Flight SQL
has no last query ID, so its `Ctrl+C` kills nothing. The temporary file of a load from the standard
input stays after an error.

## 6. The plan

Done: every module of section 2 and the proofs of section 4. Next, in this order:

1. The overriding of options in `Options`, for any options and files: which of option, file and DSN a
   client gets. It needs the records of the module built without `@@`, which the prover does not know,
   as `StageFiles` builds its files.
2. The inductive part of `SplitIsStable` that needs no recursion: a text without open comment or string
   leaves the splitter in its initial mode.

**Not modelled**, and why: derive macros and plain data types (no control); signing and DER
(cryptography); TLS, cookies and the handshake of a flight (inside reqwest, or calls in a row under one
lock); the layout of tables, colours, completion and history of the command line (formatting, and
state nobody reads back); the generator of test data; the conversions of `convert.rs` and of the
bindings to types of the program (one cast each); the asynchronous and the Node.js bindings, which
forward calls. Overlapping requests of one session are outside `SessionState` (section 2) and the
header of the warehouse outside all. `PROJECT.json` lists every component with its status.
