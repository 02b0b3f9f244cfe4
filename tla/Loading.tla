------------------------------- MODULE Loading -------------------------------
(***************************************************************************)
(* load_data, load_file, load_file_with_options and stream_load of          *)
(* driver/src/rest_api.rs, with the uploads and statements of              *)
(* core/src/client.rs they make.  Several calls of one user run at once;   *)
(* they share the user's stage, where each writes a file named after the   *)
(* clock.                                                                  *)
(*                                                                         *)
(* The SQL of a call is reduced to where its semicolon is and to how it    *)
(* names the data: by the placeholder @_databend_load, in the case the     *)
(* code spells it ("lower") or in another ("upper"), or not at all.        *)
(***************************************************************************)
EXTENDS Integers, Sequences

CONSTANTS
  Calls,   \* calls of load functions; the data of a call is the call itself
  MaxTime  \* bound: the last reading of the clock

ASSUME LoadingAssumption == MaxTime \in Nat /\ "none" \notin Calls

VARIABLES
  streaming,  \* the server's capability streaming_load
  presign,    \* PresignMode is On; Auto and Detect are settled by the login
  now,        \* the clock, in nanoseconds
  call,       \* the calls
  stage,      \* the user's stage: what is at @~/client/load/<n>
  loaded,     \* history: what the statement of a call has put into the table
  faulted     \* history: the calls that met a failing request or file

loadVars == <<streaming, presign, now, call, stage, loaded, faulted>>

None == "none"
SQL == [semicolon : {"none", "end", "inside"}, place : {"none", "lower", "upper"}]
NoSQL == [semicolon |-> "none", place |-> "none"]

\* A call: its function, the time it began, how its data goes to the server, with which
\* SQL and copy option, the file it uploads, and what comes of it.
Idle ==
  [pc |-> "idle", fn |-> "none", at |-> 0, route |-> "none", sql |-> NoSQL, purge |-> FALSE,
   location |-> 0, result |-> "none"]

LoadInit ==
  /\ streaming \in BOOLEAN /\ presign \in BOOLEAN
  /\ now = 0
  /\ call = [c \in Calls |-> Idle]
  /\ stage = [n \in 0 .. MaxTime |-> None]
  /\ loaded = [c \in Calls |-> <<>>]
  /\ faulted = {}

-----------------------------------------------------------------------------
\* How a call is carried out

Refused == [Idle EXCEPT !.pc = "done", !.at = now, !.result = "error"]

\* A temporary name in the user's stage.  Mutant: with a coarser clock.
LocationCoarse == now - (now % 2)
Location == now

\* Upload a file, then let a statement load it: by name ("named"), or as its stage
\* attachment ("attached"), with the copy option purge.
ByStage(route, sql, purge) ==
  [Idle EXCEPT !.pc = IF presign THEN "presign" ELSE "upload", !.at = now, !.route = route,
               !.sql = sql, !.purge = purge, !.location = Location]

\* load_data_with_options; the default copy options purge.  Mutant: they do not.
DefaultKeeps == FALSE
DefaultPurge == TRUE
WithOptions(sql, purge) == ByStage("attached", sql, purge)

\* " from @_databend_load file_format=(type=csv)" goes after the SQL, and after its
\* semicolon.
WithClause(sql) ==
  [semicolon |-> IF sql.semicolon = "none" THEN "none" ELSE "inside", place |-> "lower"]

\* trim_end_matches(';').
Trimmed(sql) == [sql EXCEPT !.semicolon = IF @ = "end" THEN "none" ELSE @]

\* load_data: the placeholder is looked for in any case.
LoadData(given, method) ==
  LET sql == Trimmed(given)
      full == IF sql.place = "none" THEN WithClause(sql) ELSE sql
  IN CASE ~streaming /\ sql.place = "none" -> WithOptions(sql, DefaultPurge)
       [] ~streaming /\ sql.place # "none" -> Refused
       [] streaming /\ method = "Stage" -> ByStage("named", full, FALSE)
       [] streaming /\ method = "Streaming" ->
            [Idle EXCEPT !.pc = "stream", !.at = now, !.route = "streamed", !.sql = full]

\* stream_load does not trim before it adds the clause.
StreamLoad(given, method) ==
  IF streaming THEN LoadData(WithClause(given), method) ELSE WithOptions(given, DefaultPurge)

Start(c, fn, how) == call' = [call EXCEPT ![c] = [how EXCEPT !.fn = fn]] /\ UNCHANGED faulted

\* A call starts, with any SQL and method; load_file and load_file_with_options
\* open a file first, which may fail.
Begin(c) ==
  /\ call[c].pc = "idle"
  /\ \E sql \in SQL, method \in {"Stage", "Streaming"}, purge \in BOOLEAN :
       /\ sql.semicolon # "inside"
       /\ \/ Start(c, "load_data", LoadData(sql, method))
          \/ sql.place = "none" /\ Start(c, "with_options", WithOptions(sql, purge))
          \/ sql.place = "none" /\ Start(c, "stream_load", StreamLoad(sql, method))
  /\ UNCHANGED <<streaming, presign, now, stage, loaded>>

OpenFails(c) ==
  /\ call[c].pc = "idle"
  /\ call' = [call EXCEPT ![c] = [Refused EXCEPT !.fn = "load_file"]]
  /\ faulted' = faulted \cup {c}
  /\ UNCHANGED <<streaming, presign, now, stage, loaded>>

Tick ==
  /\ now < MaxTime /\ now' = now + 1
  /\ UNCHANGED <<streaming, presign, call, stage, loaded, faulted>>

-----------------------------------------------------------------------------
\* Requests.  Any of them may fail; one that fails may have been carried out.

Outcomes == {o \in [done : BOOLEAN, answered : BOOLEAN] : o.done \/ ~o.answered}

\* PRESIGN UPLOAD, and the checks of its answer and URL.
Presign(c) ==
  /\ call[c].pc = "presign"
  /\ \E ok \in BOOLEAN :
       /\ call' = IF ok THEN [call EXCEPT ![c].pc = "upload"]
                  ELSE [call EXCEPT ![c].pc = "done", ![c].result = "error"]
       /\ faulted' = IF ok THEN faulted ELSE faulted \cup {c}
  /\ UNCHANGED <<streaming, presign, now, stage, loaded>>

\* The file, by PUT to the presigned URL or by v1/upload_to_stage; it replaces one of
\* the same name.
Upload(c) ==
  /\ call[c].pc = "upload"
  /\ \E o \in Outcomes :
       /\ stage' = IF o.done THEN [stage EXCEPT ![call[c].location] = c] ELSE stage
       /\ call' = IF o.answered THEN [call EXCEPT ![c].pc = "statement"]
                  ELSE [call EXCEPT ![c].pc = "done", ![c].result = "error"]
       /\ faulted' = IF o.answered THEN faulted ELSE faulted \cup {c}
  /\ UNCHANGED <<streaming, presign, now, loaded>>

\* What the server makes of the statement: it runs one statement only, loads the
\* file it names or has attached, and knows the placeholder only in a stream.
\* sql.replace finds the placeholder in lower case only.
Runs(q) ==
  /\ q.sql.semicolon # "inside"
  /\ CASE q.route = "named" -> q.sql.place = "lower"
       [] q.route = "attached" -> TRUE
       [] q.route = "streamed" -> TRUE

Finish(c, ok) == call' = [call EXCEPT ![c].pc = "done", ![c].result = IF ok THEN "ok" ELSE "error"]

\* The statement over the staged file.
Statement(c) ==
  /\ call[c].pc = "statement"
  /\ LET q == call[c]
         file == stage[q.location]
     IN \E o \in Outcomes :
          /\ loaded' = IF o.done /\ Runs(q) /\ file # None
                       THEN [loaded EXCEPT ![c] = Append(@, file)] ELSE loaded
          /\ stage' = IF o.done /\ Runs(q) /\ q.route = "attached" /\ q.purge
                      THEN [stage EXCEPT ![q.location] = None] ELSE stage
          /\ Finish(c, o.answered /\ Runs(q) /\ file # None)
          /\ faulted' = IF o.answered THEN faulted ELSE faulted \cup {c}
  /\ UNCHANGED <<streaming, presign, now>>

\* v1/streaming_load: statement and data in one request.
Stream(c) ==
  /\ call[c].pc = "stream"
  /\ \E o \in Outcomes :
       /\ loaded' = IF o.done /\ Runs(call[c]) THEN [loaded EXCEPT ![c] = Append(@, c)] ELSE loaded
       /\ Finish(c, o.answered /\ Runs(call[c]))
       /\ faulted' = IF o.answered THEN faulted ELSE faulted \cup {c}
  /\ UNCHANGED <<streaming, presign, now, stage>>

LoadNext ==
  \/ Tick
  \/ \E c \in Calls : Begin(c) \/ OpenFails(c) \/ Presign(c) \/ Upload(c) \/ Statement(c) \/ Stream(c)

LoadSpec == LoadInit /\ [][LoadNext]_loadVars

-----------------------------------------------------------------------------
\* Properties

Staged(c) == call[c].pc # "idle" /\ call[c].route \in {"named", "attached"}

\* Two calls read the same nanosecond from the clock.
Collides(c) ==
  /\ Staged(c)
  /\ \E d \in Calls \ {c} : Staged(d) /\ call[d].at = call[c].at

\* The statement of a call loads the data of that call and no other, at most once,
\* and has loaded it when the call succeeds.
OwnDataOnly ==
  \A c \in Calls : ~Collides(c) =>
    /\ loaded[c] \in {<<>>, <<c>>}
    /\ call[c].pc = "done" /\ call[c].result = "ok" => loaded[c] = <<c>>

\* A call whose requests all go through fails only for what it was given: a
\* placeholder for a server that has none, one in another case by way of the stage,
\* or stream_load with a semicolon.  load_data takes one.
CleanCallSucceeds ==
  \A c \in Calls :
    call[c].pc = "done" /\ call[c].result = "error" /\ c \notin faulted /\ ~Collides(c) =>
      \/ ~streaming /\ call[c].fn = "load_data" /\ call[c].route = "none"
      \/ streaming /\ call[c].fn = "load_data" /\ call[c].route = "named"
         /\ call[c].sql.place = "upper"
      \/ streaming /\ call[c].fn = "stream_load" /\ call[c].sql.semicolon = "inside"

\* Of the calls of a user that interleave in the stage they share, each loads its own
\* data and fails for its own reasons: only a reading of the clock that two calls have
\* in common mixes them up.
LoadsOwnData == OwnDataOnly /\ CleanCallSucceeds

\* What stays in the user's stage is of a call that still runs or has failed, or the
\* caller's options keep it; load_data by stage with a placeholder, however, never
\* removes what it uploads.
StagedFilesGo ==
  \A n \in DOMAIN stage : stage[n] # None =>
    LET q == call[stage[n]]
    IN \/ q.result # "ok"
       \/ q.route = "named"
       \/ q.fn = "with_options" /\ ~q.purge

=============================================================================
