--------------------------------- MODULE Repl ---------------------------------
(***************************************************************************)
(* Session of cli/src/session.rs: handle_repl, handle_reader, handle_query *)
(* and handle_commands over the splitter of SqlParser.  A behaviour is one *)
(* run of the client, interactive or over a file.                          *)
(***************************************************************************)
EXTENDS SqlParser, TLC

CONSTANTS
  Lines,         \* lines that may be read: sequences of lexemes
  Delimiters,    \* values of the setting sql_delimiter
  MaxLines,      \* bound: lines read
  MaxSent,       \* bound: statements sent
  MaxReconnects  \* bound: connections made after the first

ASSUME ReplAssumption == MaxLines \in Nat /\ MaxSent \in Nat /\ MaxReconnects \in Nat

VARIABLES
  repl,        \* is_repl
  settings,    \* the settings delimiter and multi, which !set changes
  parser,      \* sql_parser
  query,       \* Session::query, the buffer of the splitter
  reader,      \* handle_reader, of !source or of the whole run: "none", at "lines", at the "end"
  pc,          \* "read", "next", "request", "display", "reconnect", "stopped"
  queue,       \* the statements of the line not yet done
  outer,       \* while a file is read, those of the line that has the !source
  raw,         \* the statement that runs; the !source line while a file is read
  retried,     \* the statement runs for the second time
  interrupted, \* the flag the Ctrl+C handler sets
  conn         \* the connection: its number, that it is closed, and `last`, for last_query_id
               \* the statement of that query; 0: none, or a query of the session's own

VARIABLES      \* histories
  lines,       \* lines read
  start,       \* the line at which the text in the buffer began
  text,        \* the lines since then; of a run over a file, all of them
  emitted,     \* the statements found in them
  sent,        \* the statements sent: [sql, start, line, conn, result, soft]
  broken,      \* Ctrl+C came during the statement that runs, or ran last
  killed       \* the kills: [by, of, broken], during which statement and whose query

readVars == <<lines, start, text, emitted>>
runVars == <<queue, outer, raw, retried>>
vars == <<repl, settings, parser, query, reader, pc, runVars, interrupted, conn, readVars,
          sent, broken, killed>>

NewConnection(id) == [id |-> id, closed |-> FALSE, last |-> 0]

Init ==
  /\ repl \in BOOLEAN
  /\ settings \in [delimiter : {";"}, multi : BOOLEAN]
  /\ parser = NewParser(settings.delimiter, settings.multi, repl)
  /\ query = <<>> /\ pc = "read"
  /\ reader = IF repl THEN "none" ELSE "lines"
  /\ queue = <<>> /\ outer = <<>> /\ raw = <<>> /\ retried = FALSE /\ interrupted = FALSE
  /\ conn = NewConnection(1)
  /\ lines = 0 /\ start = 0 /\ text = <<>> /\ emitted = <<>>
  /\ sent = <<>> /\ broken = FALSE /\ killed = {}

Reading == reader # "none"
Interactive == repl /\ ~Reading

-----------------------------------------------------------------------------
\* Input

ReadLine ==
  /\ pc = "read" /\ lines < MaxLines
  /\ \E line \in Lines :
       LET parsed == ParseLine(parser, line, query)
           fresh == query = <<>>
       IN /\ queue' = parsed.statements /\ query' = parsed.remaining
          /\ start' = IF fresh THEN lines + 1 ELSE start
          /\ text' = IF (fresh /\ repl) \/ text = <<>> THEN line
                     ELSE IF line = <<>> THEN text ELSE text \o <<"nl">> \o line
          /\ emitted' = (IF fresh /\ repl THEN <<>> ELSE emitted) \o parsed.statements
  /\ lines' = lines + 1
  /\ pc' = "next"
  /\ UNCHANGED <<repl, settings, parser, reader, outer, raw, retried, interrupted, conn, sent,
                 broken, killed>>

\* Ctrl+C at the prompt.
AbandonLine ==
  /\ pc = "read" /\ Interactive /\ query # <<>>
  /\ query' = <<>>
  /\ UNCHANGED <<repl, settings, parser, reader, pc, runVars, interrupted, conn, readVars, sent,
                 broken, killed>>

\* The end of the input: of a prompt the session's, of a reader what is left in the
\* buffer and then the connection's, which is also the prompt's.
\* Mutant: what is left is dropped.
LeftoverDropped == <<>>
Leftover == Trim(query)
EndOfInput ==
  /\ pc = "read"
  /\ IF Reading
     THEN /\ reader' = "end" /\ pc' = "next" /\ UNCHANGED conn
          /\ IF Leftover = <<>> THEN UNCHANGED <<queue, query>>
             ELSE queue' = <<Leftover>> /\ query' = <<>>
     ELSE /\ pc' = "stopped" /\ conn' = [conn EXCEPT !.closed = TRUE]
          /\ UNCHANGED <<reader, queue, query>>
  /\ UNCHANGED <<repl, settings, parser, outer, raw, retried, interrupted, readVars, sent,
                 broken, killed>>

EndReader ==
  /\ pc = "next" /\ queue = <<>> /\ reader = "end"
  /\ conn' = [conn EXCEPT !.closed = TRUE]
  /\ reader' = "none" /\ queue' = outer /\ outer' = <<>> /\ retried' = FALSE
  /\ pc' = IF repl THEN "next" ELSE "stopped"
  /\ UNCHANGED <<repl, settings, parser, query, raw, interrupted, readVars, sent, broken, killed>>

-----------------------------------------------------------------------------
\* Statements

\* handle_query forgets an interrupt that came before.  Mutant: it does not.
FlagKept == interrupted' = interrupted
ForgetInterrupt == interrupted' = FALSE

Strip(sql, delimiter) == Trim(TrimEndMatches(sql, delimiter))
Stripped(sql) == Strip(sql, settings.delimiter)

\* \G asks for the expanded display, of what is typed.
Collapsed(sql) ==
  IF Len(sql) >= 2 /\ SubSeq(sql, Len(sql) - 1, Len(sql)) = <<"\\", "G">>
  THEN SubSeq(sql, 1, Len(sql) - 2) ELSE sql
Bare(sql) == IF Reading THEN sql ELSE Collapsed(sql)

\* The line has no further statement.
LineDone ==
  /\ pc = "next" /\ queue = <<>> /\ reader # "end"
  /\ pc' = "read"
  /\ UNCHANGED <<repl, settings, parser, query, reader, runVars, interrupted, conn, readVars, sent,
                 broken, killed>>

Send(sql, id, again) ==
  /\ Len(sent) < MaxSent
  /\ sent' = Append(sent, [sql |-> Bare(Stripped(sql)), start |-> start, line |-> lines,
                           conn |-> id, result |-> "none",
                           soft |-> again \/ retried])
  /\ conn' = IF id = conn.id THEN conn ELSE NewConnection(id)
  /\ ForgetInterrupt /\ broken' = FALSE
  /\ pc' = "request"

\* !exit is compared with what was typed, exit with what would be sent.
IsExit(sql) == sql = <<"!exit">> \/ Stripped(sql) = <<"exit">>

Begin ==
  /\ pc = "next" /\ queue # <<>>
  /\ Reading \/ (Head(queue)[1] \notin Bang /\ ~IsExit(Head(queue)))
  /\ Send(Head(queue), conn.id, FALSE)
  /\ raw' = (IF Reading THEN raw ELSE Head(queue)) /\ queue' = Tail(queue)
  /\ UNCHANGED <<repl, settings, parser, query, reader, outer, retried, readVars, killed>>

Leave ==
  /\ pc = "next" /\ queue # <<>> /\ ~Reading /\ IsExit(Head(queue))
  /\ ForgetInterrupt
  /\ conn' = [conn EXCEPT !.closed = TRUE]
  /\ pc' = "stopped"
  /\ UNCHANGED <<repl, settings, parser, query, reader, runVars, readVars, sent, broken, killed>>

\* !set: the settings, and only they.
Set ==
  /\ \E d \in Delimiters, multi \in BOOLEAN : settings' = [delimiter |-> d, multi |-> multi]
  /\ UNCHANGED parser

\* A command; one that fails, as a !source without its file or one that is unknown,
\* drops the line.
Command ==
  /\ pc = "next" /\ queue # <<>> /\ ~Reading
  /\ Head(queue)[1] \in Bang /\ ~IsExit(Head(queue))
  /\ ForgetInterrupt
  /\ \/ /\ Head(queue)[1] \in {"!set", "!other"}
        /\ IF Head(queue)[1] = "!set" THEN Set ELSE UNCHANGED <<settings, parser>>
        /\ queue' = Tail(queue) /\ UNCHANGED query
     \/ /\ queue' = <<>> /\ query' = <<>> /\ UNCHANGED <<settings, parser>>
  /\ UNCHANGED <<repl, reader, pc, outer, raw, retried, conn, readVars, sent, broken, killed>>

\* The file is read while the rest of the line waits.  Mutant: the rest is lost.
SourceForgets(sql, rest, again) ==
  /\ reader' = "lines" /\ queue' = <<>> /\ outer' = <<>> /\ raw' = sql /\ retried' = again
  /\ ForgetInterrupt
  /\ pc' = "read"
Source(sql, rest, again) ==
  /\ reader' = "lines" /\ queue' = <<>> /\ outer' = rest /\ raw' = sql /\ retried' = again
  /\ ForgetInterrupt
  /\ pc' = "read"

BeginSource ==
  /\ pc = "next" /\ queue # <<>> /\ ~Reading /\ Head(queue)[1] = "!source"
  /\ Source(Head(queue), Tail(queue), FALSE)
  /\ UNCHANGED <<repl, settings, parser, query, conn, readVars, sent, broken, killed>>

\* The handler runs at any time; at the prompt the key is read as input.
CtrlC ==
  /\ repl /\ pc \in {"next", "request", "display"} /\ ~interrupted
  /\ interrupted' = TRUE
  /\ broken' = (broken \/ pc # "next")
  /\ UNCHANGED <<repl, settings, parser, query, reader, pc, runVars, conn, readVars, sent,
                 killed>>

-----------------------------------------------------------------------------
\* Results

Result(r) == sent' = [sent EXCEPT ![Len(sent)].result = r]

\* The lines of a file are left: those of the !source go on.
LeaveReader == reader' = "none" /\ outer' = <<>> /\ queue' = IF Reading THEN outer ELSE queue

\* What follows an error.  An interactive session drops the buffer and the rest of the
\* line, and kills the query if the error is the interrupt; a retried statement's error
\* is only printed; a run over a file ends.
\* Mutant: the buffer stays.
DropLineOnly == queue' = <<>> /\ UNCHANGED query
DropLine == queue' = <<>> /\ query' = <<>>
Failure(isInterrupt) ==
  IF ~repl THEN pc' = "stopped" /\ UNCHANGED <<queue, outer, query, reader, killed, retried>>
  ELSE /\ pc' = "next" /\ retried' = FALSE
       /\ IF retried THEN LeaveReader /\ UNCHANGED <<query, killed>>
          ELSE /\ DropLine /\ reader' = "none" /\ outer' = <<>>
               /\ killed' = IF isInterrupt
                             THEN killed \cup {[by |-> Len(sent), of |-> conn.last, broken |-> broken]}
                             ELSE killed

\* An error that says Unauthenticated, in the answer or in the display, makes an
\* interactive session connect again, unless it just did.
Unauthenticated ==
  /\ Result("unauthenticated")
  /\ IF ~repl \/ retried THEN Failure(FALSE)
     ELSE pc' = "reconnect" /\ LeaveReader /\ UNCHANGED <<query, killed, retried>>

\* put_files uploads with queries of its own or, without presigned URLs, with none.
Transfer(sql) == sql # <<>> /\ sql[1] = "PUT"

\* handle_page: last_query_id is that of the last query whose start was answered without
\* an error; the statement itself may still fail.
Started(yes, closes) ==
  conn' = [conn EXCEPT !.last = IF yes THEN Len(sent) ELSE @, !.closed = @ \/ closes]

\* The server's answer.  A change of the user's own password ends the session.
Answer ==
  /\ pc = "request"
  /\ \E yes \in BOOLEAN :
       \/ /\ Result("ok") /\ (yes \/ Transfer(sent[Len(sent)].sql))
          /\ LET password == sent[Len(sent)].sql = <<"ALTER USER">>
                 leaves == password /\ Interactive /\ ~retried
             IN /\ pc' = IF leaves THEN "stopped" ELSE IF password THEN "next" ELSE "display"
                /\ Started(yes, leaves)
                /\ retried' = (retried /\ (Reading \/ ~password))
          /\ UNCHANGED <<queue, outer, query, reader, killed>>
       \/ Result("error") /\ Failure(FALSE) /\ Started(yes, FALSE)
       \/ Unauthenticated /\ Started(yes, FALSE)
  /\ UNCHANGED <<repl, settings, parser, raw, interrupted, readVars, broken>>

\* The result is displayed; the flag is looked at after each item of it.
Display ==
  /\ pc = "display"
  /\ \/ interrupted /\ Failure(TRUE) /\ Result("interrupted")
     \/ Failure(FALSE) /\ Result("error")
     \/ Unauthenticated
     \/ /\ pc' = "next" /\ retried' = (retried /\ Reading)
        /\ UNCHANGED <<queue, outer, query, reader, killed, sent>>
  /\ UNCHANGED <<repl, settings, parser, raw, interrupted, conn, readVars, broken>>

\* reconnect, and the same statement once more; a file from its start.
Reconnect ==
  /\ pc = "reconnect"
  /\ \/ pc' = "next" /\ UNCHANGED <<runVars, reader, interrupted, conn, sent, broken>>
     \/ /\ conn.id <= MaxReconnects
        /\ IF raw[1] = "!source"
           THEN /\ Source(raw, queue, TRUE) /\ UNCHANGED <<sent, broken>>
                /\ conn' = NewConnection(conn.id + 1)
           ELSE /\ Send(raw, conn.id + 1, TRUE) /\ retried' = TRUE
                /\ UNCHANGED <<queue, outer, reader, raw>>
  /\ UNCHANGED <<repl, settings, parser, query, readVars, killed>>

Next ==
  \/ ReadLine \/ AbandonLine \/ EndOfInput \/ EndReader
  \/ LineDone \/ Begin \/ Leave \/ Command \/ BeginSource \/ CtrlC
  \/ Answer \/ Display \/ Reconnect

Spec == Init /\ [][Next]_vars

-----------------------------------------------------------------------------
\* Properties

Plain == \A i \in DOMAIN text : text[i] \notin Bang \cup {"PUT", "exit", "\\"}

\* parse_line: the statements found line by line are those of the whole text, wherever
\* strings and comments begin and end; a comment still open is taken to end with the
\* text.  (A backslash makes the two scans of the text disagree.)
SplitIsStable ==
  (pc = "next" /\ parser.multi /\ Plain) =>
     emitted = Statements(parser, text \o <<"nl", "*/">>).statements

\* handle_reader: a run over a file without an error has sent the statements of the
\* whole text, the last one's delimiter being optional, each once and in order.
FileRuns ==
  (~repl /\ pc = "stopped" /\ parser.multi /\ Plain /\ \A i \in DOMAIN sent : sent[i].result = "ok") =>
     LET whole == ParseStatements(parser, text)
         rest == Trim(whole.remaining)
         all == whole.statements \o (IF rest = <<>> THEN <<>> ELSE <<rest>>)
     IN /\ Len(sent) = Len(all)
        /\ \A i \in DOMAIN sent : sent[i].sql = Stripped(all[i])

\* handle_repl, handle_query: only a statement during which Ctrl+C came makes the session
\* kill, an interrupt from before it being forgotten, and what is killed is its own query.
\* A PUT may have none: last_query_id is then an earlier one's of the same connection, or one
\* of the session's own, which is over.
KillsInterrupted ==
  \A k \in killed :
     /\ k.broken
     /\ k.of # k.by =>
          /\ Transfer(sent[k.by].sql) /\ k.of < k.by
          /\ k.of # 0 => sent[k.of].conn = sent[k.by].conn

\* handle_repl: after an error the session runs nothing it was given before; a
\* statement's second attempt, whose error is only printed, is the exception.
StopsAtError ==
  \A i, j \in DOMAIN sent :
     (i < j /\ sent[i].result \in {"error", "interrupted"} /\ ~sent[i].soft) =>
        repl /\ sent[j].start > sent[i].line

\* handle_repl, handle_reader, handle_query: whatever the splitter finds, the statements are
\* run as StatementRunner promises.
Forms(sql) == UNION {{Strip(sql, d), Collapsed(Strip(sql, d))} : d \in {";"} \cup Delimiters}
Status ==
  CASE pc \in {"read", "next"} -> "idle"
    [] pc \in {"request", "display"} -> "running"
    [] pc = "reconnect" -> IF raw[1] = "!source" THEN "reread" ELSE "resend"
    [] pc = "stopped" -> "stopped"

Ran == [i \in DOMAIN sent |-> sent[i].sql]

Runner == INSTANCE StatementRunner WITH
  Forms <- Forms, line <- queue, held <- outer, reading <- Reading, again <- retried,
  status <- Status, ran <- Ran

ImplementsStatementRunner == Runner!Spec

\* README.md:218: "We can use `!set CMD_NAME VAL` to update the `Settings` above in
\* runtime", sql_delimiter among them: no statement that ends by the settings waits in
\* the buffer.
SetTakesEffect ==
  (pc = "read" /\ Interactive /\ settings.multi) =>
     ParseStatements(NewParser(settings.delimiter, TRUE, repl), query).statements = <<>>

=============================================================================
