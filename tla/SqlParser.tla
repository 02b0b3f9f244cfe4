------------------------------- MODULE SqlParser -------------------------------
(***************************************************************************)
(* cli/src/sql_parser.rs: how the command line client finds the statements *)
(* in the lines it is given.                                               *)
(*                                                                         *)
(* A text is a sequence of lexemes: "'", "\"", "backtick", "$$", "--",     *)
(* "/*", "*/", "\\", "G", the delimiter, "nl", "sp" for white space, and   *)
(* words, of which SlashG are those that end with \G.  Tokenizer, of the   *)
(* crate databend_common_ast, is not part of the repository: Tokens is     *)
(* what the client uses of it.                                             *)
(***************************************************************************)
EXTENDS Integers, Sequences, SequencesExt

\* A parser: the delimiter, whether statements may span lines, and whether the client
\* is interactive.
NewParser(delimiter, multiLine, isRepl) ==
  [delimiter |-> delimiter, multi |-> multiLine, repl |-> isRepl]

White == {"nl", "sp"}
Trim(s) ==
  LET ink == {i \in DOMAIN s : s[i] \notin White}
  IN IF ink = {} THEN <<>> ELSE SubSeq(s, Min(ink), Max(ink))

TrimEndMatches(s, delimiter) ==
  LET other == {i \in DOMAIN s : s[i] # delimiter}
  IN IF other = {} THEN <<>> ELSE SubSeq(s, 1, Max(other))

-----------------------------------------------------------------------------
\* Tokens

\* The first position from `from` on that holds x; 0 if there is none.  In a string a
\* backslash takes the next lexeme with it.
Find(text, x, from) ==
  LET at == {i \in from .. Len(text) : text[i] = x} IN IF at = {} THEN 0 ELSE Min(at)

FindQuote(text, q, from) ==
  LET f[i \in from .. Len(text) + 2] ==
        IF i > Len(text) THEN 0
        ELSE IF text[i] = "\\" THEN f[i + 2]
        ELSE IF text[i] = q THEN i ELSE f[i + 1]
  IN f[from]

AfterBackslash(text, i) ==
  LET before == Trim(SubSeq(text, 1, i - 1)) IN before # <<>> /\ Last(before) = "\\"

\* Words that end with \G, which no REPL is needed for to end a statement.
SlashG == {"@a\\G"}

\* From the start of a text, up to the first delimiter (or \G): where it ends, 0 if
\* there is none, and whether every token before it is valid.  A literal or a quoted name
\* that is not closed is an invalid token, to the end of the text.
Tokens(p, text) ==
  LET Jump(f, j) == IF j = 0 THEN [end |-> 0, valid |-> FALSE] ELSE f[j + 1]
      f[i \in 1 .. Len(text) + 1] ==
        IF i > Len(text) THEN [end |-> 0, valid |-> TRUE]
        ELSE CASE text[i] \in {"'", "\""} -> Jump(f, FindQuote(text, text[i], i + 1))
               [] text[i] \in {"$$", "backtick"} -> Jump(f, Find(text, text[i], i + 1))
               [] text[i] = "--" -> f[LET j == Find(text, "nl", i) IN
                                        IF j = 0 THEN Len(text) + 1 ELSE j]
               [] text[i] = "/*" /\ Find(text, "*/", i + 1) # 0 -> f[Find(text, "*/", i + 1) + 1]
               [] text[i] \in {p.delimiter} \cup SlashG -> [end |-> i, valid |-> TRUE]
               [] p.repl /\ text[i] = "G" /\ AfterBackslash(text, i) ->
                    [end |-> i, valid |-> TRUE]
               [] OTHER -> f[i + 1]
  IN f[1]

-----------------------------------------------------------------------------
\* Statements

\* unclosed_block_comment_start: the position of a comment that is still open, 0 if
\* there is none.  It counts quotes, and knows no backslash.
\* Mutant: no comment is ever open.
UnclosedNever(text) == 0
UnclosedBlockCommentStart(text) ==
  LET Enter(x) == CASE x = "'" -> "single" [] x = "\"" -> "double" [] x = "$$" -> "dollar"
                    [] x = "--" -> "line" [] x = "/*" -> "block" [] OTHER -> "code"
      closing == [single |-> "'", double |-> "\"", dollar |-> "$$", line |-> "nl",
                  block |-> "*/"]
      Step(s, x) ==
        [at |-> s.at + 1,
         mode |-> IF s.mode = "code" THEN Enter(x)
                  ELSE IF x = closing[s.mode] THEN "code" ELSE s.mode,
         open |-> IF s.mode = "code" THEN s.at ELSE s.open]
      end == FoldLeft(Step, [at |-> 1, mode |-> "code", open |-> 0], text)
  IN IF end.mode = "block" THEN end.open ELSE 0

\* One statement's text, without its delimiters; <<>> for an invalid or an empty one.
Statement(p, sql, valid) ==
  IF valid /\ Trim(sql) # <<p.delimiter>>
  THEN <<Trim(TrimEndMatches(sql, p.delimiter))>> ELSE <<>>

\* The statements of a text and what is left of it, comments being closed.
Statements(p, text) ==
  LET f[i \in 1 .. Len(text) + 1] ==
        LET rest == SubSeq(text, i, Len(text))
            t == Tokens(p, rest)
        IN IF t.end = 0 THEN [statements |-> <<>>, remaining |-> rest]
           ELSE LET more == f[i + t.end]
                IN [more EXCEPT !.statements =
                      Statement(p, SubSeq(rest, 1, t.end), t.valid) \o @]
  IN f[1]

\* parse_statements: the tokenizer does not see the comment that is still open.
ParseStatements(p, text) ==
  LET cut == UnclosedBlockCommentStart(text)
      parsed == Statements(p, IF cut = 0 THEN text ELSE SubSeq(text, 1, cut - 1))
  IN IF cut = 0 THEN parsed
     ELSE [parsed EXCEPT !.remaining = @ \o SubSeq(text, cut, Len(text))]

Bang == {"!exit", "!set", "!source", "!other"}

IsCommand(line) == line[1] \in Bang \cup {"PUT"} \/ line = <<"exit">>

\* parse_line: the statements a line completes and the new buffer.  Blank lines are
\* skipped; an empty buffer takes commands and PUT as they are.
ParseLine(p, line, buffer) ==
  IF line = <<>> THEN [statements |-> <<>>, remaining |-> buffer]
  ELSE IF (buffer = <<>> /\ IsCommand(line)) \/ (~p.multi /\ line[1] # "--")
  THEN [statements |-> <<line>>, remaining |-> buffer]
  ELSE IF ~p.multi THEN [statements |-> <<>>, remaining |-> buffer]
  ELSE ParseStatements(p, IF buffer = <<>> THEN line ELSE buffer \o <<"nl">> \o line)

=============================================================================
