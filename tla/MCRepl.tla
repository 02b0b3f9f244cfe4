-------------------------------- MODULE MCRepl --------------------------------
(***************************************************************************)
(* Lines for Repl: statements that end, that go on, two on a line;         *)
(* strings and comments with a delimiter inside, opened on one line and    *)
(* closed on another; the commands, one of them between two statements of  *)
(* a line; a PUT, which may run no query.                                  *)
(***************************************************************************)
EXTENDS Repl

MCLines ==
  {<<>>, <<"a", "|">>, <<"a", ";", "b", ";", "sp">>, <<"'", "--", ";">>, <<"/*", "'", ";">>,
   <<"a", ";", "/*">>, <<"*/", "b", ";">>, <<"--", ";", "/*">>, <<"$$", "/*", "$$", ";", "$$">>,
   <<"b", "\\", "G">>, <<"ALTER USER", ";">>, <<"exit">>, <<"!exit", ";">>, <<"!set">>,
   <<"a", ";", "!source", ";", "b", ";">>, <<"PUT">>}

=============================================================================
