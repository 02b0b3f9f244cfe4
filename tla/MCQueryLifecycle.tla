--------------------------- MODULE MCQueryLifecycle ---------------------------
(* Finite scripts of the server for QueryLifecycle. *)
EXTENDS QueryLifecycle, TLC

SeqsOf(S, n) == UNION {[1 .. k -> S] : k \in 1 .. n}

\* Every sequence of up to three pages, of either format or without rows.
AllScripts == SeqsOf(Kinds, 3)
\* For two queries at once.
PairScripts == {<<"json">>, <<"blank", "json">>}
\* A long statement without rows: exec polls until it is done.
ExecScripts == {<<"blank", "progress">>, <<"progress", "blank", "progress">>, <<"json", "blank">>}

Symmetry == Permutations(Query)

=============================================================================
