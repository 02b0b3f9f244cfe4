-------------------------------- MODULE Cursor --------------------------------
(***************************************************************************)
(* The DB-API cursor of bindings/python/src/blocking.rs over RowStream:    *)
(* execute, executemany, fetchone (and next), fetchmany, fetchall, close,  *)
(* in any order.  A call is a loop of polls; it holds the cursor, so no    *)
(* other call of this cursor runs meanwhile.                               *)
(***************************************************************************)
EXTENDS RowStream, SequencesExt

CONSTANTS
  Results,       \* what the server may answer: up to which row each page goes
  Sizes,         \* the arguments of fetchmany
  MaxStatements  \* bound: statements executed

\* A page goes on where the one before it ended.
Ascending(s) == \A i, j \in DOMAIN s : i < j => s[i] <= s[j]

ASSUME CursorAssumption ==
  /\ Results \subseteq Seq(Nat) /\ \A r \in Results : Ascending(r)
  /\ Sizes \subseteq Nat /\ MaxStatements \in Nat

VARIABLES
  stream,       \* BlockingLakeCursor::stream, <<>> for None
  buffer,     \* the first row of the result, until it is fetched
  closed,
  fetch,      \* the call that runs: "none", "execute", "one", "many", "all"
  size,       \* the argument of fetchmany
  fetched,    \* the rows the call has collected
  failing,    \* fetchall has met an error
  statements, \* statements executed
  total,      \* history: the number of rows of the current statement's result
  got,        \* history: those the program has received, in order
  raised,     \* history: a call about this statement has raised an error
  ended       \* history: a call has told the program that there are no more

fetchVars == <<fetch, size, fetched, failing>>
historyVars == <<total, got, raised, ended>>
cursorVars == <<stream, buffer, closed, fetchVars, statements, historyVars>>

CursorInit ==
  /\ stream = <<>> /\ buffer = <<>> /\ closed = FALSE
  /\ fetch = "none" /\ size = 0 /\ fetched = <<>> /\ failing = FALSE
  /\ statements = 0
  /\ total = 0 /\ got = <<>> /\ raised = FALSE /\ ended = FALSE

-----------------------------------------------------------------------------
\* Statements

\* reset, and what takes the place of the old stream.
Reset(new) == stream' = new /\ buffer' = <<>>

\* History: the program asked for a new result of n rows.
NewResult(n, err) ==
  /\ total' = n /\ got' = <<>> /\ raised' = err /\ ended' = FALSE

NewStatement == fetch = "none" /\ statements < MaxStatements /\ statements' = statements + 1

\* execute.  The call itself polls for the first row; what fails before that is one
\* outcome.
ExecuteFails ==
  /\ NewStatement /\ ~closed
  /\ Reset(<<>>) /\ NewResult(0, TRUE)
  /\ UNCHANGED <<closed, fetchVars>>

Execute ==
  /\ NewStatement /\ ~closed
  /\ \E r \in Results, f \in {"json", "arrow", "flight"} :
       Reset(<<NewStream(r, f)>>) /\ NewResult(IF r = <<>> THEN 0 ELSE Last(r), FALSE)
  /\ fetch' = "execute"
  /\ UNCHANGED <<closed, size, fetched, failing>>

\* The rest of execute: the first row is kept; an error drops the stream.
PollFirst ==
  /\ fetch = "execute"
  /\ \E y \in Poll(stream[1]) :
       /\ stream' = IF y.item.tag = "error" THEN <<>> ELSE <<y.stream>>
       /\ buffer' = IF y.item.tag = "row" THEN <<y.item.row>> ELSE <<>>
       /\ raised' = (y.item.tag = "error")
       /\ fetch' = IF y.item.tag = "stats" THEN fetch ELSE "none"
  /\ UNCHANGED <<closed, size, fetched, failing, statements, total, got, ended>>

\* executemany (a load, it has no rows), also on a closed cursor.
ExecuteMany ==
  /\ NewStatement
  /\ Reset(<<>>) /\ \E err \in BOOLEAN : NewResult(0, err)
  /\ UNCHANGED <<closed, fetchVars>>

Close ==
  /\ fetch = "none"
  /\ closed' = TRUE /\ Reset(<<>>) /\ NewResult(0, FALSE)
  /\ UNCHANGED <<fetchVars, statements>>

-----------------------------------------------------------------------------
\* Fetches

\* A fetch returns the stream, and says that there are no more if `last`.
Return(result, last) ==
  /\ fetch' = "none" /\ fetched' = <<>> /\ failing' = FALSE
  /\ got' = got \o result /\ ended' = (ended \/ last)
  /\ UNCHANGED <<size, raised>>

Raise ==
  /\ fetch' = "none" /\ fetched' = <<>> /\ failing' = FALSE
  /\ raised' = TRUE
  /\ UNCHANGED <<size, got, ended>>

\* A fetch goes on with the rows it has.
Continue(result, err) ==
  /\ fetched' = result /\ failing' = err
  /\ UNCHANGED <<fetch, size, got, raised, ended>>

BeginFetch(kind, n) ==
  /\ fetch' = kind /\ size' = n /\ fetched' = buffer
  /\ UNCHANGED <<failing, got, raised, ended>>

\* fetchone, next.
FetchOne ==
  /\ fetch = "none"
  /\ IF buffer # <<>> THEN Return(<<Last(buffer)>>, FALSE) /\ buffer' = Front(buffer)
     ELSE /\ IF stream = <<>> THEN Return(<<>>, TRUE) ELSE BeginFetch("one", 1)
          /\ UNCHANGED buffer
  /\ UNCHANGED <<stream, closed, statements, total>>

FetchMany ==
  /\ fetch = "none"
  /\ \E n \in Sizes : IF stream = <<>> THEN Return(buffer, Len(buffer) < n) ELSE BeginFetch("many", n)
  /\ buffer' = <<>>
  /\ UNCHANGED <<stream, closed, statements, total>>

\* fetchall; without a stream the taken buffer goes.
FetchAll ==
  /\ fetch = "none"
  /\ IF stream = <<>> THEN Return(<<>>, TRUE) ELSE BeginFetch("all", 0)
  /\ buffer' = <<>>
  /\ UNCHANGED <<stream, closed, statements, total>>

\* fetchmany has as many rows as it was asked for; the buffered row may be more.
ManyIsFull ==
  /\ fetch = "many" /\ Len(fetched) >= size
  /\ Return(fetched, FALSE)
  /\ UNCHANGED <<stream, buffer, closed, statements, total>>

\* fetchone and fetchmany read one more item; an error loses the rows collected.
PollOneOrMany ==
  /\ fetch \in {"one", "many"} /\ Len(fetched) < size
  /\ \E y \in Poll(stream[1]) :
       /\ stream' = <<y.stream>>
       /\ CASE y.item.tag = "stats" -> Continue(fetched, FALSE)
            [] y.item.tag = "row" /\ fetch = "one" -> Return(<<y.item.row>>, FALSE)
            [] y.item.tag = "row" /\ fetch = "many" ->
                 Continue(Append(fetched, y.item.row), FALSE)
            [] y.item.tag = "error" -> Raise
            [] y.item.tag = "end" -> Return(fetched, TRUE)
  /\ UNCHANGED <<buffer, closed, statements, total>>

\* fetchall reads to the end, errors included, and then raises the first of them.
PollAll ==
  /\ fetch = "all"
  /\ \E y \in Poll(stream[1]) :
       /\ stream' = IF y.item.tag = "end" THEN <<>> ELSE <<y.stream>>
       /\ CASE y.item.tag = "stats" -> Continue(fetched, failing)
            [] y.item.tag = "row" -> Continue(Append(fetched, y.item.row), failing)
            [] y.item.tag = "error" -> Continue(fetched, TRUE)
            [] y.item.tag = "end" /\ failing -> Raise
            [] y.item.tag = "end" /\ ~failing -> Return(fetched, TRUE)
  /\ UNCHANGED <<buffer, closed, statements, total>>

CursorNext ==
  \/ ExecuteFails \/ Execute \/ PollFirst \/ ExecuteMany \/ Close
  \/ FetchOne \/ FetchMany \/ FetchAll
  \/ ManyIsFull \/ PollOneOrMany \/ PollAll

CursorSpec == CursorInit /\ [][CursorNext]_cursorVars

-----------------------------------------------------------------------------
\* Properties

\* No row of an earlier statement, none twice and none out of order, whatever mix of
\* fetches, errors and new statements: the buffered first row, the row the stream
\* holds back and the pages agree on an order.
FetchedInOrder ==
  \A i \in 1 .. Len(got) :
    /\ got[i] \in 1 .. total
    /\ i > 1 => got[i - 1] < got[i]

\* A row is missing only if a call about this statement raised an error.
NoSilentLoss ==
  ~raised /\ ~failing => \A i \in 1 .. Len(got) : got[i] = i

\* A fetch says that there are no more rows only when the program has all of them,
\* or one of its calls has raised an error.
EndIsComplete ==
  ended /\ ~raised => Len(got) = total

\* Whoever has the last row has read every page, so that the result is finalized
\* without another fetch ("we could guarantee the `/final` called before the last
\* row", rest_api.rs:380).
FinalBeforeLast ==
  total > 0 /\ got # <<>> /\ Last(got) = total /\ stream # <<>> /\ fetch = "none"
    => stream[1].pages = <<>> \/ stream[1].format = "flight"

=============================================================================
