------------------------------- MODULE RowStream -------------------------------
(***************************************************************************)
(* RestAPIRows of driver/src/rest_api.rs and FlightSQLRows of               *)
(* driver/src/flight_sql.rs: the stream of rows, statistics and errors a    *)
(* query_iter hands out, and the filter of sql/src/rows.rs that leaves the  *)
(* rows and the errors.                                                    *)
(*                                                                         *)
(* A stream is a record.  Rows are numbered from 1 in the order of the     *)
(* server, and `pages` says of every page that Pages is still to yield up   *)
(* to which row it goes: a page without rows, as /final, goes no further    *)
(* than the one before.  ResultStream is what Pages promises about them; of *)
(* a flight they are the batches that are still to come.                    *)
(***************************************************************************)
EXTENDS Integers, Sequences

\* A fresh stream: JSON pages, Arrow pages or a flight.
NewStream(ends, fmt) ==
  [pages |-> ends, format |-> fmt, next |-> 1, buffer |-> <<>>]

\* What one poll yields.
RowItem(n) == [tag |-> "row", row |-> n]
Item(t) == [tag |-> t, row |-> 0]
Yield(i, s) == [item |-> i, stream |-> s]

\* n rows, and how many the next page has.
Numbers(from, n) == [i \in 1 .. n |-> from + i - 1]
PageSize(s) == Head(s.pages) - (s.next - 1)

\* Mutant: the newest row first.
PopNewest(s) ==
  {Yield(RowItem(s.buffer[Len(s.buffer)]),
         [s EXCEPT !.buffer = SubSeq(@, 1, Len(@) - 1)])}

\* pop_front and, for JSON rows, the conversion of the row, which may fail; a row
\* that fails is gone.
PopRow(s) ==
  LET rest == [s EXCEPT !.buffer = Tail(@)]
  IN {Yield(RowItem(Head(s.buffer)), rest)}
     \cup (IF s.format = "json" THEN {Yield(Item("error"), rest)} ELSE {})

\* A page: its rows join the buffer, and its statistics are handed out.  Arrow
\* batches are converted here, and a failure keeps those before it; a JSON page
\* fails here only for its schema.
TakePage(s) ==
  LET With(k) == [s EXCEPT !.pages = Tail(@), !.next = Head(s.pages) + 1,
                           !.buffer = @ \o Numbers(s.next, k)]
      kept == {0} \cup (IF s.format = "arrow" THEN 1 .. PageSize(s) - 1 ELSE {})
  IN {Yield(Item("stats"), With(PageSize(s)))} \cup {Yield(Item("error"), With(k)) : k \in kept}

\* Pages ends with an error.
FailPages(s) == {Yield(Item("error"), [s EXCEPT !.pages = <<>>])}

\* Mutants: the last row does not wait for the next page; a page replaces the row
\* that waits; the end of the pages forgets it.
PollEager(s) ==
  IF s.buffer # <<>> THEN PopRow(s)
  ELSE IF s.pages # <<>> THEN TakePage(s) \cup FailPages(s)
  ELSE {Yield(Item("end"), s)}
PollReplacing(s) ==
  IF Len(s.buffer) > 1 THEN PopRow(s)
  ELSE IF s.pages # <<>> THEN TakePage([s EXCEPT !.buffer = <<>>]) \cup FailPages(s)
  ELSE IF s.buffer # <<>> THEN PopRow(s)
  ELSE {Yield(Item("end"), s)}
PollForgetful(s) ==
  IF Len(s.buffer) > 1 THEN PopRow(s)
  ELSE IF s.pages # <<>> THEN TakePage(s) \cup FailPages(s)
  ELSE {Yield(Item("end"), s)}

\* FlightSQLRows::poll_next: every row of the batch first.  Then the next message: a
\* batch (it goes on through those without rows; one that is not converted is lost as
\* a whole), a progress, an error of the transport, or the end.
PollFlight(s) ==
  LET Empty(i) == \A j \in 1 .. i : s.pages[j] < s.next
      Past(i) == [s EXCEPT !.pages = SubSeq(@, i + 1, Len(@)),
                           !.next = IF i = 0 THEN @ ELSE s.pages[i] + 1]
      First(i) == [Past(i) EXCEPT !.buffer = Numbers(s.next + 1, s.pages[i] - s.next)]
      reached == {i \in DOMAIN s.pages : Empty(i - 1)}
  IN IF s.buffer # <<>> THEN {Yield(RowItem(Head(s.buffer)), [s EXCEPT !.buffer = Tail(@)])}
     ELSE {Yield(Item("stats"), Past(i - 1)) : i \in reached}
          \cup {Yield(Item("error"), Past(i)) : i \in reached}
          \cup {Yield(RowItem(s.next), First(i)) : i \in {i \in reached : ~Empty(i)}}
          \cup (IF s.pages = <<>> THEN {} ELSE FailPages(s))
          \cup (IF Empty(Len(s.pages)) THEN {Yield(Item("end"), Past(Len(s.pages)))} ELSE {})

\* poll_next: rows while there is more than one, then the next page; the last row
\* only when there is no page left.
Poll(s) ==
  IF s.format = "flight" THEN PollFlight(s)
  ELSE IF Len(s.buffer) > 1 THEN PopRow(s)
  ELSE IF s.pages # <<>> THEN TakePage(s) \cup FailPages(s)
  ELSE IF s.buffer # <<>> THEN PopRow(s)
  ELSE {Yield(Item("end"), s)}

=============================================================================
