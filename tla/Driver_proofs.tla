----------------------------- MODULE Driver_proofs -----------------------------
(***************************************************************************)
(* Loading for any calls and any clock, InsertCursor for any number of     *)
(* rows, and StageFiles for any files, locations and stage.  What keeps    *)
(* the load calls of a user apart in the stage they share is that a file   *)
(* is named after the time its call began; what makes PUT and GET report   *)
(* the truth is that every name they build, list and cut means the path    *)
(* the file is under, which the facts about paths say.  Last, what the     *)
(* parts of an interval are worth after they were packed into one number   *)
(* or shown as a text: arithmetic of any widths.                           *)
(***************************************************************************)
EXTENDS Loading, StageFiles, InsertCursor, FiniteSetTheorems, SequenceTheorems, WellFoundedInduction, TLAPS

-----------------------------------------------------------------------------
(* InsertCursor *)

\* The rows are numbered as they were written; those of the table are the first of them,
\* each answered but perhaps the last.
RowsInv ==
  /\ rows \in Seq(Nat) /\ \A i \in 1 .. Len(rows) : rows[i] = i
  /\ table \in Seq(Nat) /\ \A i \in 1 .. Len(table) : table[i] = i
  /\ inserting \in {"open", "running", "ok", "error"} /\ sent \in Nat
  /\ Len(table) <= Len(rows) /\ Len(table) \in {sent, sent + 1}
  /\ inserting = "open" => sent = 0 /\ Len(table) = 0
  /\ inserting = "running" => Len(table) = sent /\ sent < Len(rows)
  /\ inserting = "ok" => Len(table) = Len(rows)

LEMMA RowsInvInit == RowsInit => RowsInv
<1> SUFFICES ASSUME RowsInit PROVE RowsInv
  OBVIOUS
<1>1. rows \in Seq(Nat) /\ table \in Seq(Nat) /\ Len(rows) = 0 /\ Len(table) = 0
  BY DEF RowsInit
<1> QED
  BY <1>1 DEF RowsInit, RowsInv

\* Appending to a sequence of numbers.
LEMMA RowAppended ==
  ASSUME NEW s \in Seq(Nat), NEW n \in Nat
  PROVE  /\ Append(s, n) \in Seq(Nat) /\ Len(Append(s, n)) = Len(s) + 1 /\ Len(s) \in Nat
         /\ \A i \in 1 .. Len(s) : Append(s, n)[i] = s[i]
         /\ Append(s, n)[Len(s) + 1] = n
OBVIOUS

LEMMA WriteKeeps == ASSUME RowsInv, Write PROVE RowsInv'
<1> USE DEF RowsInv, Write
<1>1. /\ rows' = Append(rows, Len(rows) + 1) /\ Len(rows) \in Nat /\ Len(rows) + 1 \in Nat
      /\ rows' \in Seq(Nat) /\ Len(rows') = Len(rows) + 1
      /\ \A i \in 1 .. Len(rows) : rows'[i] = rows[i]
      /\ rows'[Len(rows) + 1] = Len(rows) + 1
  BY RowAppended
<1>2. ASSUME NEW i \in 1 .. Len(rows') PROVE rows'[i] = i
  <2>1. CASE i = Len(rows) + 1
    BY <1>1, <2>1
  <2>2. CASE i \in 1 .. Len(rows)
    BY <1>1, <2>2
  <2> QED
    BY <1>1, <2>1, <2>2
<1> QED
  BY <1>1, <1>2

LEMMA EndCursorKeeps == ASSUME RowsInv, EndCursor PROVE RowsInv'
<1>1. rows = <<>> <=> Len(rows) = 0
  BY DEF RowsInv
<1>2. Len(rows) \in Nat /\ Len(table) \in Nat
  BY DEF RowsInv
<1> QED
  BY <1>1, <1>2 DEF RowsInv, EndCursor

LEMMA InsertRowKeeps == ASSUME RowsInv, InsertRow PROVE RowsInv'
<1>1. PICK done \in BOOLEAN, answered \in BOOLEAN :
        /\ answered => done
        /\ table' = IF done THEN Append(table, rows[sent + 1]) ELSE table
        /\ sent' = IF answered THEN sent + 1 ELSE sent
        /\ inserting' = IF ~answered THEN "error"
                        ELSE IF sent' = Len(rows) THEN "ok" ELSE "running"
  BY DEF InsertRow
<1>2. /\ inserting = "running" /\ rows' = rows /\ Len(rows) \in Nat /\ sent \in Nat
      /\ Len(table) = sent /\ sent < Len(rows) /\ rows[sent + 1] = sent + 1
  BY DEF RowsInv, InsertRow
<1>3. CASE done
  <2>1. /\ table' \in Seq(Nat) /\ Len(table') = sent + 1
        /\ \A i \in 1 .. sent : table'[i] = table[i]
        /\ table'[sent + 1] = sent + 1
    BY <1>1, <1>2, <1>3, RowAppended DEF RowsInv
  <2>2. ASSUME NEW i \in 1 .. Len(table') PROVE table'[i] = i
    <3>1. CASE i = sent + 1
      BY <2>1, <3>1
    <3>2. CASE i \in 1 .. sent
      BY <1>2, <2>1, <3>2 DEF RowsInv
    <3> QED
      BY <1>2, <2>1, <3>1, <3>2
  <2>3. CASE answered
    BY <1>1, <1>2, <2>1, <2>2, <2>3 DEF RowsInv
  <2>4. CASE ~answered
    BY <1>1, <1>2, <2>1, <2>2, <2>4 DEF RowsInv
  <2> QED
    BY <2>3, <2>4
<1>4. CASE ~done
  <2>1. table' = table /\ sent' = sent /\ inserting' = "error"
    BY <1>1, <1>4
  <2> QED
    BY <1>2, <2>1 DEF RowsInv
<1> QED
  BY <1>3, <1>4

\* An end that fails leaves in the table a beginning of the rows written, with at most the
\* row whose statement failed after those answered; an end that succeeds has inserted each
\* row, once and in order: for any number of rows.
THEOREM InsertsAreAPrefix == RowsSpec => []InsertedIsPrefix
<1>1. RowsInit => RowsInv
  BY RowsInvInit
<1>2. RowsInv /\ [RowsNext]_rowsVars => RowsInv'
  <2> SUFFICES ASSUME RowsInv, [RowsNext]_rowsVars PROVE RowsInv'
    OBVIOUS
  <2>1. CASE UNCHANGED rowsVars
    BY <2>1 DEF rowsVars, RowsInv
  <2> QED
    BY <2>1, WriteKeeps, EndCursorKeeps, InsertRowKeeps DEF RowsNext
<1>3. ASSUME RowsInv PROVE InsertedIsPrefix
  <2>1. /\ rows \in Seq(Nat) /\ table \in Seq(Nat) /\ Len(table) \in Nat /\ Len(rows) \in Nat
        /\ Len(table) <= Len(rows)
        /\ \A i \in 1 .. Len(table) : table[i] = i
        /\ \A i \in 1 .. Len(rows) : rows[i] = i
    BY <1>3 DEF RowsInv
  <2>2. /\ SubSeq(rows, 1, Len(table)) \in Seq(Nat)
        /\ Len(SubSeq(rows, 1, Len(table))) = Len(table)
        /\ \A i \in 1 .. Len(table) : SubSeq(rows, 1, Len(table))[i] = rows[i]
    BY <2>1
  <2>3. table = SubSeq(rows, 1, Len(table))
    BY <2>1, <2>2
  <2>4. Len(table) = Len(rows) => table = rows
    BY <2>1
  <2> QED
    BY <1>3, <2>1, <2>3, <2>4 DEF RowsInv, InsertedIsPrefix
<1> QED
  BY <1>1, <1>2, <1>3, PTL DEF RowsSpec

-----------------------------------------------------------------------------
(* Loading: what a call begins with *)

CallType ==
  [pc : {"idle", "presign", "upload", "statement", "stream", "done"},
   fn : {"none", "load_data", "with_options", "stream_load", "load_file"}, at : Nat,
   route : {"none", "named", "attached", "streamed"}, sql : SQL, purge : BOOLEAN,
   location : Nat, result : {"none", "ok", "error"}]

\* What a call was given that no server makes sense of, apart from a placeholder for a
\* server that has none.
Misused(q) ==
  \/ streaming /\ q.fn = "load_data" /\ q.route = "named" /\ q.sql.place = "upper"
  \/ streaming /\ q.fn = "stream_load" /\ q.sql.semicolon = "inside"

ByName(q) == q.route \in {"named", "attached"}

\* A call that has just been given its way.
Started(q) ==
  /\ q \in CallType /\ q.at = now
  /\ \/ /\ q.pc \in {"presign", "upload"} /\ ByName(q) /\ q.location = now /\ q.result = "none"
        /\ q.route = "attached" /\ q.fn # "with_options" => q.purge
        /\ Runs(q) \/ Misused(q)
     \/ /\ q.pc = "stream" /\ q.route = "streamed" /\ q.result = "none"
        /\ Runs(q) \/ Misused(q)
     \/ /\ q.pc = "done" /\ q.route = "none" /\ q.result = "error"
        /\ ~streaming /\ q.fn = "load_data"

LEMMA SQLFacts ==
  /\ NoSQL \in SQL
  /\ \A sql \in SQL :
       /\ WithClause(sql) \in SQL /\ Trimmed(sql) \in SQL
       /\ WithClause(sql).place = "lower"
       /\ WithClause(sql).semicolon = IF sql.semicolon = "none" THEN "none" ELSE "inside"
       /\ Trimmed(sql).place = sql.place
       /\ Trimmed(sql).semicolon = IF sql.semicolon = "end" THEN "none" ELSE sql.semicolon
<1>1. NoSQL \in SQL
  BY DEF NoSQL, SQL
<1>2. ASSUME NEW sql \in SQL
      PROVE  /\ WithClause(sql) \in SQL
             /\ WithClause(sql).place = "lower"
             /\ WithClause(sql).semicolon = IF sql.semicolon = "none" THEN "none" ELSE "inside"
  BY DEF SQL, WithClause
<1>3. ASSUME NEW sql \in SQL
      PROVE  /\ Trimmed(sql) \in SQL
             /\ Trimmed(sql).place = sql.place
             /\ Trimmed(sql).semicolon = IF sql.semicolon = "end" THEN "none" ELSE sql.semicolon
  BY DEF SQL, Trimmed
<1> QED
  BY <1>1, <1>2, <1>3

\* The fields of a call by way of the stage, of a stream, and of a refusal.
Functions == {"load_data", "with_options", "stream_load", "load_file"}

GoesByStage(q, route, sql, purge, fn) == q = [ByStage(route, sql, purge) EXCEPT !.fn = fn]
GoesByStream(q, sql, fn) ==
  q = [[Idle EXCEPT !.pc = "stream", !.at = now, !.route = "streamed", !.sql = sql] EXCEPT !.fn = fn]

LEMMA StageWay ==
  ASSUME now \in Nat, NEW sql \in SQL, NEW purge \in BOOLEAN, NEW route \in {"named", "attached"},
         NEW fn \in Functions, NEW q, GoesByStage(q, route, sql, purge, fn)
  PROVE  /\ q \in CallType /\ q.at = now /\ q.pc \in {"presign", "upload"} /\ q.route = route
         /\ q.sql = sql /\ q.purge = purge /\ q.location = now /\ q.result = "none" /\ q.fn = fn
BY DEF GoesByStage, ByStage, Idle, Location, CallType, Functions

LEMMA StreamWay ==
  ASSUME now \in Nat, NEW sql \in SQL, NEW fn \in Functions, NEW q, GoesByStream(q, sql, fn)
  PROVE  /\ q \in CallType /\ q.at = now /\ q.pc = "stream" /\ q.route = "streamed"
         /\ q.sql = sql /\ q.result = "none" /\ q.fn = fn
BY DEF GoesByStream, Idle, CallType, Functions

LEMMA NoWay ==
  ASSUME now \in Nat, NEW fn \in Functions, NEW q, q = [Refused EXCEPT !.fn = fn]
  PROVE  /\ q \in CallType /\ q.at = now /\ q.pc = "done" /\ q.route = "none"
         /\ q.result = "error" /\ q.fn = fn
<1>1. NoSQL \in SQL
  BY SQLFacts
<1> QED
  BY <1>1 DEF Refused, Idle, CallType, Functions

\* load_data trims its semicolon, so that only a placeholder in another case is in the way;
\* given stream_load's clause, only the semicolon before it.
LEMMA LoadDataStarts ==
  ASSUME now \in Nat, streaming \in BOOLEAN, NEW given \in SQL, NEW method \in {"Stage", "Streaming"},
         NEW fn \in {"load_data", "stream_load"},
         fn = "load_data" => given.semicolon # "inside",
         fn = "stream_load" => streaming /\ given.place = "lower" /\ given.semicolon # "end"
  PROVE  Started([LoadData(given, method) EXCEPT !.fn = fn])
<1> DEFINE sql == Trimmed(given)
           full == IF sql.place = "none" THEN WithClause(sql) ELSE sql
           q == [LoadData(given, method) EXCEPT !.fn = fn]
<1>1. /\ sql \in SQL /\ sql.place = given.place
      /\ sql.semicolon = IF given.semicolon = "end" THEN "none" ELSE given.semicolon
  BY SQLFacts
<1>2. /\ full \in SQL /\ full.semicolon = sql.semicolon
      /\ full.place = IF sql.place = "none" THEN "lower" ELSE sql.place
  <2>1. CASE sql.place = "none"
    <3>1. fn = "load_data" /\ sql.semicolon = "none"
      BY <1>1, <2>1 DEF SQL
    <3> QED
      BY <1>1, <2>1, <3>1, SQLFacts
  <2>2. CASE sql.place # "none"
    BY <1>1, <2>2
  <2> QED
    BY <2>1, <2>2
<1>3. sql.place \in {"none", "lower", "upper"} /\ sql.semicolon \in {"none", "inside"}
  BY <1>1 DEF SQL
<1>4. CASE ~streaming /\ sql.place = "none"
  <2>1. GoesByStage(q, "attached", sql, TRUE, fn)
    BY <1>4 DEF LoadData, WithOptions, DefaultPurge, GoesByStage
  <2> HIDE DEF sql, q, full
  <2>2. /\ q \in CallType /\ q.at = now /\ q.pc \in {"presign", "upload"} /\ q.route = "attached"
        /\ q.sql = sql /\ q.purge = TRUE /\ q.location = now /\ q.result = "none" /\ q.fn = fn
    BY <1>1, <2>1 DEF GoesByStage, ByStage, Idle, Location, CallType
  <2>3. sql.semicolon # "inside"
    BY <1>1, <1>4
  <2> QED
    BY <2>2, <2>3 DEF Started, ByName, Runs, q
<1>5. CASE ~streaming /\ sql.place # "none"
  <2>1. q = [Refused EXCEPT !.fn = fn] /\ fn = "load_data"
    BY <1>5 DEF LoadData
  <2> HIDE DEF sql, q, full
  <2>2. /\ q \in CallType /\ q.at = now /\ q.pc = "done" /\ q.route = "none"
        /\ q.result = "error" /\ q.fn = fn
    BY <1>1, <2>1, NoWay DEF Functions
  <2> QED
    BY <1>5, <2>1, <2>2 DEF Started, q
<1>6. CASE streaming /\ method = "Stage"
  <2>1. GoesByStage(q, "named", full, FALSE, fn)
    BY <1>6 DEF LoadData, GoesByStage
  <2> HIDE DEF sql, q, full
  <2>2. /\ q \in CallType /\ q.at = now /\ q.pc \in {"presign", "upload"} /\ q.route = "named"
        /\ q.sql = full /\ q.purge = FALSE /\ q.location = now /\ q.result = "none" /\ q.fn = fn
    BY <1>2, <2>1 DEF GoesByStage, ByStage, Idle, Location, CallType
  <2>3. Runs(q) \/ Misused(q)
    BY <1>1, <1>2, <1>3, <1>6, <2>2 DEF Runs, Misused
  <2> QED
    BY <2>2, <2>3 DEF Started, ByName, q
<1>7. CASE streaming /\ method = "Streaming"
  <2>1. GoesByStream(q, full, fn)
    BY <1>7 DEF LoadData, GoesByStream
  <2> HIDE DEF sql, q, full
  <2>2. /\ q \in CallType /\ q.at = now /\ q.pc = "stream" /\ q.route = "streamed"
        /\ q.sql = full /\ q.result = "none" /\ q.fn = fn
    BY <1>2, <2>1, StreamWay DEF Functions
  <2>3. Runs(q) \/ Misused(q)
    BY <1>1, <1>2, <1>3, <1>7, <2>2 DEF Runs, Misused
  <2> QED
    BY <2>2, <2>3 DEF Started, q
<1> QED
  BY <1>4, <1>5, <1>6, <1>7

LEMMA OptionsStart ==
  ASSUME now \in Nat, NEW sql \in SQL, sql.semicolon # "inside", NEW purge \in BOOLEAN,
         NEW fn \in {"with_options", "stream_load"}, fn = "stream_load" => purge
  PROVE  Started([WithOptions(sql, purge) EXCEPT !.fn = fn])
<1> DEFINE q == [WithOptions(sql, purge) EXCEPT !.fn = fn]
<1>1. GoesByStage(q, "attached", sql, purge, fn)
  BY DEF WithOptions, GoesByStage
<1> HIDE DEF q
<1>2. /\ q \in CallType /\ q.at = now /\ q.pc \in {"presign", "upload"} /\ q.route = "attached"
      /\ q.sql = sql /\ q.purge = purge /\ q.location = now /\ q.result = "none" /\ q.fn = fn
  BY <1>1, StageWay DEF Functions
<1> QED
  BY <1>2 DEF Started, ByName, Runs, q

LEMMA StreamLoadStarts ==
  ASSUME now \in Nat, streaming \in BOOLEAN, NEW sql \in SQL, sql.semicolon # "inside",
         NEW method \in {"Stage", "Streaming"}
  PROVE  Started([StreamLoad(sql, method) EXCEPT !.fn = "stream_load"])
<1>1. CASE streaming
  <2>1. WithClause(sql) \in SQL /\ WithClause(sql).place = "lower" /\ WithClause(sql).semicolon # "end"
    BY SQLFacts
  <2>2. Started([LoadData(WithClause(sql), method) EXCEPT !.fn = "stream_load"])
    BY <1>1, <2>1, LoadDataStarts
  <2> QED
    BY <1>1, <2>2 DEF StreamLoad
<1>2. CASE ~streaming
  <2>1. Started([WithOptions(sql, TRUE) EXCEPT !.fn = "stream_load"])
    BY OptionsStart
  <2> QED
    BY <1>2, <2>1 DEF StreamLoad, DefaultPurge
<1> QED
  BY <1>1, <1>2

-----------------------------------------------------------------------------
(* Loading: the inductive invariant *)

LoadTypeOK ==
  /\ streaming \in BOOLEAN /\ presign \in BOOLEAN /\ now \in 0 .. MaxTime
  /\ call \in [Calls -> CallType] /\ stage \in [0 .. MaxTime -> Calls \cup {None}]
  /\ loaded \in [Calls -> Seq(Calls)] /\ faulted \subseteq Calls

\* The file of a call is named after its time; until its statement that file is there, with
\* its data, unless another call has the same time.
CallOK(c) ==
  /\ call[c].at \in 0 .. MaxTime
  /\ call[c].pc \in {"presign", "upload", "statement"} => ByName(call[c])
  /\ call[c].pc = "stream" => call[c].route = "streamed"
  /\ ByName(call[c]) => call[c].location = call[c].at
  /\ call[c].route = "attached" /\ call[c].fn # "with_options" => call[c].purge
  /\ call[c].pc # "done" => call[c].result = "none" /\ loaded[c] = <<>>
  /\ call[c].pc \notin {"idle", "done"} => Runs(call[c]) \/ Misused(call[c])
  /\ call[c].pc = "statement" /\ ~Collides(c) => stage[call[c].location] = c
  /\ ~Collides(c) => loaded[c] \in {<<>>, <<c>>}
  /\ call[c].pc = "done" /\ call[c].result = "ok" /\ ~Collides(c) => loaded[c] = <<c>>
  /\ call[c].pc = "done" /\ call[c].result = "error" /\ c \notin faulted /\ ~Collides(c) =>
       Misused(call[c]) \/ (~streaming /\ call[c].fn = "load_data" /\ call[c].route = "none")

\* Whose file is there, and why.
FileOK(n) ==
  stage[n] # None =>
    /\ ByName(call[stage[n]]) /\ call[stage[n]].location = n
    /\ call[stage[n]].pc \in {"statement", "done"}
    /\ \/ call[stage[n]].result # "ok"
       \/ call[stage[n]].route = "named"
       \/ call[stage[n]].fn = "with_options" /\ ~call[stage[n]].purge

LoadInv ==
  LoadTypeOK /\ (\A c \in Calls : CallOK(c)) /\ (\A n \in 0 .. MaxTime : FileOK(n))

LEMMA LoadInvInit == LoadInit => LoadInv
<1> SUFFICES ASSUME LoadInit PROVE LoadInv
  OBVIOUS
<1> USE LoadingAssumption DEF LoadInit
<1>1. Idle \in CallType /\ Idle.pc = "idle" /\ Idle.at = 0 /\ Idle.route = "none" /\ Idle.result = "none"
  BY SQLFacts DEF Idle, CallType
<1>2. LoadTypeOK
  <2>1. <<>> \in Seq(Calls)
    OBVIOUS
  <2> QED
    BY <1>1, <2>1 DEF LoadTypeOK
<1>3. ASSUME NEW c \in Calls PROVE CallOK(c)
  <2>1. call[c] = Idle /\ loaded[c] = <<>> /\ 0 \in 0 .. MaxTime
    OBVIOUS
  <2> QED
    BY <1>1, <2>1 DEF CallOK, ByName
<1>4. \A n \in 0 .. MaxTime : FileOK(n)
  BY DEF FileOK
<1> QED
  BY <1>2, <1>3, <1>4 DEF LoadInv

-----------------------------------------------------------------------------
(* Loading: a step of one call, and the others *)

\* A step of call c leaves the other calls alone, and the stage but for c's own file.
StepOf(c) ==
  /\ streaming' = streaming /\ presign' = presign /\ now' = now
  /\ \A d \in Calls : d # c => call'[d] = call[d] /\ loaded'[d] = loaded[d]
  /\ \A d \in Calls : d # c => (d \in faulted' <=> d \in faulted)
  /\ Staged(c) => call'[c].pc # "idle" /\ call'[c].route = call[c].route /\ call'[c].at = call[c].at
  /\ \A n \in 0 .. MaxTime : stage'[n] = stage[n] \/ (Staged(c) /\ n = call[c].location)

\* Who collides goes on colliding.
LEMMA StaysCollided ==
  ASSUME NEW c \in Calls, StepOf(c), NEW d \in Calls, Collides(d)
  PROVE  Collides(d)'
<1>1. \A e \in Calls : Staged(e) => Staged(e)' /\ call'[e].at = call[e].at
  BY DEF StepOf, Staged
<1>2. PICK e \in Calls \ {d} : Staged(e) /\ call[e].at = call[d].at
  BY DEF Collides
<1>3. Staged(d)
  BY DEF Collides
<1> QED
  BY <1>1, <1>2, <1>3 DEF Collides

LEMMA OthersKeep ==
  ASSUME LoadInv, NEW c \in Calls, StepOf(c), NEW d \in Calls, d # c
  PROVE  CallOK(d)'
<1>1. CallOK(d) /\ CallOK(c)
  BY DEF LoadInv
<1>2. /\ call'[d] = call[d] /\ loaded'[d] = loaded[d] /\ streaming' = streaming
      /\ d \in faulted' <=> d \in faulted
  BY DEF StepOf
<1>3. ~Collides(d)' => ~Collides(d)
  BY StaysCollided
<1>4. Runs(call[d])' <=> Runs(call[d])
  BY <1>2 DEF Runs
<1>5. Misused(call[d])' <=> Misused(call[d])
  BY <1>2 DEF Misused
<1>6. ASSUME call[d].pc = "statement", ~Collides(d)'
      PROVE  stage'[call[d].location] = stage[call[d].location]
  <2>1. ByName(call[d]) /\ call[d].location = call[d].at /\ call[d].at \in 0 .. MaxTime /\ Staged(d)
    BY <1>1, <1>6 DEF CallOK, Staged, ByName
  <2>2. Staged(c) => call[c].location = call[c].at
    BY <1>1 DEF CallOK, Staged, ByName
  <2>3. ~(Staged(c) /\ call[c].at = call[d].at)
    BY <1>3, <1>6, <2>1 DEF Collides
  <2> QED
    BY <2>1, <2>2, <2>3 DEF StepOf
<1> USE DEF CallOK, ByName
<1>7. /\ call'[d].at \in 0 .. MaxTime
      /\ call'[d].pc \in {"presign", "upload", "statement"} => ByName(call[d])'
      /\ call'[d].pc = "stream" => call'[d].route = "streamed"
      /\ ByName(call[d])' => call'[d].location = call'[d].at
      /\ call'[d].route = "attached" /\ call'[d].fn # "with_options" => call'[d].purge
      /\ call'[d].pc # "done" => call'[d].result = "none" /\ loaded'[d] = <<>>
      /\ call'[d].pc \notin {"idle", "done"} => Runs(call[d])' \/ Misused(call[d])'
  BY <1>1, <1>2, <1>4, <1>5
<1>8. call'[d].pc = "statement" /\ ~Collides(d)' => stage'[call'[d].location] = d
  BY <1>1, <1>2, <1>3, <1>6
<1>9. /\ ~Collides(d)' => loaded'[d] \in {<<>>, <<d>>}
      /\ call'[d].pc = "done" /\ call'[d].result = "ok" /\ ~Collides(d)' => loaded'[d] = <<d>>
  BY <1>1, <1>2, <1>3
<1>10. call'[d].pc = "done" /\ call'[d].result = "error" /\ d \notin faulted' /\ ~Collides(d)' =>
         Misused(call[d])' \/ (~streaming' /\ call'[d].fn = "load_data" /\ call'[d].route = "none")
  BY <1>1, <1>2, <1>3, <1>5
<1> QED
  BY <1>7, <1>8, <1>9, <1>10

\* A file that is not c's own stays as it was.
LEMMA FilesKeep ==
  ASSUME LoadInv, NEW c \in Calls, StepOf(c), NEW n \in 0 .. MaxTime,
         stage'[n] = stage[n], stage[n] # c
  PROVE  FileOK(n)'
<1>1. stage[n] \in Calls \cup {None} /\ FileOK(n)
  BY DEF LoadInv, LoadTypeOK
<1>2. stage[n] # None => call'[stage[n]] = call[stage[n]]
  BY <1>1 DEF StepOf
<1> QED
  BY <1>1, <1>2 DEF FileOK, ByName

-----------------------------------------------------------------------------
(* Loading: one lemma per action *)

LEMMA TickKeeps == ASSUME LoadInv, Tick PROVE LoadInv'
<1> USE DEF Tick
<1>1. LoadTypeOK'
  BY LoadingAssumption DEF LoadInv, LoadTypeOK
<1>2. ASSUME NEW c \in Calls PROVE CallOK(c)'
  <2>1. CallOK(c)
    BY DEF LoadInv
  <2> QED
    BY <2>1 DEF CallOK, Collides, Staged, ByName, Runs, Misused
<1>3. ASSUME NEW n \in 0 .. MaxTime PROVE FileOK(n)'
  <2>1. FileOK(n)
    BY DEF LoadInv
  <2> QED
    BY <2>1 DEF FileOK, ByName
<1> QED
  BY <1>1, <1>2, <1>3 DEF LoadInv

\* A call that begins has not been near the stage.
LEMMA StartKeeps ==
  ASSUME LoadInv, NEW c \in Calls, call[c].pc = "idle", NEW q,
         q \in CallType, q.at = now,
         Started(q) \/ (q.pc = "done" /\ q.route = "none" /\ q.result = "error" /\ c \in faulted'),
         call' = [call EXCEPT ![c] = q], faulted' \in {faulted, faulted \cup {c}},
         UNCHANGED <<streaming, presign, now, stage, loaded>>
  PROVE  LoadInv'
<1>1. LoadTypeOK /\ CallOK(c)
  BY DEF LoadInv
<1>2. call'[c] = q /\ \A d \in Calls : d # c => call'[d] = call[d]
  BY <1>1 DEF LoadTypeOK
<1>3. loaded'[c] = <<>> /\ q.at \in 0 .. MaxTime
  BY <1>1 DEF CallOK, LoadTypeOK
<1>4. LoadTypeOK'
  BY <1>1 DEF LoadTypeOK
<1>5. StepOf(c)
  BY <1>2 DEF StepOf, Staged
<1>6. CallOK(c)'
  <2>1. Runs(q)' <=> Runs(q)
    BY DEF Runs
  <2>2. Misused(q)' <=> Misused(q)
    BY DEF Misused
  <2>3. CASE Started(q)
    <3>1. /\ q.pc \notin {"idle", "statement"}
          /\ ByName(q) => q.location = q.at
          /\ q.pc \in {"presign", "upload"} => ByName(q)
          /\ q.pc = "stream" => q.route = "streamed"
          /\ q.route = "attached" /\ q.fn # "with_options" => q.purge
          /\ q.pc # "done" => q.result = "none" /\ (Runs(q) \/ Misused(q))
          /\ q.pc = "done" => q.result = "error" /\ ~streaming /\ q.fn = "load_data" /\ q.route = "none"
          /\ q.result # "ok"
      BY <2>3 DEF Started, ByName
    <3> QED
      BY <1>2, <1>3, <2>1, <2>2, <3>1 DEF CallOK, ByName
  <2>4. CASE q.pc = "done" /\ q.route = "none" /\ q.result = "error" /\ c \in faulted'
    BY <1>2, <1>3, <2>4 DEF CallOK, ByName
  <2> QED
    BY <2>3, <2>4
<1>7. ASSUME NEW n \in 0 .. MaxTime PROVE FileOK(n)'
  <2>1. stage[n] # c
    <3>1. FileOK(n) /\ c # None
      BY LoadingAssumption DEF LoadInv, None
    <3> QED
      BY <3>1 DEF FileOK
  <2> QED
    BY <1>5, <2>1, FilesKeep
<1> QED
  BY <1>4, <1>5, <1>6, <1>7, OthersKeep DEF LoadInv

LEMMA BeginKeeps == ASSUME LoadInv, NEW c \in Calls, Begin(c) PROVE LoadInv'
<1>1. /\ call[c].pc = "idle" /\ now \in Nat /\ streaming \in BOOLEAN
      /\ UNCHANGED <<streaming, presign, now, stage, loaded>>
  BY LoadingAssumption DEF Begin, LoadInv, LoadTypeOK
<1>2. PICK sql \in SQL, method \in {"Stage", "Streaming"}, purge \in BOOLEAN :
        /\ sql.semicolon # "inside"
        /\ \/ Start(c, "load_data", LoadData(sql, method))
           \/ sql.place = "none" /\ Start(c, "with_options", WithOptions(sql, purge))
           \/ sql.place = "none" /\ Start(c, "stream_load", StreamLoad(sql, method))
  BY DEF Begin
<1>3. \E q : Started(q) /\ call' = [call EXCEPT ![c] = q] /\ faulted' = faulted
  <2>1. CASE Start(c, "load_data", LoadData(sql, method))
    <3>1. Started([LoadData(sql, method) EXCEPT !.fn = "load_data"])
      BY <1>1, <1>2, LoadDataStarts
    <3> QED
      BY <2>1, <3>1 DEF Start
  <2>2. CASE Start(c, "with_options", WithOptions(sql, purge))
    <3>1. Started([WithOptions(sql, purge) EXCEPT !.fn = "with_options"])
      BY <1>1, <1>2, OptionsStart
    <3> QED
      BY <2>2, <3>1 DEF Start
  <2>3. CASE Start(c, "stream_load", StreamLoad(sql, method))
    <3>1. Started([StreamLoad(sql, method) EXCEPT !.fn = "stream_load"])
      BY <1>1, <1>2, StreamLoadStarts
    <3> QED
      BY <2>3, <3>1 DEF Start
  <2> QED
    BY <1>2, <2>1, <2>2, <2>3
<1>4. PICK q : Started(q) /\ call' = [call EXCEPT ![c] = q] /\ faulted' = faulted
  BY <1>3
<1>5. q \in CallType /\ q.at = now
  BY <1>4 DEF Started
<1> QED
  BY <1>1, <1>4, <1>5, StartKeeps

LEMMA OpenFailsKeeps == ASSUME LoadInv, NEW c \in Calls, OpenFails(c) PROVE LoadInv'
<1> DEFINE q == [Refused EXCEPT !.fn = "load_file"]
<1>1. now \in Nat
  BY LoadingAssumption DEF LoadInv, LoadTypeOK
<1>2. /\ q \in CallType /\ q.at = now /\ q.pc = "done" /\ q.route = "none" /\ q.result = "error"
  BY <1>1, NoWay DEF Functions
<1>3. /\ call[c].pc = "idle" /\ call' = [call EXCEPT ![c] = q] /\ faulted' = faulted \cup {c}
      /\ UNCHANGED <<streaming, presign, now, stage, loaded>>
  BY DEF OpenFails
<1> HIDE DEF q
<1> QED
  BY <1>2, <1>3, StartKeeps

\* What a request changes: of its call the place and the result, of the stage its file.
Moves(c, where, what) ==
  /\ where \in {"upload", "statement", "done"} /\ what \in {"none", "ok", "error"}
  /\ \/ call' = [call EXCEPT ![c].pc = where, ![c].result = what]
     \/ what = "none" /\ call' = [call EXCEPT ![c].pc = where]
  /\ UNCHANGED <<streaming, presign, now>> /\ faulted' \in {faulted, faulted \cup {c}}

LoadsFor(c) == loaded' = loaded \/ \E f \in Calls : loaded' = [loaded EXCEPT ![c] = Append(@, f)]

ChangesFile(c) ==
  \/ stage' = stage
  \/ /\ ByName(call[c])
     /\ \/ stage' = [stage EXCEPT ![call[c].location] = c]
        \/ stage' = [stage EXCEPT ![call[c].location] = None]

LEMMA CallFields ==
  ASSUME LoadInv, NEW c \in Calls, NEW where, NEW what, Moves(c, where, what), call[c].result = "none"
  PROVE  /\ call' \in [Calls -> CallType] /\ \A d \in Calls : d # c => call'[d] = call[d]
         /\ call'[c].pc = where /\ call'[c].result = what
         /\ call'[c].fn = call[c].fn /\ call'[c].at = call[c].at /\ call'[c].route = call[c].route
         /\ call'[c].sql = call[c].sql /\ call'[c].purge = call[c].purge
         /\ call'[c].location = call[c].location
<1>1. call \in [Calls -> CallType] /\ call[c] \in CallType
  BY DEF LoadInv, LoadTypeOK
<1>2. where \in {"upload", "statement", "done"} /\ what \in {"none", "ok", "error"}
  BY DEF Moves
<1>3. CASE call' = [call EXCEPT ![c].pc = where, ![c].result = what]
  BY <1>1, <1>2, <1>3 DEF CallType
<1>4. CASE what = "none" /\ call' = [call EXCEPT ![c].pc = where]
  BY <1>1, <1>2, <1>4 DEF CallType
<1> QED
  BY <1>3, <1>4 DEF Moves

\* What a request may come to, for the call, its file and what it loads.
Comes(c, where, what) ==
  /\ where # "done" => what = "none" /\ loaded'[c] = <<>> /\ ByName(call[c])
  /\ where = "statement" => stage'[call[c].location] = c
  /\ ~Collides(c) => loaded'[c] \in {<<>>, <<c>>} /\ (what = "ok" => loaded'[c] = <<c>>)
  /\ where = "done" /\ what = "error" /\ c \notin faulted' /\ ~Collides(c) => Misused(call[c])
  /\ \A n \in 0 .. MaxTime : stage'[n] = c =>
       /\ where \in {"statement", "done"}
       /\ \/ what # "ok" \/ call[c].route = "named"
          \/ call[c].fn = "with_options" /\ ~call[c].purge

LEMMA RequestKeeps ==
  ASSUME LoadInv, NEW c \in Calls, call[c].pc \notin {"idle", "done"},
         NEW where \in {"upload", "statement", "done"}, NEW what \in {"none", "ok", "error"},
         Moves(c, where, what), LoadsFor(c), ChangesFile(c), Comes(c, where, what)
  PROVE  LoadInv'
<1>1. LoadTypeOK /\ CallOK(c) /\ \A n \in 0 .. MaxTime : FileOK(n)
  BY DEF LoadInv
<1>2. call[c].result = "none"
  BY <1>1 DEF CallOK
<1>3. /\ call' \in [Calls -> CallType] /\ \A d \in Calls : d # c => call'[d] = call[d]
      /\ call'[c].pc = where /\ call'[c].result = what
      /\ call'[c].fn = call[c].fn /\ call'[c].at = call[c].at /\ call'[c].route = call[c].route
      /\ call'[c].sql = call[c].sql /\ call'[c].purge = call[c].purge
      /\ call'[c].location = call[c].location
  BY <1>2, CallFields
<1>4. loaded' \in [Calls -> Seq(Calls)] /\ \A d \in Calls : d # c => loaded'[d] = loaded[d]
  <2>1. CASE loaded' = loaded
    BY <1>1, <2>1 DEF LoadTypeOK
  <2>2. ASSUME NEW f \in Calls, loaded' = [loaded EXCEPT ![c] = Append(@, f)]
        PROVE  loaded' \in [Calls -> Seq(Calls)] /\ \A d \in Calls : d # c => loaded'[d] = loaded[d]
    <3>1. loaded \in [Calls -> Seq(Calls)] /\ Append(loaded[c], f) \in Seq(Calls)
      BY <1>1 DEF LoadTypeOK
    <3> QED
      BY <2>2, <3>1
  <2> QED
    BY <2>1, <2>2 DEF LoadsFor
<1>5. Staged(c) <=> ByName(call[c])
  BY DEF Staged, ByName
<1>6. /\ stage' \in [0 .. MaxTime -> Calls \cup {None}]
      /\ \A n \in 0 .. MaxTime : stage'[n] = stage[n] \/ (Staged(c) /\ n = call[c].location)
      /\ \A n \in 0 .. MaxTime : stage'[n] = stage[n] \/ stage'[n] \in {c, None}
  <2>1. stage \in [0 .. MaxTime -> Calls \cup {None}]
    BY <1>1 DEF LoadTypeOK
  <2>2. CASE stage' = stage
    BY <2>1, <2>2
  <2>3. ASSUME NEW v \in {c, None}, ByName(call[c]), stage' = [stage EXCEPT ![call[c].location] = v]
        PROVE  /\ stage' \in [0 .. MaxTime -> Calls \cup {None}]
               /\ \A n \in 0 .. MaxTime : stage'[n] = stage[n] \/ (Staged(c) /\ n = call[c].location)
               /\ \A n \in 0 .. MaxTime : stage'[n] = stage[n] \/ stage'[n] \in {c, None}
    BY <1>5, <2>1, <2>3
  <2> QED
    BY <2>2, <2>3 DEF ChangesFile
<1>7. LoadTypeOK'
  BY <1>1, <1>3, <1>4, <1>6 DEF LoadTypeOK, Moves
<1>8. StepOf(c)
  <2>1. Staged(c) => call'[c].pc # "idle"
    BY <1>3
  <2>2. \A d \in Calls : d # c => (d \in faulted' <=> d \in faulted)
    BY DEF Moves
  <2> QED
    BY <1>3, <1>4, <1>6, <2>1, <2>2 DEF StepOf, Moves
<1>9. CallOK(c)'
  <2>1. ~Collides(c)' => ~Collides(c)
    BY <1>8, StaysCollided
  <2>2. Runs(call[c])' <=> Runs(call[c])
    BY <1>3 DEF Runs
  <2>3. Misused(call[c])' <=> Misused(call[c])
    BY <1>3 DEF Misused, Moves
  <2>4. ByName(call[c])' <=> ByName(call[c])
    BY <1>3 DEF ByName
  <2>5. Runs(call[c]) \/ Misused(call[c])
    BY <1>1 DEF CallOK
  <2>6. /\ where # "done" => what = "none" /\ loaded'[c] = <<>> /\ ByName(call[c])
        /\ where = "statement" => stage'[call[c].location] = c
        /\ ~Collides(c)' => loaded'[c] \in {<<>>, <<c>>} /\ (what = "ok" => loaded'[c] = <<c>>)
        /\ where = "done" /\ what = "error" /\ c \notin faulted' /\ ~Collides(c)' => Misused(call[c])
    BY <2>1 DEF Comes
  <2>7. /\ call[c].at \in 0 .. MaxTime /\ ByName(call[c]) => call[c].location = call[c].at
        /\ call[c].route = "attached" /\ call[c].fn # "with_options" => call[c].purge
        /\ call[c].at \in 0 .. MaxTime
    BY <1>1 DEF CallOK
  <2> QED
    BY <1>3, <2>2, <2>3, <2>4, <2>5, <2>6, <2>7 DEF CallOK, Moves
<1>10. ASSUME NEW n \in 0 .. MaxTime PROVE FileOK(n)'
  <2>1. CASE stage'[n] = None
    BY <2>1 DEF FileOK, None
  <2>2. CASE stage'[n] = c
    <3>1. ByName(call[c]) /\ call[c].location = n
      <4>1. CASE stage'[n] = stage[n]
        <5>1. stage[n] = c /\ c # None /\ FileOK(n)
          BY <1>1, <2>2, <4>1, LoadingAssumption DEF None
        <5> QED
          BY <5>1 DEF FileOK
      <4>2. CASE stage'[n] # stage[n]
        BY <1>5, <1>6, <4>2
      <4> QED
        BY <4>1, <4>2
    <3>2. /\ where \in {"statement", "done"}
          /\ \/ what # "ok" \/ call[c].route = "named"
             \/ call[c].fn = "with_options" /\ ~call[c].purge
      BY <2>2 DEF Comes
    <3> QED
      BY <1>3, <2>2, <3>1, <3>2 DEF FileOK, ByName
  <2>3. CASE stage'[n] \notin {c, None}
    <3>1. stage'[n] = stage[n] /\ stage[n] # c
      BY <1>6, <2>3
    <3> QED
      BY <1>8, <3>1, FilesKeep
  <2> QED
    BY <2>1, <2>2, <2>3
<1> QED
  BY <1>7, <1>8, <1>9, <1>10, OthersKeep DEF LoadInv

LEMMA PresignKeeps == ASSUME LoadInv, NEW c \in Calls, Presign(c) PROVE LoadInv'
<1>1. /\ call[c].pc = "presign" /\ UNCHANGED <<streaming, presign, now, stage, loaded>>
  BY DEF Presign
<1>2. LoadTypeOK /\ CallOK(c) /\ \A n \in 0 .. MaxTime : FileOK(n)
  BY DEF LoadInv
<1>3. loaded'[c] = <<>> /\ ByName(call[c])
  BY <1>1, <1>2 DEF CallOK
<1>4. \A n \in 0 .. MaxTime : stage'[n] # c
  BY <1>1, <1>2, LoadingAssumption DEF FileOK, None
<1>5. CASE call' = [call EXCEPT ![c].pc = "upload"] /\ faulted' = faulted
  <2>1. Comes(c, "upload", "none")
    BY <1>3, <1>4 DEF Comes
  <2>2. Moves(c, "upload", "none") /\ LoadsFor(c) /\ ChangesFile(c)
    BY <1>1, <1>5 DEF Moves, LoadsFor, ChangesFile
  <2> QED
    BY <1>1, <2>1, <2>2, RequestKeeps
<1>6. CASE /\ call' = [call EXCEPT ![c].pc = "done", ![c].result = "error"]
           /\ faulted' = faulted \cup {c}
  <2>1. Comes(c, "done", "error")
    BY <1>3, <1>4, <1>6 DEF Comes
  <2>2. Moves(c, "done", "error") /\ LoadsFor(c) /\ ChangesFile(c)
    BY <1>1, <1>6 DEF Moves, LoadsFor, ChangesFile
  <2> QED
    BY <1>1, <2>1, <2>2, RequestKeeps
<1> QED
  BY <1>5, <1>6 DEF Presign

LEMMA UploadKeeps == ASSUME LoadInv, NEW c \in Calls, Upload(c) PROVE LoadInv'
<1>1. /\ call[c].pc = "upload" /\ UNCHANGED <<streaming, presign, now, loaded>>
  BY DEF Upload
<1>2. PICK o \in Outcomes :
        /\ stage' = IF o.done THEN [stage EXCEPT ![call[c].location] = c] ELSE stage
        /\ call' = IF o.answered THEN [call EXCEPT ![c].pc = "statement"]
                   ELSE [call EXCEPT ![c].pc = "done", ![c].result = "error"]
        /\ faulted' = IF o.answered THEN faulted ELSE faulted \cup {c}
  BY DEF Upload
<1>3. o.done \in BOOLEAN /\ o.answered \in BOOLEAN /\ (o.answered => o.done)
  BY DEF Outcomes
<1>4. LoadTypeOK /\ CallOK(c)
  BY DEF LoadInv
<1>5. loaded'[c] = <<>> /\ ByName(call[c]) /\ call[c].location \in 0 .. MaxTime
  BY <1>1, <1>4 DEF CallOK
<1>6. LoadsFor(c) /\ ChangesFile(c)
  BY <1>1, <1>2, <1>5 DEF LoadsFor, ChangesFile
<1>7. CASE o.answered
  <2>1. stage'[call[c].location] = c
    BY <1>2, <1>3, <1>4, <1>5, <1>7 DEF LoadTypeOK
  <2>2. Comes(c, "statement", "none")
    BY <1>5, <2>1 DEF Comes
  <2>3. Moves(c, "statement", "none")
    BY <1>1, <1>2, <1>7 DEF Moves
  <2> QED
    BY <1>1, <1>6, <2>2, <2>3, RequestKeeps
<1>8. CASE ~o.answered
  <2>1. Comes(c, "done", "error")
    BY <1>2, <1>5, <1>8 DEF Comes
  <2>2. Moves(c, "done", "error")
    BY <1>1, <1>2, <1>8 DEF Moves
  <2> QED
    BY <1>1, <1>6, <2>1, <2>2, RequestKeeps
<1> QED
  BY <1>7, <1>8

LEMMA StatementKeeps == ASSUME LoadInv, NEW c \in Calls, Statement(c) PROVE LoadInv'
<1> DEFINE q == call[c]
           file == stage[q.location]
<1>1. q.pc = "statement" /\ UNCHANGED <<streaming, presign, now>>
  BY DEF Statement
<1>2. PICK o \in Outcomes :
        /\ loaded' = IF o.done /\ Runs(q) /\ file # None
                     THEN [loaded EXCEPT ![c] = Append(@, file)] ELSE loaded
        /\ stage' = IF o.done /\ Runs(q) /\ q.route = "attached" /\ q.purge
                    THEN [stage EXCEPT ![q.location] = None] ELSE stage
        /\ Finish(c, o.answered /\ Runs(q) /\ file # None)
        /\ faulted' = IF o.answered THEN faulted ELSE faulted \cup {c}
  BY DEF Statement
<1>3. o.done \in BOOLEAN /\ o.answered \in BOOLEAN /\ (o.answered => o.done)
  BY DEF Outcomes
<1>4. LoadTypeOK /\ CallOK(c) /\ \A n \in 0 .. MaxTime : FileOK(n)
  BY DEF LoadInv
<1>5. /\ loaded[c] = <<>> /\ ByName(q) /\ q.location \in 0 .. MaxTime
      /\ Runs(q) \/ Misused(q)
      /\ q.route = "attached" /\ q.fn # "with_options" => q.purge
      /\ ~Collides(c) => file = c
  BY <1>1, <1>4 DEF CallOK
<1>6. /\ loaded \in [Calls -> Seq(Calls)] /\ stage \in [0 .. MaxTime -> Calls \cup {None}]
      /\ file \in Calls \cup {None} /\ c # None
  BY <1>4, <1>5, LoadingAssumption DEF LoadTypeOK, None
<1> DEFINE ok == o.answered /\ Runs(q) /\ file # None
           what == IF ok THEN "ok" ELSE "error"
<1>7. call' = [call EXCEPT ![c].pc = "done", ![c].result = what] /\ what \in {"ok", "error"}
  BY <1>2 DEF Finish
<1>8. LoadsFor(c)
  BY <1>2, <1>6 DEF LoadsFor
<1>9. ChangesFile(c)
  BY <1>2, <1>5 DEF ChangesFile
<1>10. /\ ~Collides(c) => loaded'[c] \in {<<>>, <<c>>}
       /\ ~Collides(c) /\ ok => loaded'[c] = <<c>>
  <2>1. Append(<<>>, c) = <<c>>
    OBVIOUS
  <2>2. CASE o.done /\ Runs(q) /\ file # None
    <3>1. loaded'[c] = Append(<<>>, file)
      BY <1>2, <1>5, <1>6, <2>2
    <3> QED
      BY <1>5, <2>1, <3>1
  <2>3. CASE ~(o.done /\ Runs(q) /\ file # None)
    <3>1. loaded'[c] = <<>> /\ ~ok
      BY <1>2, <1>3, <1>5, <2>3
    <3> QED
      BY <3>1
  <2> QED
    BY <2>2, <2>3
<1>11. what = "error" /\ c \notin faulted' /\ ~Collides(c) => Misused(q)
  <2>1. SUFFICES ASSUME what = "error", c \notin faulted', ~Collides(c), ~Misused(q) PROVE FALSE
    OBVIOUS
  <2>2. o.answered
    BY <1>2, <1>3, <2>1
  <2>3. ok
    BY <1>5, <1>6, <2>1, <2>2
  <2> QED
    BY <2>1, <2>3
<1>12. ASSUME NEW n \in 0 .. MaxTime, stage'[n] = c, what = "ok"
       PROVE  q.route = "named" \/ (q.fn = "with_options" /\ ~q.purge)
  <2>1. o.done /\ Runs(q)
    BY <1>3, <1>12
  <2>2. SUFFICES ASSUME q.route = "attached", q.purge PROVE FALSE
    BY <1>5 DEF ByName
  <2>3. stage' = [stage EXCEPT ![q.location] = None]
    BY <1>2, <2>1, <2>2
  <2>4. n # q.location /\ stage[n] = c
    BY <1>5, <1>6, <1>12, <2>3
  <2> QED
    BY <1>4, <1>6, <2>4 DEF FileOK
<1>13. Comes(c, "done", what)
  BY <1>7, <1>10, <1>11, <1>12 DEF Comes
<1>14. Moves(c, "done", what)
  BY <1>1, <1>2, <1>7 DEF Moves
<1> HIDE DEF what, ok
<1> QED
  BY <1>1, <1>7, <1>8, <1>9, <1>13, <1>14, RequestKeeps

LEMMA StreamKeeps == ASSUME LoadInv, NEW c \in Calls, Stream(c) PROVE LoadInv'
<1> DEFINE q == call[c]
<1>1. q.pc = "stream" /\ UNCHANGED <<streaming, presign, now, stage>>
  BY DEF Stream
<1>2. PICK o \in Outcomes :
        /\ loaded' = IF o.done /\ Runs(q) THEN [loaded EXCEPT ![c] = Append(@, c)] ELSE loaded
        /\ Finish(c, o.answered /\ Runs(q))
        /\ faulted' = IF o.answered THEN faulted ELSE faulted \cup {c}
  BY DEF Stream
<1>3. o.done \in BOOLEAN /\ o.answered \in BOOLEAN /\ (o.answered => o.done)
  BY DEF Outcomes
<1>4. LoadTypeOK /\ CallOK(c) /\ \A n \in 0 .. MaxTime : FileOK(n)
  BY DEF LoadInv
<1>5. loaded[c] = <<>> /\ q.route = "streamed" /\ (Runs(q) \/ Misused(q))
  BY <1>1, <1>4 DEF CallOK
<1>6. loaded \in [Calls -> Seq(Calls)]
  BY <1>4 DEF LoadTypeOK
<1> DEFINE ok == o.answered /\ Runs(q)
           what == IF ok THEN "ok" ELSE "error"
<1>7. call' = [call EXCEPT ![c].pc = "done", ![c].result = what] /\ what \in {"ok", "error"}
  BY <1>2 DEF Finish
<1>8. loaded'[c] \in {<<>>, <<c>>} /\ (ok => loaded'[c] = <<c>>)
  <2>1. Append(<<>>, c) = <<c>>
    OBVIOUS
  <2> QED
    BY <1>2, <1>3, <1>5, <1>6, <2>1
<1>9. what = "error" /\ c \notin faulted' => Misused(q)
  BY <1>2, <1>5
<1>10. \A n \in 0 .. MaxTime : stage'[n] # c
  <2>1. \A n \in 0 .. MaxTime : FileOK(n) /\ c # None
    BY <1>4, LoadingAssumption DEF None
  <2> QED
    BY <1>1, <1>5, <2>1 DEF FileOK, ByName
<1>11. Comes(c, "done", what)
  BY <1>7, <1>8, <1>9, <1>10 DEF Comes
<1>12. Moves(c, "done", what) /\ LoadsFor(c) /\ ChangesFile(c)
  BY <1>1, <1>2, <1>7 DEF Moves, LoadsFor, ChangesFile
<1> HIDE DEF what, ok
<1> QED
  BY <1>1, <1>7, <1>11, <1>12, RequestKeeps

LEMMA LoadInvHolds == LoadSpec => []LoadInv
<1>1. LoadInit => LoadInv
  BY LoadInvInit
<1>2. LoadInv /\ [LoadNext]_loadVars => LoadInv'
  <2> SUFFICES ASSUME LoadInv, [LoadNext]_loadVars PROVE LoadInv'
    OBVIOUS
  <2>1. CASE UNCHANGED loadVars
    <3> USE <2>1 DEF loadVars
    <3>1. LoadTypeOK'
      BY DEF LoadInv, LoadTypeOK
    <3>2. ASSUME NEW c \in Calls PROVE CallOK(c)'
      <4>1. CallOK(c)
        BY DEF LoadInv
      <4> QED
        BY <4>1 DEF CallOK, Collides, Staged, ByName, Runs, Misused
    <3>3. ASSUME NEW n \in 0 .. MaxTime PROVE FileOK(n)'
      <4>1. FileOK(n)
        BY DEF LoadInv
      <4> QED
        BY <4>1 DEF FileOK, ByName
    <3> QED
      BY <3>1, <3>2, <3>3 DEF LoadInv
  <2> QED
    BY <2>1, TickKeeps, BeginKeeps, OpenFailsKeeps, PresignKeeps, UploadKeeps, StatementKeeps,
       StreamKeeps DEF LoadNext
<1> QED
  BY <1>1, <1>2, PTL DEF LoadSpec

-----------------------------------------------------------------------------
(* Loading and InsertCursor: the theorems *)

\* However many calls of a user interleave in the stage they share, the statement of each
\* loads the data of that call, at most once, and has when the call succeeds; and a call
\* whose requests all go through fails only for what it was given.  Only two calls that
\* read the same time from the clock are excepted.
THEOREM CallsLoadTheirOwn == LoadSpec => []LoadsOwnData
<1>1. ASSUME LoadInv PROVE LoadsOwnData
  <2>1. ASSUME NEW c \in Calls PROVE CallOK(c)
    BY <1>1 DEF LoadInv
  <2>2. OwnDataOnly
    BY <2>1 DEF OwnDataOnly, CallOK
  <2>3. CleanCallSucceeds
    BY <2>1 DEF CleanCallSucceeds, CallOK, Misused
  <2> QED
    BY <2>2, <2>3 DEF LoadsOwnData
<1> QED
  BY <1>1, LoadInvHolds, PTL

\* A file stays in the user's stage only if its call still runs or has failed, if its
\* options keep it, or if load_data named it by the placeholder.
THEOREM StageIsCleanedUp == LoadSpec => []StagedFilesGo
<1>1. ASSUME LoadInv PROVE StagedFilesGo
  <2>1. DOMAIN stage = 0 .. MaxTime /\ \A n \in 0 .. MaxTime : FileOK(n)
    BY <1>1 DEF LoadInv, LoadTypeOK
  <2> QED
    BY <2>1 DEF StagedFilesGo, FileOK
<1> QED
  BY <1>1, LoadInvHolds, PTL

-----------------------------------------------------------------------------
(* StageFiles: paths *)

Path == Seq(Chars)

LEMMA PathFacts ==
  ASSUME NEW s \in Path
  PROVE  /\ Len(s) \in Nat /\ DOMAIN s = 1 .. Len(s) /\ \A i \in 1 .. Len(s) : s[i] \in Chars
         /\ s = <<>> <=> Len(s) = 0
BY DEF Path

LEMMA JoinFacts ==
  ASSUME NEW s \in Path, NEW t \in Path
  PROVE  /\ s \o t \in Path /\ Len(s \o t) = Len(s) + Len(t)
         /\ \A i \in 1 .. Len(s) : (s \o t)[i] = s[i]
         /\ \A i \in 1 .. Len(t) : (s \o t)[Len(s) + i] = t[i]
BY DEF Path

\* u is s with t after it.
Joined(u, s, t) ==
  /\ u \in Path /\ Len(u) = Len(s) + Len(t)
  /\ \A i \in 1 .. Len(s) : u[i] = s[i]
  /\ \A i \in 1 .. Len(t) : u[Len(s) + i] = t[i]

LEMMA JoinIs ==
  ASSUME NEW s \in Path, NEW t \in Path
  PROVE  Joined(s \o t, s, t)
BY JoinFacts DEF Joined

LEMMA SamePath ==
  ASSUME NEW s \in Path, NEW t \in Path, Len(s) = Len(t), \A i \in 1 .. Len(s) : s[i] = t[i]
  PROVE  s = t
BY SeqEqual DEF Path

LEMMA CutFacts ==
  ASSUME NEW s \in Path, NEW n \in 1 .. Len(s) + 1
  PROVE  LET t == SubSeq(s, n, Len(s))
         IN /\ t \in Path /\ Len(t) = Len(s) - n + 1
            /\ \A i \in 1 .. Len(t) : t[i] = s[n + i - 1]
BY SubSeqProperties DEF Path

LEMMA JoinCancels ==
  ASSUME NEW s \in Path, NEW t \in Path, NEW u \in Path, s \o t = s \o u
  PROVE  t = u
<1>1. Len(s \o t) = Len(s) + Len(t) /\ Len(s \o u) = Len(s) + Len(u)
  BY JoinFacts
<1>2. Len(t) = Len(u)
  BY <1>1, PathFacts
<1>3. /\ \A i \in 1 .. Len(t) : (s \o t)[Len(s) + i] = t[i]
      /\ \A i \in 1 .. Len(u) : (s \o u)[Len(s) + i] = u[i]
  BY JoinFacts
<1>4. \A i \in 1 .. Len(t) : t[i] = u[i]
  BY <1>2, <1>3
<1> QED
  BY <1>2, <1>4, SamePath

LEMMA CutJoin ==
  ASSUME NEW s \in Path, NEW t \in Path
  PROVE  SubSeq(s \o t, Len(s) + 1, Len(s \o t)) = t
<1> DEFINE u == s \o t
           v == SubSeq(u, Len(s) + 1, Len(u))
<1>1. u \in Path /\ Len(u) = Len(s) + Len(t) /\ Len(s) \in Nat /\ Len(t) \in Nat
      /\ \A i \in 1 .. Len(t) : u[Len(s) + i] = t[i]
  BY JoinFacts, PathFacts
<1> HIDE DEF u
<1>2. Len(s) + 1 \in 1 .. Len(u) + 1
  BY <1>1
<1>3. v \in Path /\ Len(v) = Len(u) - (Len(s) + 1) + 1 /\ \A i \in 1 .. Len(v) : v[i] = u[Len(s) + 1 + i - 1]
  BY <1>1, <1>2, CutFacts
<1> HIDE DEF v
<1>4. Len(v) = Len(t) /\ \A i \in 1 .. Len(v) : v[i] = t[i]
  BY <1>1, <1>3
<1>5. v = t
  BY <1>3, <1>4, SamePath
<1> QED
  BY <1>5 DEF u, v

LEMMA JoinAgain ==
  ASSUME NEW s \in Path, NEW t \in Path, NEW u \in Path
  PROVE  (s \o t) \o u = s \o (t \o u)
BY ConcatAssociative DEF Path

LEMMA LeastIs ==
  ASSUME NEW S \in SUBSET Int, NEW m \in S, \A y \in S : m <= y
  PROVE  Min(S) = m
<1>1. Min(S) \in S /\ \A y \in S : Min(S) <= y
  BY DEF Min
<1>2. Min(S) \in Int /\ m \in Int /\ Min(S) <= m /\ m <= Min(S)
  BY <1>1
<1> QED
  BY <1>2

LEMMA GreatestIs ==
  ASSUME NEW S \in SUBSET Int, NEW m \in S, \A y \in S : m >= y
  PROVE  Max(S) = m
<1>1. Max(S) \in S /\ \A y \in S : Max(S) >= y
  BY DEF Max
<1>2. Max(S) \in Int /\ m \in Int /\ Max(S) >= m /\ m >= Max(S)
  BY <1>1
<1> QED
  BY <1>2

Stage == <<"@", "s", "/">>

LEMMA StageIs ==
  /\ Stage \in Path /\ Len(Stage) = 3 /\ Stage[1] = "@" /\ Stage[2] = "s" /\ Stage[3] = "/"
  /\ <<"@">> \o StageName \o Slash = Stage
  /\ Slash \in Path /\ Len(Slash) = 1 /\ Slash[1] = "/"
<1> "@" \in Chars /\ "s" \in Chars /\ "/" \in Chars
  BY StageFilesAssumption
<1>1. Stage \in Path /\ Len(Stage) = 3 /\ Stage[1] = "@" /\ Stage[2] = "s" /\ Stage[3] = "/"
  BY DEF Stage, Path
<1>2. Slash \in Path /\ Len(Slash) = 1 /\ Slash[1] = "/"
  BY DEF Slash, Path
<1>3. <<"@">> \in Path /\ Len(<<"@">>) = 1 /\ StageName \in Path /\ Len(StageName) = 1 /\ StageName[1] = "s"
  BY DEF StageName, Path
<1> DEFINE at == <<"@">>
           a == at \o StageName
           b == a \o Slash
<1> HIDE DEF at
<1>4. a \in Path /\ Len(a) = 2 /\ a[1] = "@" /\ a[2] = "s"
  <2>1. at \in Path /\ Len(at) = 1 /\ at[1] = "@"
    BY <1>3 DEF at
  <2>2. Joined(a, at, StageName)
    BY <1>3, <2>1, JoinIs
  <2> HIDE DEF a
  <2> QED
    BY <1>3, <2>1, <2>2 DEF Joined
<1>5. b \in Path /\ Len(b) = 3 /\ b[1] = "@" /\ b[2] = "s" /\ b[3] = "/"
  <2>1. Joined(b, a, Slash)
    BY <1>2, <1>4, JoinIs
  <2> HIDE DEF a, b
  <2> QED
    BY <1>2, <1>4, <2>1 DEF Joined
<1> HIDE DEF a, b
<1>6. b = Stage
  BY <1>1, <1>5, SamePath
<1> QED
  BY <1>1, <1>2, <1>6 DEF a, b, at

\* What the server makes of a path in the stage.
LEMMA FileIs ==
  ASSUME NEW x \in Path
  PROVE  FileAt(Stage \o x) = IF x # <<>> /\ x[1] = "/" THEN Tail(x) ELSE x
<1> DEFINE s == Stage \o x
<1>1. s \in Path /\ Len(s) = 3 + Len(x) /\ s[1] = "@" /\ s[2] = "s" /\ s[3] = "/" /\ Len(x) \in Nat
  <2>1. Stage \in Path /\ Len(Stage) = 3
    BY StageIs
  <2>2. Joined(s, Stage, x)
    BY <2>1, JoinIs
  <2> HIDE DEF s
  <2> QED
    BY <2>1, <2>2, StageIs, PathFacts DEF Joined
<1>2. SubSeq(s, Len(Stage) + 1, Len(s)) = x
  BY StageIs, CutJoin
<1> HIDE DEF s
<1>3. Min(SlashesOf(s) \cup {Len(s) + 1}) = 3
  <2> DEFINE S == SlashesOf(s) \cup {Len(s) + 1}
  <2>1. DOMAIN s = 1 .. Len(s)
    BY <1>1, PathFacts
  <2>2. S \in SUBSET Int /\ 3 \in S
    BY <1>1, <2>1 DEF SlashesOf
  <2>3. ASSUME NEW y \in S PROVE 3 <= y
    BY <1>1, <2>1 DEF SlashesOf
  <2> HIDE DEF S
  <2>4. Min(S) = 3
    BY <2>2, <2>3, LeastIs
  <2> QED
    BY <2>4 DEF S
<1>4. ParseLocation(s).path = x
  BY <1>2, <1>3, StageIs DEF ParseLocation
<1>5. FileAt(s) = IF x # <<>> /\ x[1] = "/" THEN Tail(x) ELSE x
  BY <1>4 DEF FileAt
<1> QED
  BY <1>5 DEF s

\* A location: of the one stage, with a path.
IsLocation(loc) == loc.name = StageName /\ IsPath(loc.path)

LEMMA FetchedFrom ==
  ASSUME NEW loc, IsLocation(loc), NEW p, IsPath(p)
  PROVE  FileAt(<<"@">> \o loc.name \o Slash \o p) = p
<1>1. <<"@">> \o loc.name \o Slash = Stage /\ p \in Path
  BY StageIs DEF IsLocation, IsPath, Path
<1>2. FileAt(Stage \o p) = p
  BY <1>1, FileIs DEF IsPath
<1> QED
  BY <1>1, <1>2

LEMMA StoredAt ==
  ASSUME NEW loc, IsLocation(loc), NEW base \in Path, SlashesOf(base) = {}
  PROVE  FileAt(FilePath(loc, base)) = Below(loc, base) /\ IsPath(Below(loc, base))
<1>1. loc.path \in Path /\ Show(loc) = Stage \o loc.path /\ base \in Path
  BY StageIs DEF IsLocation, IsPath, Path, Show
<1>2. base # <<>> => base[1] # "/"
  BY PathFacts DEF SlashesOf
<1> DEFINE path == loc.path
<1>3. path \in Path /\ (path # <<>> => path[1] # "/")
  BY <1>1 DEF IsLocation, IsPath
<1> HIDE DEF path
<1>4. (Stage \o path) \o base = Stage \o (path \o base)
      /\ ((Stage \o path) \o Slash) \o base = Stage \o ((path \o Slash) \o base)
  <2>1. /\ (Stage \o path) \o base = Stage \o (path \o base)
        /\ (Stage \o path) \o Slash = Stage \o (path \o Slash)
    <3>1. Stage \in Path /\ Slash \in Path /\ base \in Path /\ path \in Path
      BY <1>1, <1>3, StageIs
    <3>2. (Stage \o path) \o base = Stage \o (path \o base)
      BY ONLY <3>1, JoinAgain
    <3>3. (Stage \o path) \o Slash = Stage \o (path \o Slash)
      BY ONLY <3>1, JoinAgain
    <3> QED
      BY <3>2, <3>3
  <2>2. path \o Slash \in Path
    BY <1>3, StageIs, JoinFacts
  <2>3. (Stage \o (path \o Slash)) \o base = Stage \o ((path \o Slash) \o base)
    <3>1. Stage \in Path /\ path \o Slash \in Path /\ base \in Path
      BY <1>1, <2>2, StageIs
    <3> QED
      BY ONLY <3>1, JoinAgain
  <2> QED
    BY <2>1, <2>3
<1>5. CASE path # <<>> /\ Last(path) = "/"
  <2>1. FilePath(loc, base) = Stage \o (path \o base) /\ Below(loc, base) = path \o base
    BY <1>1, <1>4, <1>5 DEF FilePath, Below, path
  <2>2. path \o base \in Path /\ path \o base # <<>> /\ (path \o base)[1] # "/"
    BY <1>1, <1>3, <1>5, JoinFacts, PathFacts
  <2>3. FileAt(Stage \o (path \o base)) = path \o base
    BY <2>2, FileIs
  <2> QED
    BY <2>1, <2>2, <2>3 DEF IsPath, Path
<1>6. CASE path # <<>> /\ Last(path) # "/"
  <2>1. FilePath(loc, base) = Stage \o ((path \o Slash) \o base) /\ Below(loc, base) = (path \o Slash) \o base
    BY <1>1, <1>4, <1>6 DEF FilePath, Below, path
  <2> DEFINE x == path \o Slash
  <2>2. x \in Path /\ x # <<>> /\ x[1] # "/"
    BY <1>3, <1>6, StageIs, JoinFacts, PathFacts
  <2> HIDE DEF x
  <2>3. x \o base \in Path /\ x \o base # <<>> /\ (x \o base)[1] # "/"
    BY <1>1, <2>2, JoinFacts, PathFacts
  <2>4. FileAt(Stage \o (x \o base)) = x \o base
    BY <2>3, FileIs
  <2> QED
    BY <2>1, <2>3, <2>4 DEF IsPath, Path, x
<1>7. CASE path = <<>>
  <2>1. FilePath(loc, base) = Stage \o ((path \o Slash) \o base) /\ Below(loc, base) = base
    BY <1>1, <1>4, <1>7 DEF FilePath, Below, path
  <2>2. path \o Slash = Slash
    BY <1>7, StageIs, ConcatEmptySeq DEF Path
  <2> DEFINE x == Slash \o base
  <2>3. x \in Path /\ x # <<>> /\ x[1] = "/" /\ SubSeq(x, 2, Len(x)) = base
    <3>1. Slash \in Path /\ base \in Path /\ Len(Slash) = 1
      BY <1>1, StageIs
    <3>4. Joined(x, Slash, base)
      BY <3>1, JoinIs
    <3>2. SubSeq(x, Len(Slash) + 1, Len(x)) = base
      BY <3>1, CutJoin
    <3> HIDE DEF x
    <3>3. x \in Path /\ x[1] = "/" /\ x # <<>>
      BY <3>1, <3>4, StageIs, PathFacts DEF Joined
    <3> QED
      BY <3>1, <3>2, <3>3
  <2> HIDE DEF x
  <2>4. Tail(x) = base
    BY <2>3, TailIsSubSeq DEF Path
  <2>5. FileAt(Stage \o x) = base
    BY <2>3, <2>4, FileIs
  <2> QED
    BY <1>1, <1>2, <2>1, <2>2, <2>5 DEF IsPath, Path, x
<1> QED
  BY <1>5, <1>6, <1>7

LEMMA BelowDiffers ==
  ASSUME NEW loc, IsLocation(loc), NEW a \in Path, NEW b \in Path, Below(loc, a) = Below(loc, b)
  PROVE  a = b
<1>1. loc.path \in Path /\ loc.path \o Slash \in Path
  BY StageIs, JoinFacts DEF IsLocation, IsPath, Path
<1> QED
  BY <1>1, JoinCancels DEF Below

\* The last part of a path.
LEMMA BaseIs ==
  ASSUME NEW dir \in Path, NEW base \in Path, SlashesOf(base) = {}
  PROVE  BaseName(dir \o Slash \o base) = base
<1> DEFINE x == dir \o Slash
           s == x \o base
           n == Len(dir) + 1
<1>1. x \in Path /\ Len(x) = n /\ x[n] = "/" /\ n \in Nat /\ n >= 1
  <2>1. dir \in Path /\ Slash \in Path /\ Len(Slash) = 1 /\ Slash[1] = "/" /\ Len(dir) \in Nat
    BY StageIs, PathFacts
  <2>2. Joined(x, dir, Slash)
    BY <2>1, JoinIs
  <2> HIDE DEF x
  <2> QED
    BY <2>1, <2>2 DEF Joined
<1> HIDE DEF x
<1>2. s \in Path /\ Len(s) = n + Len(base) /\ Len(base) \in Nat /\ s[n] = "/"
      /\ \A i \in 1 .. Len(base) : s[n + i] = base[i]
  <2>1. Joined(s, x, base)
    BY <1>1, JoinIs
  <2> HIDE DEF s, n
  <2> QED
    BY <1>1, <2>1, PathFacts DEF Joined
<1>3. SubSeq(s, n + 1, Len(s)) = base
  BY <1>1, CutJoin
<1> HIDE DEF s, n
<1>4. \A i \in 1 .. Len(base) : base[i] # "/"
  BY PathFacts DEF SlashesOf
<1>5. DOMAIN s = 1 .. Len(s)
  BY <1>2, PathFacts
<1> DEFINE S == SlashesOf(s) \cup {0}
<1>6. S \in SUBSET Int /\ n \in S
  BY <1>1, <1>2, <1>5 DEF SlashesOf
<1>7. ASSUME NEW y \in S PROVE n >= y
  <2>1. CASE y = 0
    BY <1>1, <2>1
  <2>2. CASE y \in 1 .. Len(s) /\ s[y] = "/" /\ y > n
    <3>1. y - n \in 1 .. Len(base) /\ y = n + (y - n)
      BY <1>1, <1>2, <2>2
    <3>2. s[y] = base[y - n]
      BY <1>2, <3>1
    <3> QED
      BY <1>4, <2>2, <3>1, <3>2
  <2> QED
    BY <1>1, <1>2, <1>5, <2>1, <2>2 DEF SlashesOf
<1> HIDE DEF S
<1>8. Max(S) = n
  BY <1>6, <1>7, GreatestIs
<1>9. BaseName(s) = base
  BY <1>3, <1>8 DEF BaseName, S
<1> QED
  BY <1>9 DEF s, x

-----------------------------------------------------------------------------
(* StageFiles: the base name of a path *)

LEMMA LeastExists ==
  ASSUME NEW S \in SUBSET Nat, S # {}
  PROVE  \E m \in S : \A k \in S : m <= k
<1> DEFINE T == {0 .. k : k \in S}
<1>1. T \subseteq FiniteSubsetsOf(Nat)
  <2> SUFFICES ASSUME NEW k \in S PROVE 0 .. k \in FiniteSubsetsOf(Nat)
    OBVIOUS
  <2>1. IsFiniteSet(0 .. k) /\ 0 .. k \in SUBSET Nat
    BY FS_Interval
  <2> QED
    BY <2>1 DEF FiniteSubsetsOf
<1>2. T # {}
  OBVIOUS
<1> HIDE DEF T
<1>3. \E x \in T : \A y \in T : <<y, x>> \notin StrictSubsetOrdering(Nat)
  BY <1>1, <1>2, WFMin, FS_StrictSubsetOrderingWellFounded
<1>4. PICK x \in T : \A y \in T : <<y, x>> \notin StrictSubsetOrdering(Nat)
  BY <1>3
<1>5. PICK m \in S : x = 0 .. m
  BY <1>4 DEF T
<1>6. ASSUME NEW k \in S, k < m PROVE FALSE
  <2>1. 0 .. k \in T
    BY DEF T
  <2>2. 0 .. k \subseteq 0 .. m /\ m \in 0 .. m /\ m \notin 0 .. k /\ 0 .. m \subseteq Nat
    BY <1>6
  <2>3. <<0 .. k, x>> \in StrictSubsetOrdering(Nat)
    BY <1>5, <2>2 DEF StrictSubsetOrdering
  <2> QED
    BY <1>4, <2>1, <2>3
<1> QED
  BY <1>5, <1>6

LEMMA GreatestExists ==
  ASSUME NEW n \in Nat, NEW S \in SUBSET (0 .. n), S # {}
  PROVE  Max(S) \in S /\ \A k \in S : Max(S) >= k
<1> DEFINE D == {n - k : k \in S}
<1>1. D \in SUBSET Nat /\ D # {}
  <2>1. \A k \in S : n - k \in Nat
    OBVIOUS
  <2> QED
    BY <2>1
<1>2. PICK d \in D : \A e \in D : d <= e
  BY <1>1, LeastExists
<1>3. PICK m \in S : d = n - m
  BY <1>2
<1>4. ASSUME NEW k \in S PROVE m >= k
  BY <1>2, <1>3
<1> QED
  BY <1>4, GreatestIs

LEMMA BaseType ==
  ASSUME NEW p \in Path
  PROVE  BaseName(p) \in Path
<1> DEFINE S == SlashesOf(p) \cup {0}
<1>1. S \in SUBSET (0 .. Len(p)) /\ S # {} /\ Len(p) \in Nat
  BY PathFacts DEF SlashesOf
<1> HIDE DEF S
<1>2. Max(S) + 1 \in 1 .. Len(p) + 1
  <2>1. Max(S) \in S
    BY <1>1, GreatestExists
  <2>2. Max(S) \in 0 .. Len(p)
    BY <1>1, <2>1
  <2> QED
    BY <1>1, <2>2
<1>3. SubSeq(p, Max(S) + 1, Len(p)) \in Path
  BY <1>2, CutFacts
<1> QED
  BY <1>3 DEF BaseName, S

-----------------------------------------------------------------------------
(* StageFiles: the inductive invariant *)

Statuses == {"SUCCESS", "error"}
EntryType == [dir : Path, base : Path, kind : {"dir", "file"}]
FileType == [file : Path, base : Path]
RowType == [file : Path, status : Statuses, count : Nat]

JobType ==
  [op : {"none", "put", "get"}, result : {"running", "ok", "error"}, loc : [name : Path, path : Path],
   left : Seq(EntryType \cup FileType), rows : Seq(RowType)]

\* Files of the stage have paths, and the running or finished call is at a location.
StageOK ==
  /\ allowPrivate \in BOOLEAN /\ named \in BOOLEAN /\ jobs \in Nat
  /\ IsFiniteSet(DOMAIN remote) /\ \A p \in DOMAIN remote : IsPath(p)
  /\ job \in JobType
  /\ job.op # "none" /\ job.result # "error" => IsLocation(job.loc)
  /\ job.result = "error" => job.rows = <<>>
  /\ job.result # "running" => job.left = <<>>

CountsOK == \A i \in 1 .. Len(job.rows) : job.rows[i].count = Successes(i)

\* What is left to a PUT are files and directories; the files it has reported are where
\* it says.
IsEntry(e) == e \in EntryType /\ SlashesOf(e.base) = {}
PutOK ==
  job.op = "put" =>
    /\ \A k \in 1 .. Len(job.left) : IsEntry(job.left[k])
    /\ \A i \in 1 .. Len(job.rows) :
         LET base == BaseName(job.rows[i].file)
         IN job.rows[i].status = "SUCCESS" =>
              \/ At(remote, Below(job.loc, base)) = job.rows[i].file
              \/ \E j \in i + 1 .. Len(job.rows) : BaseName(job.rows[j].file) = base

\* What is left to a GET and what it has reported are the files of the location, each
\* once; what is left is fetched from where the file is.
Fetches(f, p) == f.base = BaseName(p) /\ FileAt(f.file) = p
GetOK ==
  job.op = "get" /\ job.result # "error" =>
    /\ \A k \in 1 .. Len(job.left) : job.left[k] \in FileType
    /\ ~Ambiguous(job.loc) =>
         /\ \A k \in 1 .. Len(job.left) : \E p \in Matching(job.loc) : Fetches(job.left[k], p)
         /\ \A i \in 1 .. Len(job.rows) : \E p \in Matching(job.loc) : job.rows[i].file = BaseName(p)
         /\ \A p \in Matching(job.loc) :
              \/ \E i \in 1 .. Len(job.rows) : job.rows[i].file = BaseName(p)
              \/ \E k \in 1 .. Len(job.left) : job.left[k].base = BaseName(p)
         /\ \A p, q \in Matching(job.loc) : BaseName(p) = BaseName(q) => p = q
         /\ \A k, l \in 1 .. Len(job.left) : k # l => job.left[k].base # job.left[l].base
         /\ \A k \in 1 .. Len(job.left), i \in 1 .. Len(job.rows) : job.left[k].base # job.rows[i].file
         /\ \A i \in 1 .. Len(job.rows), p \in Matching(job.loc) :
              job.rows[i].status = "SUCCESS" /\ BaseName(p) = job.rows[i].file =>
                job.rows[i].file \in DOMAIN local /\ local[job.rows[i].file] = remote[p]

FilesInv == StageOK /\ CountsOK /\ PutOK /\ GetOK

LEMMA InitFilesInv == FilesInit => FilesInv
<1> SUFFICES ASSUME FilesInit PROVE FilesInv
  OBVIOUS
<1>1. \A S : <<>> \in Seq(S)
  OBVIOUS
<1>2. job \in JobType
  BY <1>1 DEF FilesInit, NoJob, JobType, Path
<1>3. StageOK
  <2>1. PICK present \in SUBSET Seeds : remote = [p \in Seeds |-> IF p \in present THEN p ELSE Absent]
    BY DEF FilesInit
  <2>2. DOMAIN remote = Seeds
    BY <2>1
  <2> QED
    BY <1>2, <2>2, StageFilesAssumption DEF FilesInit, NoJob, StageOK
<1>4. Len(job.rows) = 0 /\ job.op = "none"
  BY DEF FilesInit, NoJob
<1> QED
  BY <1>3, <1>4 DEF FilesInv, CountsOK, PutOK, GetOK

-----------------------------------------------------------------------------
(* StageFiles: the row of a file *)

\* after is files with the content stored under path.
Stored(after, files, path, content) ==
  /\ DOMAIN after = DOMAIN files \cup {path} /\ after[path] = content
  /\ \A q : At(after, q) = IF q = path THEN content ELSE At(files, q)
  /\ \A q \in DOMAIN files : q # path => after[q] = files[q]

LEMMA WrittenFacts ==
  ASSUME NEW files, NEW path, NEW content
  PROVE  Stored(Written(files, path, content), files, path, content)
BY DEF Written, At, Stored

LEMMA LeftFacts ==
  ASSUME NEW S, NEW s \in Seq(S), s # <<>>
  PROVE  /\ Head(s) = s[1] /\ Head(s) \in S /\ 1 \in 1 .. Len(s)
         /\ Tail(s) \in Seq(S) /\ Len(Tail(s)) = Len(s) - 1 /\ Len(s) \in Nat
         /\ \A k \in 1 .. Len(s) - 1 : Tail(s)[k] = s[k + 1] /\ k + 1 \in 1 .. Len(s)
OBVIOUS

\* The row of a file: what it leaves of the job, and what it adds.
Rowed(file, status) ==
  /\ job' \in JobType /\ job'.op = job.op /\ job'.result = job.result /\ job'.loc = job.loc
  /\ job'.left = Tail(job.left)
  /\ Len(job.rows) \in Nat /\ Len(job'.rows) = Len(job.rows) + 1
  /\ \A i \in 1 .. Len(job.rows) : job'.rows[i] = job.rows[i]
  /\ job'.rows[Len(job.rows) + 1].file = file
  /\ job'.rows[Len(job.rows) + 1].status = status

LEMMA RowsAre ==
  ASSUME job \in JobType
  PROVE  /\ job.rows \in Seq(RowType) /\ Len(job.rows) \in Nat
         /\ \A i \in 1 .. Len(job.rows) : job.rows[i] \in RowType
         /\ job.rows = <<>> <=> Len(job.rows) = 0
<1>1. job.rows \in Seq(RowType)
  BY DEF JobType
<1> QED
  BY <1>1

\* The counts with another row.
LEMMA CountsGo ==
  ASSUME NEW n \in Nat, n = Len(job.rows), Len(job'.rows) = n + 1, CountsOK,
         \A i \in 1 .. n : job'.rows[i] = job.rows[i],
         job'.rows[n + 1].count = Successes(n) + (IF job'.rows[n + 1].status = "SUCCESS" THEN 1 ELSE 0)
  PROVE  CountsOK'
<1> DEFINE Good(k) == {i \in 1 .. k : job.rows[i].status = "SUCCESS"}
           GoodNow(k) == {i \in 1 .. k : job'.rows[i].status = "SUCCESS"}
<1>1. ASSUME NEW k \in 1 .. n PROVE job'.rows[k].count = Successes(k)'
  <2>1. \A i \in 1 .. k : job'.rows[i] = job.rows[i]
    OBVIOUS
  <2>2. Good(k) = GoodNow(k)
    BY <2>1
  <2>3. job.rows[k].count = Cardinality(Good(k))
    BY DEF CountsOK, Successes
  <2>4. job'.rows[k].count = job.rows[k].count
    BY <2>1
  <2>5. Successes(k)' = Cardinality(GoodNow(k))
    BY DEF Successes
  <2> HIDE DEF Good, GoodNow
  <2> QED
    BY <2>2, <2>3, <2>4, <2>5
<1>2. job'.rows[n + 1].count = Successes(n + 1)'
  <2>1. IsFiniteSet(Good(n)) /\ n + 1 \notin Good(n)
    <3>1. IsFiniteSet(1 .. n) /\ Good(n) \in SUBSET (1 .. n)
      BY FS_Interval
    <3> HIDE DEF Good
    <3>2. IsFiniteSet(Good(n))
      BY <3>1, FS_Subset
    <3> QED
      BY <3>1, <3>2
  <2>2. \A i \in 1 .. n + 1 : i \in 1 .. n \/ i = n + 1
    OBVIOUS
  <2>3. job'.rows[n + 1].status = "SUCCESS" => GoodNow(n + 1) = Good(n) \cup {n + 1}
    BY <2>2
  <2>4. job'.rows[n + 1].status # "SUCCESS" => GoodNow(n + 1) = Good(n)
    BY <2>2
  <2>5. Successes(n + 1)' = Cardinality(GoodNow(n + 1)) /\ Successes(n) = Cardinality(Good(n))
    BY DEF Successes
  <2> HIDE DEF Good, GoodNow
  <2>6. Cardinality(Good(n) \cup {n + 1}) = Cardinality(Good(n)) + 1 /\ Cardinality(Good(n)) \in Nat
    BY <2>1, FS_AddElement, FS_CardinalityType
  <2>7. CASE job'.rows[n + 1].status = "SUCCESS"
    <3>1. Successes(n + 1)' = Successes(n) + 1
      BY <2>3, <2>5, <2>6, <2>7
    <3> QED
      BY <2>7, <3>1
  <2>8. CASE job'.rows[n + 1].status # "SUCCESS"
    <3>1. Successes(n + 1)' = Successes(n) /\ Successes(n) \in Nat
      BY <2>4, <2>5, <2>6, <2>8
    <3>2. job'.rows[n + 1].count = Successes(n) + 0
      BY <2>8
    <3> HIDE DEF Successes
    <3> QED
      BY <3>1, <3>2
  <2> QED
    BY <2>7, <2>8
<1> QED
  BY <1>1, <1>2 DEF CountsOK

LEMMA RowFacts ==
  ASSUME job \in JobType, CountsOK, job.left # <<>>,
         NEW file \in Path, NEW status \in Statuses, Row(file, status)
  PROVE  Rowed(file, status) /\ CountsOK'
<1> DEFINE reported == job.rows
           n == Len(reported)
           before == IF reported = <<>> THEN 0 ELSE Last(reported).count
           row == [file |-> file, status |-> status,
                   count |-> before + (IF status = "SUCCESS" THEN 1 ELSE 0)]
<1>1. reported \in Seq(RowType) /\ n \in Nat /\ (reported = <<>> <=> n = 0)
      /\ \A i \in 1 .. n : reported[i] \in RowType
  BY RowsAre
<1>2. before \in Nat /\ before = Successes(n)
  <2>1. CASE reported = <<>>
    <3>1. {i \in 1 .. n : job.rows[i].status = "SUCCESS"} = {}
      BY <1>1, <2>1
    <3> QED
      BY <2>1, <3>1, FS_EmptySet DEF Successes
  <2>2. CASE reported # <<>>
    <3>1. n \in 1 .. n /\ Last(reported) = reported[n]
      BY <1>1, <2>2 DEF Last
    <3>2. reported[n].count = Successes(n)
      BY <3>1 DEF CountsOK
    <3>3. reported[n] \in RowType
      BY <1>1, <3>1
    <3>4. reported[n].count \in Nat
      BY <3>3 DEF RowType
    <3> QED
      BY <2>2, <3>1, <3>2, <3>4
  <2> QED
    BY <2>1, <2>2
<1>3. row \in RowType /\ row.file = file /\ row.status = status
      /\ row.count = Successes(n) + (IF status = "SUCCESS" THEN 1 ELSE 0)
  <2> HIDE DEF before
  <2> QED
    BY <1>2 DEF RowType
<1>4. job' = [job EXCEPT !.left = Tail(@), !.rows = Append(@, row)]
  BY DEF Row
<1> HIDE DEF row, before
<1>5. Append(reported, row) \in Seq(RowType) /\ Len(Append(reported, row)) = n + 1
      /\ \A i \in 1 .. n : Append(reported, row)[i] = reported[i]
      /\ Append(reported, row)[n + 1] = row
  BY <1>1, <1>3
<1>6. Tail(job.left) \in Seq(EntryType \cup FileType)
  <2>1. job.left \in Seq(EntryType \cup FileType)
    BY DEF JobType
  <2> QED
    BY <2>1, LeftFacts
<1>7. /\ job' \in JobType /\ job'.op = job.op /\ job'.result = job.result /\ job'.loc = job.loc
      /\ job'.left = Tail(job.left) /\ job'.rows = Append(reported, row)
  <2> HIDE DEF reported, n
  <2>1. job.rows = reported
    BY DEF reported
  <2> QED
    BY <1>4, <1>5, <1>6, <2>1 DEF JobType
<1>8. Rowed(file, status) /\ job'.rows[n + 1].count = row.count
  BY <1>1, <1>3, <1>5, <1>7 DEF Rowed
<1>9. CountsOK'
  <2>1. /\ Len(job'.rows) = n + 1 /\ \A i \in 1 .. n : job'.rows[i] = job.rows[i]
        /\ job'.rows[n + 1].status = status /\ n \in Nat
    BY <1>8 DEF Rowed
  <2>2. job'.rows[n + 1].count = Successes(n) + (IF job'.rows[n + 1].status = "SUCCESS" THEN 1 ELSE 0)
    BY <1>3, <1>8, <2>1
  <2>3. n = Len(job.rows)
    OBVIOUS
  <2> HIDE DEF n
  <2> QED
    BY <2>1, <2>2, <2>3, CountsGo
<1> QED
  BY <1>8, <1>9

\* What a call that is refused leaves.
LEMMA RejectKeeps ==
  ASSUME FilesInv, NEW op \in {"put", "get"}, Reject(op), jobs' \in Nat,
         UNCHANGED <<allowPrivate, named, remote, local>>
  PROVE  FilesInv'
<1>1. \A S : <<>> \in Seq(S)
  OBVIOUS
<1>2. /\ job' \in JobType /\ job'.op = op /\ job'.result = "error" /\ job'.rows = <<>> /\ job'.left = <<>>
  BY <1>1 DEF Reject, NoJob, JobType, Path
<1>3. Len(job'.rows) = 0 /\ Len(job'.left) = 0
  BY <1>2
<1>4. StageOK'
  BY <1>2 DEF FilesInv, StageOK
<1>5. CountsOK'
  BY <1>3 DEF CountsOK
<1>6. PutOK'
  BY <1>3 DEF PutOK
<1>7. GetOK'
  BY <1>2 DEF GetOK
<1> QED
  BY <1>4, <1>5, <1>6, <1>7 DEF FilesInv

-----------------------------------------------------------------------------
(* StageFiles: PUT *)

LEMMA StartPutKeeps == ASSUME FilesInv, StartPut PROVE FilesInv'
<1>1. jobs' \in Nat /\ UNCHANGED <<allowPrivate, named, remote, local>>
  BY DEF StartPut, FilesInv, StageOK
<1>2. ASSUME NEW g \in Globs, NEW s \in Locations, job' = NewJob("put", ParseLocation(s), g)
      PROVE  FilesInv'
  <2>1. /\ g \in Seq(EntryType) /\ \A k \in 1 .. Len(g) : SlashesOf(g[k].base) = {}
        /\ ParseLocation(s).name = StageName /\ IsPath(ParseLocation(s).path)
    <3>1. g \in Seq([dir : Seq(Chars), base : Seq(Chars), kind : {"dir", "file"}])
          /\ \A k \in DOMAIN g : SlashesOf(g[k].base) = {}
      BY StageFilesAssumption
    <3>2. g \in Seq(EntryType)
      BY <3>1 DEF EntryType, Path
    <3>3. DOMAIN g = 1 .. Len(g)
      BY <3>2
    <3>4. ParseLocation(s).name = StageName /\ IsPath(ParseLocation(s).path)
      BY StageFilesAssumption
    <3> QED
      BY <3>1, <3>2, <3>3, <3>4
  <2>2. ParseLocation(s) \in [name : Path, path : Path]
    <3>1. ParseLocation(s) = [name |-> ParseLocation(s).name, path |-> ParseLocation(s).path]
      BY DEF ParseLocation
    <3>2. StageName \in Path
      BY StageFilesAssumption DEF StageName, Path
    <3> QED
      BY <2>1, <3>1, <3>2 DEF IsPath, Path
  <2>3. g \in Seq(EntryType \cup FileType) /\ \A k \in 1 .. Len(g) : g[k] \in EntryType
    BY <2>1
  <2>4. \A S : <<>> \in Seq(S)
    OBVIOUS
  <2>5. /\ job' \in JobType /\ job'.op = "put" /\ job'.result = "running" /\ job'.rows = <<>>
        /\ job'.left = g /\ job'.loc = ParseLocation(s)
    BY <1>2, <2>2, <2>3, <2>4 DEF NewJob, JobType
  <2>6. Len(job'.rows) = 0
    BY <2>5
  <2>7. StageOK'
    BY <1>1, <2>1, <2>5 DEF FilesInv, StageOK, IsLocation
  <2>8. CountsOK'
    BY <2>6 DEF CountsOK
  <2>9. PutOK'
    <3>1. \A k \in 1 .. Len(job'.left) : IsEntry(job'.left[k])
      BY <2>1, <2>3, <2>5 DEF IsEntry
    <3> QED
      BY <2>6, <3>1 DEF PutOK
  <2>10. GetOK'
    BY <2>5 DEF GetOK
  <2> QED
    BY <2>7, <2>8, <2>9, <2>10 DEF FilesInv
<1>3. ASSUME Reject("put") PROVE FilesInv'
  BY <1>1, <1>3, RejectKeeps
<1> QED
  BY <1>2, <1>3 DEF StartPut

\* The row of a file of a PUT, which was stored unless it failed.
LEMMA PutRowKeeps ==
  ASSUME FilesInv, job.result = "running", job.op = "put", job.left # <<>>,
         NEW entry, entry = Head(job.left), NEW status \in Statuses, NEW stored \in BOOLEAN,
         status = "SUCCESS" => stored,
         Row(LocalPath(entry), status),
         remote' = IF stored THEN Written(remote, FileAt(FilePath(job.loc, entry.base)), LocalPath(entry))
                   ELSE remote,
         UNCHANGED <<allowPrivate, named, local, jobs>>
  PROVE  FilesInv'
<1> DEFINE loc == job.loc
           file == LocalPath(entry)
           P == Below(loc, entry.base)
           n == Len(job.rows)
<1>1. job \in JobType /\ IsLocation(loc) /\ CountsOK /\ PutOK
  BY DEF FilesInv, StageOK
<1>2. /\ entry = job.left[1] /\ 1 \in 1 .. Len(job.left) /\ Len(job.left) \in Nat
      /\ Len(Tail(job.left)) = Len(job.left) - 1
      /\ \A k \in 1 .. Len(job.left) - 1 : Tail(job.left)[k] = job.left[k + 1] /\ k + 1 \in 1 .. Len(job.left)
  <2>1. job.left \in Seq(EntryType \cup FileType)
    BY <1>1 DEF JobType
  <2> QED
    BY <2>1, LeftFacts
<1>3. IsEntry(entry)
  BY <1>1, <1>2 DEF PutOK
<1>4. entry.base \in Path /\ entry.dir \in Path /\ SlashesOf(entry.base) = {}
  BY <1>3 DEF IsEntry, EntryType
<1>5. BaseName(file) = entry.base
  BY <1>4, BaseIs DEF LocalPath
<1>6. file \in Path
  <2>1. entry.dir \o Slash \in Path
    BY <1>4, StageIs, JoinFacts
  <2> QED
    BY <1>4, <2>1, JoinFacts DEF LocalPath
<1>7. FileAt(FilePath(loc, entry.base)) = P /\ IsPath(P)
  BY <1>1, <1>4, StoredAt
<1>8. Rowed(file, status) /\ CountsOK'
  BY <1>1, <1>6, RowFacts
<1>9. remote' = IF stored THEN Written(remote, P, file) ELSE remote
  BY <1>7
<1> HIDE DEF P, file
<1>10. StageOK'
  <2>1. IsFiniteSet(DOMAIN remote \cup {P}) /\ IsFiniteSet(DOMAIN remote)
    BY FS_AddElement DEF FilesInv, StageOK
  <2>2. DOMAIN remote' = IF stored THEN DOMAIN remote \cup {P} ELSE DOMAIN remote
    <3>1. Stored(Written(remote, P, file), remote, P, file)
      BY WrittenFacts
    <3> QED
      BY <1>9, <3>1 DEF Stored
  <2>3. IsFiniteSet(DOMAIN remote') /\ \A p \in DOMAIN remote' : IsPath(p)
    BY <1>7, <2>1, <2>2 DEF FilesInv, StageOK
  <2>4. job' \in JobType /\ job'.op = "put" /\ job'.result = "running" /\ job'.loc = loc
    BY <1>8 DEF Rowed
  <2> QED
    BY <1>1, <2>3, <2>4 DEF FilesInv, StageOK
<1>11. \A q : At(remote', q) = IF stored /\ q = P THEN file ELSE At(remote, q)
  <2>1. Stored(Written(remote, P, file), remote, P, file)
    BY WrittenFacts
  <2> QED
    BY <1>9, <2>1 DEF Stored
<1>12. ASSUME NEW i \in 1 .. Len(job'.rows), job'.rows[i].status = "SUCCESS"
       PROVE  LET base == BaseName(job'.rows[i].file)
              IN \/ At(remote', Below(loc, base)) = job'.rows[i].file
                 \/ \E j \in i + 1 .. Len(job'.rows) : BaseName(job'.rows[j].file) = base
  <2>1. CASE i = n + 1
    <3>1. job'.rows[i].file = file /\ stored
      BY <1>8, <1>12, <2>1 DEF Rowed
    <3> QED
      BY <1>5, <1>11, <3>1 DEF P
  <2>2. CASE i \in 1 .. n
    <3> DEFINE base == BaseName(job.rows[i].file)
    <3>1. job'.rows[i] = job.rows[i] /\ job.rows[i].file \in Path
      <4>1. job.rows[i] \in RowType
        BY <1>1, <2>2, RowsAre
      <4> QED
        BY <1>8, <2>2, <4>1 DEF Rowed, RowType
    <3>2. base \in Path
      BY <3>1, BaseType
    <3>3. \/ At(remote, Below(loc, base)) = job.rows[i].file
          \/ \E j \in i + 1 .. n : BaseName(job.rows[j].file) = base
      BY <1>1, <1>12, <2>2, <3>1 DEF PutOK
    <3> HIDE DEF base, n
    <3>4. CASE \E j \in i + 1 .. n : BaseName(job.rows[j].file) = base
      <4>1. PICK j \in i + 1 .. n : BaseName(job.rows[j].file) = base
        BY <3>4
      <4>2. j \in i + 1 .. n + 1 /\ job'.rows[j] = job.rows[j] /\ Len(job'.rows) = n + 1
        BY <1>8, <2>2, <4>1 DEF Rowed, n
      <4> QED
        BY <3>1, <4>1, <4>2 DEF base
    <3>5. CASE base = entry.base
      <4>1. n + 1 \in i + 1 .. n + 1 /\ job'.rows[n + 1].file = file /\ Len(job'.rows) = n + 1
        BY <1>8, <2>2 DEF Rowed, n
      <4> QED
        BY <1>5, <3>1, <3>5, <4>1 DEF base
    <3>6. CASE base # entry.base /\ At(remote, Below(loc, base)) = job.rows[i].file
      <4>1. Below(loc, base) # P
        BY <1>1, <1>4, <3>2, <3>6, BelowDiffers DEF P
      <4> QED
        BY <1>11, <3>1, <3>6, <4>1 DEF base
    <3> QED
      BY <3>3, <3>4, <3>5, <3>6
  <2> QED
    BY <1>8, <2>1, <2>2 DEF Rowed
<1>13. PutOK'
  <2>1. ASSUME NEW k \in 1 .. Len(job'.left) PROVE IsEntry(job'.left[k])
    <3>1. job'.left[k] = job.left[k + 1] /\ k + 1 \in 1 .. Len(job.left)
      BY <1>2, <1>8 DEF Rowed
    <3> QED
      BY <1>1, <3>1 DEF PutOK
  <2>2. job'.loc = loc
    BY <1>8 DEF Rowed
  <2> QED
    BY <1>12, <2>1, <2>2 DEF PutOK
<1>14. GetOK'
  BY <1>8 DEF GetOK, Rowed
<1> QED
  BY <1>8, <1>10, <1>13, <1>14 DEF FilesInv

LEMMA PutFileKeeps == ASSUME FilesInv, PutFile PROVE FilesInv'
<1> DEFINE entry == Head(job.left)
<1>1. /\ job.result = "running" /\ job.op = "put" /\ job.left # <<>>
      /\ UNCHANGED <<allowPrivate, named, local, jobs>>
  BY DEF PutFile
<1>2. ASSUME Row(LocalPath(entry), "error"), UNCHANGED remote PROVE FilesInv'
  <2>1. "error" \in Statuses /\ FALSE \in BOOLEAN
    BY DEF Statuses
  <2> HIDE DEF entry
  <2>2. entry = Head(job.left)
    BY DEF entry
  <2> DEFINE stored == FALSE
             status == "error"
  <2>3. /\ status \in Statuses /\ stored \in BOOLEAN /\ status # "SUCCESS"
        /\ Row(LocalPath(entry), status) /\ (~stored => UNCHANGED remote) /\ ~stored
    BY <1>2, <2>1
  <2> HIDE DEF stored, status
  <2> QED
    BY <1>1, <2>2, <2>3, PutRowKeeps
<1>3. ASSUME Reject("put"), UNCHANGED remote PROVE FilesInv'
  BY <1>1, <1>3, RejectKeeps DEF FilesInv, StageOK
<1>4. ASSUME NEW stored \in BOOLEAN, NEW ok \in BOOLEAN, ok => stored,
             Row(LocalPath(entry), IF ok THEN "SUCCESS" ELSE "error"),
             remote' = IF stored THEN Written(remote, FileAt(FilePath(job.loc, entry.base)), LocalPath(entry))
                       ELSE remote
      PROVE  FilesInv'
  <2> DEFINE status == IF ok THEN "SUCCESS" ELSE "error"
  <2>1. status \in Statuses /\ (status = "SUCCESS" => stored) /\ Row(LocalPath(entry), status)
    BY <1>4 DEF Statuses
  <2> HIDE DEF status, entry
  <2>2. entry = Head(job.left)
    BY DEF entry
  <2> QED
    BY <1>1, <1>4, <2>1, <2>2, PutRowKeeps
<1> QED
  BY <1>2, <1>3, <1>4 DEF PutFile

-----------------------------------------------------------------------------
(* StageFiles: GET, and what its listing names *)

LEMMA PrefixIs ==
  ASSUME NEW s \in Path, NEW t \in Path
  PROVE  IsPrefix(s, s \o t)
<1> DEFINE u == s \o t
<1>1. Joined(u, s, t) /\ Len(s) \in Nat /\ Len(t) \in Nat
  BY JoinIs, PathFacts
<1> HIDE DEF u
<1>2. u \in Path /\ Len(u) = Len(s) + Len(t) /\ \A i \in 1 .. Len(s) : u[i] = s[i]
  BY <1>1 DEF Joined
<1>3. SubSeq(s, 1, Len(s)) = SubSeq(u, 1, Len(s))
  BY <1>1, <1>2 DEF Path
<1>4. IsPrefix(s, u)
  BY <1>1, <1>2, <1>3 DEF IsPrefix
<1> QED
  BY <1>4 DEF u

\* The name of a file in a listing.
Listed(p) == IF named THEN StageName \o Slash \o p ELSE p

LEMMA ListedIs ==
  ASSUME NEW loc, IsLocation(loc), NEW p \in Matching(loc), IsPath(p), named \in BOOLEAN,
         ~Ambiguous(loc)
  PROVE  Relative(loc, Listed(p)) = p /\ IsBelow(loc, Listed(p))
<1> DEFINE s == StageName \o Slash
<1>1. s \in Path /\ p \in Path /\ loc.name = StageName
  <2>1. StageName \in Path
    BY StageFilesAssumption DEF StageName, Path
  <2> QED
    BY <2>1, StageIs, JoinFacts DEF IsLocation, IsPath, Path
<1>2. IsPrefix(loc.path, p)
  BY DEF Matching
<1>3. Relative(loc, Listed(p)) = p
  <2>1. CASE named
    <3>1. IsPrefix(s, s \o p) /\ SubSeq(s \o p, Len(s) + 1, Len(s \o p)) = p
      BY <1>1, PrefixIs, CutJoin
    <3>2. Listed(p) = s \o p
      BY <2>1 DEF Listed
    <3> HIDE DEF s
    <3>3. Relative(loc, s \o p) = p
      BY <1>1, <3>1 DEF Relative, Without, s
    <3> QED
      BY <3>2, <3>3
  <2>2. CASE ~named
    <3>1. ~IsPrefix(s, p)
      BY <2>2 DEF Ambiguous
    <3> QED
      BY <1>1, <2>2, <3>1 DEF Listed, Relative
  <2> QED
    BY <2>1, <2>2
<1> QED
  BY <1>2, <1>3 DEF IsBelow

LEMMA RelativeType ==
  ASSUME NEW loc, IsLocation(loc), NEW e \in Path
  PROVE  Relative(loc, e) \in Path
<1> DEFINE s == StageName \o Slash
<1>1. s \in Path /\ loc.name = StageName
  <2>1. StageName \in Path
    BY StageFilesAssumption DEF StageName, Path
  <2> QED
    BY <2>1, StageIs, JoinFacts DEF IsLocation
<1> HIDE DEF s
<1>2. ASSUME IsPrefix(s, e) PROVE SubSeq(e, Len(s) + 1, Len(e)) \in Path
  <2>1. Len(s) \in Nat /\ Len(e) \in Nat /\ Len(s) <= Len(e)
    BY <1>1, <1>2, PathFacts DEF IsPrefix
  <2>2. Len(s) + 1 \in 1 .. Len(e) + 1
    BY <2>1
  <2> QED
    BY <2>2, CutFacts
<1>3. Relative(loc, e) = IF IsPrefix(s, e) THEN SubSeq(e, Len(s) + 1, Len(e)) ELSE e
  BY <1>1 DEF Relative, Without, s
<1> QED
  BY <1>2, <1>3

\* A sequence of a set's elements has each of them.
LEMMA SequenceHasAll ==
  ASSUME NEW S, IsFiniteSet(S), NEW q \in SetToSeqs(S)
  PROVE  /\ q \in Seq(S) /\ DOMAIN q = 1 .. Len(q) /\ Len(q) \in Nat
         /\ \A k \in 1 .. Len(q) : q[k] \in S
         /\ \A e \in S : \E k \in 1 .. Len(q) : q[k] = e
<1> DEFINE n == Cardinality(S)
           D == 1 .. n
<1>1. n \in Nat
  BY FS_CardinalityType
<1>2. q \in [D -> S] /\ \A i, j \in D : i # j => q[i] # q[j]
  BY DEF SetToSeqs
<1>3. IsFiniteSet(D) /\ Cardinality(D) = n
  BY <1>1, FS_Interval
<1>4. q \in Seq(S) /\ Len(q) = n
  BY <1>1, <1>2
<1> HIDE DEF D
<1>5. q \in Injection(D, S)
  BY <1>2 DEF Injection, IsInjective
<1>6. q \in Surjection(D, S)
  BY <1>3, <1>5, FS_Injection
<1>7. \A e \in S : \E k \in D : q[k] = e
  BY <1>6 DEF Surjection
<1> QED
  BY <1>1, <1>2, <1>4, <1>7 DEF D

LEMMA ListFacts ==
  ASSUME StageOK, NEW loc, IsLocation(loc)
  PROVE  /\ IsFiniteSet(List(loc)) /\ List(loc) \subseteq Path
         /\ List(loc) = {Listed(p) : p \in Matching(loc)}
         /\ \A p \in Matching(loc) : IsPath(p)
<1> DEFINE M == Matching(loc)
           f == [p \in M |-> Listed(p)]
<1>1. List(loc) = {Listed(p) : p \in M}
  BY DEF List, Matching, Listed
<1>2. IsFiniteSet(M) /\ \A p \in M : IsPath(p)
  <2>1. M \in SUBSET DOMAIN remote
    BY DEF Matching
  <2> HIDE DEF M
  <2>2. IsFiniteSet(M)
    BY <2>1, FS_Subset DEF StageOK
  <2> QED
    BY <2>1, <2>2 DEF StageOK
<1>3. ASSUME NEW p \in M PROVE Listed(p) \in Path
  <2>1. p \in Path
    BY <1>2 DEF IsPath, Path
  <2>2. StageName \o Slash \in Path
    <3>1. StageName \in Path
      BY StageFilesAssumption DEF StageName, Path
    <3> QED
      BY <3>1, StageIs, JoinFacts
  <2>3. (StageName \o Slash) \o p \in Path
    BY <2>1, <2>2, JoinFacts
  <2> QED
    BY <2>1, <2>3 DEF Listed
<1> HIDE DEF M
<1>4. f \in Surjection(M, List(loc))
  BY <1>1 DEF Surjection
<1> HIDE DEF f
<1>5. IsFiniteSet(List(loc))
  BY <1>2, <1>4, FS_Surjection
<1> QED
  BY <1>1, <1>2, <1>3, <1>5 DEF M

\* What get_files makes of a listing, in the order it came.
Listing(loc, listed, files) ==
  /\ listed \in SetToSeqs({e \in List(loc) : IsBelow(loc, e)})
  /\ files = [i \in DOMAIN listed |-> Normalize(loc, listed[i])]

\* The files a GET starts with: each is one of the location's, and each of those is there.
LEMMA FilesAre ==
  ASSUME StageOK, NEW loc, IsLocation(loc),
         NEW listed, NEW files, Listing(loc, listed, files)
  PROVE  /\ files \in Seq(FileType) /\ \A k \in 1 .. Len(files) : files[k] \in FileType
         /\ DOMAIN files = 1 .. Len(files) /\ Len(files) \in Nat
         /\ ~Ambiguous(loc) =>
              /\ \A k \in 1 .. Len(files) : \E p \in Matching(loc) : Fetches(files[k], p)
              /\ \A p \in Matching(loc) : \E k \in 1 .. Len(files) : Fetches(files[k], p)
<1> DEFINE E == {e \in List(loc) : IsBelow(loc, e)}
           n == Len(listed)
<1>1. IsFiniteSet(List(loc)) /\ List(loc) \subseteq Path
      /\ List(loc) = {Listed(p) : p \in Matching(loc)} /\ \A p \in Matching(loc) : IsPath(p)
  BY ListFacts
<1>2. IsFiniteSet(E) /\ E \subseteq List(loc) /\ listed \in SetToSeqs(E)
  <2>1. E \in SUBSET List(loc) /\ listed \in SetToSeqs(E)
    BY DEF Listing
  <2> HIDE DEF E
  <2> QED
    BY <1>1, <2>1, FS_Subset
<1> HIDE DEF E
<1>3. /\ DOMAIN listed = 1 .. n /\ n \in Nat /\ \A k \in 1 .. n : listed[k] \in E
      /\ \A e \in E : \E k \in 1 .. n : listed[k] = e
  BY <1>2, SequenceHasAll
<1> HIDE DEF n
<1>4. files = [i \in 1 .. n |-> Normalize(loc, listed[i])]
  BY <1>3 DEF Listing
<1>5. ASSUME NEW k \in 1 .. n
      PROVE  /\ files[k] \in FileType /\ files[k].base = BaseName(Relative(loc, listed[k]))
             /\ files[k].file = <<"@">> \o loc.name \o Slash \o Relative(loc, listed[k])
  <2> DEFINE r == Relative(loc, listed[k])
  <2>1. r \in Path
    BY <1>1, <1>2, <1>3, RelativeType
  <2> DEFINE name == <<"@">> \o loc.name \o Slash \o r
             base == BaseName(r)
  <2>2. files[k] = [file |-> name, base |-> base]
    BY <1>4 DEF Normalize
  <2> HIDE DEF r
  <2>3. BaseName(r) \in Path
    BY <2>1, BaseType
  <2>4. <<"@">> \o loc.name \o Slash \o r \in Path
    <3>1. <<"@">> \o loc.name \o Slash = Stage /\ Stage \in Path
      BY StageIs DEF IsLocation
    <3> QED
      BY <2>1, <3>1, JoinFacts
  <2> HIDE DEF name, base
  <2>5. name \in Path /\ base \in Path
    BY <2>3, <2>4 DEF name, base
  <2>6. files[k] \in FileType /\ files[k].base = base /\ files[k].file = name
    BY <2>2, <2>5 DEF FileType
  <2> QED
    BY <2>6 DEF name, base, r
<1>6. files \in Seq(FileType) /\ Len(files) = n
  <2>1. files \in [1 .. n -> FileType]
    BY <1>4, <1>5
  <2> QED
    BY <1>3, <2>1
<1>7. ASSUME ~Ambiguous(loc), NEW p \in Matching(loc), NEW k \in 1 .. n, listed[k] = Listed(p)
      PROVE  Fetches(files[k], p)
  <2>1. Relative(loc, listed[k]) = p /\ IsPath(p)
    BY <1>1, <1>7, ListedIs DEF StageOK
  <2>2. FileAt(<<"@">> \o loc.name \o Slash \o p) = p
    BY <2>1, FetchedFrom
  <2> QED
    BY <1>5, <2>1, <2>2 DEF Fetches
<1>8. ASSUME ~Ambiguous(loc), NEW k \in 1 .. n PROVE \E p \in Matching(loc) : Fetches(files[k], p)
  <2>1. listed[k] \in List(loc)
    BY <1>2, <1>3
  <2>2. PICK p \in Matching(loc) : listed[k] = Listed(p)
    BY <1>1, <2>1
  <2> QED
    BY <1>7, <1>8, <2>2
<1>9. ASSUME ~Ambiguous(loc), NEW p \in Matching(loc) PROVE \E k \in 1 .. n : Fetches(files[k], p)
  <2>1. Listed(p) \in List(loc)
    BY <1>1
  <2>2. IsBelow(loc, Listed(p))
    BY <1>1, <1>9, ListedIs DEF StageOK
  <2>3. PICK k \in 1 .. n : listed[k] = Listed(p)
    BY <1>3, <2>1, <2>2 DEF E
  <2> QED
    BY <1>7, <1>9, <2>3
<1> QED
  BY <1>3, <1>4, <1>5, <1>6, <1>8, <1>9

LEMMA StartGetKeeps == ASSUME FilesInv, StartGet PROVE FilesInv'
<1>1. jobs' \in Nat /\ UNCHANGED <<allowPrivate, named, remote, local>> /\ StageOK
  BY DEF StartGet, FilesInv, StageOK
<1>2. ASSUME NEW s \in Locations,
             NEW listed \in SetToSeqs({e \in List(ParseLocation(s)) : IsBelow(ParseLocation(s), e)}),
             NEW files, files = [i \in DOMAIN listed |-> Normalize(ParseLocation(s), listed[i])],
             UniqueBasenames(files), job' = NewJob("get", ParseLocation(s), files)
      PROVE  FilesInv'
  <2> DEFINE loc == ParseLocation(s)
  <2>1. loc \in [name : Path, path : Path] /\ IsLocation(loc)
    <3>1. loc = [name |-> loc.name, path |-> loc.path]
      BY DEF ParseLocation
    <3>2. StageName \in Path
      BY StageFilesAssumption DEF StageName, Path
    <3>3. loc.name = StageName /\ IsPath(loc.path)
      BY StageFilesAssumption
    <3> QED
      BY <3>1, <3>2, <3>3 DEF IsPath, IsLocation, Path
  <2>2. Listing(loc, listed, files) /\ job' = NewJob("get", loc, files)
    BY <1>2 DEF Listing
  <2> HIDE DEF loc
  <2>3. /\ files \in Seq(FileType) /\ \A k \in 1 .. Len(files) : files[k] \in FileType
        /\ DOMAIN files = 1 .. Len(files) /\ Len(files) \in Nat
        /\ ~Ambiguous(loc) =>
             /\ \A k \in 1 .. Len(files) : \E p \in Matching(loc) : Fetches(files[k], p)
             /\ \A p \in Matching(loc) : \E k \in 1 .. Len(files) : Fetches(files[k], p)
    BY <1>1, <2>1, <2>2, FilesAre
  <2>4. \A S : <<>> \in Seq(S)
    OBVIOUS
  <2>5. files \in Seq(EntryType \cup FileType)
    BY <2>3
  <2>6. /\ job' \in JobType /\ job'.op = "get" /\ job'.result = "running" /\ job'.rows = <<>>
        /\ job'.left = files /\ job'.loc = loc
    BY <2>1, <2>2, <2>4, <2>5 DEF NewJob, JobType
  <2>7. Len(job'.rows) = 0
    BY <2>6
  <2>8. StageOK'
    BY <1>1, <2>1, <2>6 DEF StageOK
  <2>9. CountsOK'
    BY <2>7 DEF CountsOK
  <2>10. PutOK'
    BY <2>6 DEF PutOK
  <2>11. \A k, l \in 1 .. Len(files) : k # l => files[k].base # files[l].base
    BY <1>2, <2>3 DEF UniqueBasenames
  <2>12. Ambiguous(loc)' = Ambiguous(loc) /\ Matching(loc)' = Matching(loc)
    BY <1>1, <2>6 DEF Ambiguous, Matching
  <2>13. ASSUME ~Ambiguous(loc), NEW p \in Matching(loc), NEW q \in Matching(loc), BaseName(p) = BaseName(q)
         PROVE  p = q
    <3>1. PICK k \in 1 .. Len(files) : Fetches(files[k], p)
      BY <2>3, <2>13
    <3>2. PICK l \in 1 .. Len(files) : Fetches(files[l], q)
      BY <2>3, <2>13
    <3>3. files[k].base = files[l].base
      BY <2>13, <3>1, <3>2 DEF Fetches
    <3>4. k = l
      BY <2>11, <3>3
    <3> QED
      BY <3>1, <3>2, <3>4 DEF Fetches
  <2>14. ASSUME ~Ambiguous(loc), NEW p \in Matching(loc)
         PROVE  \E k \in 1 .. Len(files) : files[k].base = BaseName(p)
    BY <2>3, <2>14 DEF Fetches
  <2>15. GetOK'
    BY <2>3, <2>6, <2>7, <2>11, <2>12, <2>13, <2>14 DEF GetOK
  <2> QED
    BY <2>8, <2>9, <2>10, <2>15 DEF FilesInv
<1>3. ASSUME Reject("get") PROVE FilesInv'
  BY <1>1, <1>3, RejectKeeps
<1> QED
  BY <1>2, <1>3 DEF StartGet

\* The row of a file of a GET, which is whole unless it failed.
LEMMA GetRowKeeps ==
  ASSUME FilesInv, job.result = "running", job.op = "get", job.left # <<>>,
         NEW f, f = Head(job.left), NEW status \in Statuses, NEW wrote \in BOOLEAN, NEW content,
         status = "SUCCESS" => wrote /\ content = At(remote, FileAt(f.file)),
         Row(f.base, status),
         local' = IF wrote THEN Written(local, f.base, content) ELSE local,
         UNCHANGED <<allowPrivate, named, remote, jobs>>
  PROVE  FilesInv'
<1> DEFINE loc == job.loc
           M == Matching(loc)
           m == Len(job.left)
           n == Len(job.rows)
<1>1. job \in JobType /\ IsLocation(loc) /\ CountsOK /\ GetOK
  BY DEF FilesInv, StageOK
<1>2. /\ f = job.left[1] /\ 1 \in 1 .. m /\ m \in Nat /\ Len(Tail(job.left)) = m - 1
      /\ \A k \in 1 .. m - 1 : Tail(job.left)[k] = job.left[k + 1] /\ k + 1 \in 1 .. m
  <2>1. job.left \in Seq(EntryType \cup FileType)
    BY <1>1 DEF JobType
  <2> QED
    BY <2>1, LeftFacts
<1>3. \A k \in 1 .. m : job.left[k] \in FileType
  BY <1>1 DEF GetOK
<1>4. f.base \in Path
  BY <1>2, <1>3 DEF FileType
<1>5. Rowed(f.base, status) /\ CountsOK'
  BY <1>1, <1>4, RowFacts
<1> HIDE DEF m, n
<1>6. /\ job' \in JobType /\ job'.op = "get" /\ job'.result = "running" /\ job'.loc = loc
      /\ Len(job'.left) = m - 1 /\ \A k \in 1 .. m - 1 : job'.left[k] = job.left[k + 1] /\ k + 1 \in 1 .. m
      /\ n \in Nat /\ Len(job'.rows) = n + 1 /\ \A i \in 1 .. n : job'.rows[i] = job.rows[i]
      /\ job'.rows[n + 1].file = f.base /\ job'.rows[n + 1].status = status
  BY <1>2, <1>5 DEF Rowed, n
<1>7. StageOK'
  BY <1>1, <1>6 DEF FilesInv, StageOK
<1>8. PutOK'
  BY <1>6 DEF PutOK
<1>9. \A l : Matching(l)' = Matching(l) /\ Ambiguous(l)' = Ambiguous(l)
  BY DEF Matching, Ambiguous
<1>10. \A k \in 1 .. Len(job'.left) : job'.left[k] \in FileType
  BY <1>3, <1>6
<1>11. ASSUME ~Ambiguous(loc)
       PROVE /\ \A k \in 1 .. Len(job'.left) : \E p \in M : Fetches(job'.left[k], p)
             /\ \A i \in 1 .. Len(job'.rows) : \E p \in M : job'.rows[i].file = BaseName(p)
             /\ \A p \in M :
                  \/ \E i \in 1 .. Len(job'.rows) : job'.rows[i].file = BaseName(p)
                  \/ \E k \in 1 .. Len(job'.left) : job'.left[k].base = BaseName(p)
             /\ \A p, q \in M : BaseName(p) = BaseName(q) => p = q
             /\ \A k, l \in 1 .. Len(job'.left) : k # l => job'.left[k].base # job'.left[l].base
             /\ \A k \in 1 .. Len(job'.left), i \in 1 .. Len(job'.rows) : job'.left[k].base # job'.rows[i].file
             /\ \A i \in 1 .. Len(job'.rows), p \in M :
                  job'.rows[i].status = "SUCCESS" /\ BaseName(p) = job'.rows[i].file =>
                    job'.rows[i].file \in DOMAIN local' /\ local'[job'.rows[i].file] = remote[p]
  <2>1. /\ \A k \in 1 .. m : \E p \in M : Fetches(job.left[k], p)
        /\ \A i \in 1 .. n : \E p \in M : job.rows[i].file = BaseName(p)
        /\ \A p \in M :
             \/ \E i \in 1 .. n : job.rows[i].file = BaseName(p)
             \/ \E k \in 1 .. m : job.left[k].base = BaseName(p)
        /\ \A p, q \in M : BaseName(p) = BaseName(q) => p = q
        /\ \A k, l \in 1 .. m : k # l => job.left[k].base # job.left[l].base
        /\ \A k \in 1 .. m, i \in 1 .. n : job.left[k].base # job.rows[i].file
        /\ \A i \in 1 .. n, p \in M :
             job.rows[i].status = "SUCCESS" /\ BaseName(p) = job.rows[i].file =>
               job.rows[i].file \in DOMAIN local /\ local[job.rows[i].file] = remote[p]
    BY <1>1, <1>11 DEF GetOK, m, n
  <2>2. \A i \in 1 .. n + 1 : i \in 1 .. n \/ i = n + 1
    BY <1>6
  <2>3. PICK o \in M : Fetches(f, o)
    BY <1>2, <2>1
  <2>4. f.base = BaseName(o) /\ FileAt(f.file) = o
    BY <2>3 DEF Fetches
  <2>5. \A p \in M : p \in DOMAIN remote /\ At(remote, p) = remote[p]
    BY DEF Matching, At
  <2> HIDE DEF M
  <2>6. \A k \in 1 .. Len(job'.left) : \E p \in M : Fetches(job'.left[k], p)
    BY <1>6, <2>1
  <2>7. ASSUME NEW i \in 1 .. n + 1 PROVE \E p \in M : job'.rows[i].file = BaseName(p)
    BY <1>6, <2>1, <2>2, <2>4
  <2>8. ASSUME NEW p \in M
        PROVE  \/ \E i \in 1 .. n + 1 : job'.rows[i].file = BaseName(p)
               \/ \E k \in 1 .. m - 1 : job'.left[k].base = BaseName(p)
    <3>1. CASE \E i \in 1 .. n : job.rows[i].file = BaseName(p)
      <4>1. PICK i \in 1 .. n : job.rows[i].file = BaseName(p)
        BY <3>1
      <4>2. i \in 1 .. n + 1 /\ job'.rows[i].file = BaseName(p)
        BY <1>6, <4>1
      <4> QED
        BY <4>2
    <3>2. CASE \E k \in 1 .. m : job.left[k].base = BaseName(p)
      <4>1. PICK k \in 1 .. m : job.left[k].base = BaseName(p)
        BY <3>2
      <4>2. CASE k = 1
        <5>1. n + 1 \in 1 .. n + 1 /\ job'.rows[n + 1].file = BaseName(p)
          BY <1>2, <1>6, <4>1, <4>2
        <5> QED
          BY <5>1
      <4>3. CASE k # 1
        <5>1. k - 1 \in 1 .. m - 1 /\ (k - 1) + 1 = k
          BY <1>2, <4>3
        <5>2. job'.left[k - 1].base = BaseName(p)
          BY <1>6, <4>1, <5>1
        <5> QED
          BY <5>1, <5>2
      <4> QED
        BY <4>2, <4>3
    <3> QED
      BY <2>1, <3>1, <3>2
  <2>9. ASSUME NEW k \in 1 .. m - 1, NEW l \in 1 .. m - 1, k # l
        PROVE  job'.left[k].base # job'.left[l].base
    <3>1. k + 1 \in 1 .. m /\ l + 1 \in 1 .. m /\ k + 1 # l + 1
      BY <1>2, <2>9
    <3>2. job.left[k + 1].base # job.left[l + 1].base
      BY <2>1, <3>1
    <3> QED
      BY <1>6, <3>2
  <2>10. ASSUME NEW k \in 1 .. m - 1, NEW i \in 1 .. n + 1
         PROVE  job'.left[k].base # job'.rows[i].file
    <3>1. k + 1 \in 1 .. m /\ k + 1 # 1 /\ job'.left[k] = job.left[k + 1]
      BY <1>2, <1>6
    <3>2. CASE i \in 1 .. n
      <4>1. job.left[k + 1].base # job.rows[i].file /\ job'.rows[i] = job.rows[i]
        BY <1>6, <2>1, <3>1, <3>2
      <4> QED
        BY <3>1, <4>1
    <3>3. CASE i = n + 1
      <4>1. job.left[k + 1].base # job.left[1].base
        BY <1>2, <2>1, <3>1
      <4> QED
        BY <1>2, <1>6, <3>1, <3>3, <4>1
    <3> QED
      BY <2>2, <3>2, <3>3
  <2>11. Stored(Written(local, f.base, content), local, f.base, content)
    BY WrittenFacts
  <2>12. ASSUME NEW i \in 1 .. n + 1, NEW p \in M, job'.rows[i].status = "SUCCESS",
                BaseName(p) = job'.rows[i].file
         PROVE  job'.rows[i].file \in DOMAIN local' /\ local'[job'.rows[i].file] = remote[p]
    <3>1. CASE i \in 1 .. n
      <4>1. job'.rows[i] = job.rows[i]
        BY <1>6, <3>1
      <4>2. job.rows[i].file \in DOMAIN local /\ local[job.rows[i].file] = remote[p]
        BY <2>1, <2>12, <3>1, <4>1
      <4>3. job.rows[i].file # f.base
        BY <1>2, <2>1, <3>1
      <4>4. job.rows[i].file \in DOMAIN local' /\ local'[job.rows[i].file] = local[job.rows[i].file]
        BY <2>11, <4>2, <4>3 DEF Stored
      <4> QED
        BY <4>1, <4>2, <4>4
    <3>2. CASE i = n + 1
      <4>1. job'.rows[i].file = f.base /\ wrote /\ content = At(remote, o)
        BY <1>6, <2>4, <2>12, <3>2
      <4>2. p = o
        BY <2>1, <2>4, <2>12, <4>1
      <4>3. content = remote[p]
        BY <2>5, <4>1, <4>2
      <4>4. f.base \in DOMAIN local' /\ local'[f.base] = content
        BY <2>11, <4>1 DEF Stored
      <4> QED
        BY <4>1, <4>3, <4>4
    <3> QED
      BY <2>2, <3>1, <3>2
  <2> QED
    BY <1>6, <2>1, <2>6, <2>7, <2>8, <2>9, <2>10, <2>12
<1>12. GetOK'
  <2>1. Matching(job.loc)' = M /\ Ambiguous(job.loc)' = Ambiguous(loc) /\ remote' = remote
    BY <1>6, <1>9
  <2> HIDE DEF M, loc
  <2> QED
    BY <1>10, <1>11, <2>1 DEF GetOK
<1> QED
  BY <1>5, <1>7, <1>8, <1>12 DEF FilesInv

LEMMA GetFileKeeps == ASSUME FilesInv, GetFile PROVE FilesInv'
<1> DEFINE f == Head(job.left)
           content == At(remote, FileAt(f.file))
<1>1. /\ job.result = "running" /\ job.op = "get" /\ job.left # <<>>
      /\ UNCHANGED <<allowPrivate, named, remote, jobs>>
  BY DEF GetFile
<1>2. \/ Row(f.base, "error") /\ UNCHANGED local
      \/ Row(f.base, "error") /\ local' = Written(local, f.base, Partial)
      \/ Row(f.base, "SUCCESS") /\ local' = Written(local, f.base, content)
  BY DEF GetFile
<1>3. f = Head(job.left) /\ content = At(remote, FileAt(f.file))
  OBVIOUS
<1> HIDE DEF f, content
<1> DEFINE failed == "error"
           done == "SUCCESS"
           yes == TRUE
           no == FALSE
<1>4. /\ failed \in Statuses /\ done \in Statuses /\ failed # "SUCCESS"
      /\ yes \in BOOLEAN /\ no \in BOOLEAN /\ yes /\ ~no
  BY DEF Statuses
<1>5. \/ Row(f.base, failed) /\ local' = IF no THEN Written(local, f.base, Partial) ELSE local
      \/ Row(f.base, failed) /\ local' = IF yes THEN Written(local, f.base, Partial) ELSE local
      \/ Row(f.base, done) /\ local' = IF yes THEN Written(local, f.base, content) ELSE local
  BY <1>2
<1> HIDE DEF failed, done, yes, no
<1>6. CASE Row(f.base, failed) /\ local' = IF no THEN Written(local, f.base, Partial) ELSE local
  BY <1>1, <1>3, <1>4, <1>6, GetRowKeeps
<1>7. CASE Row(f.base, failed) /\ local' = IF yes THEN Written(local, f.base, Partial) ELSE local
  BY <1>1, <1>3, <1>4, <1>7, GetRowKeeps
<1>8. CASE Row(f.base, done) /\ local' = IF yes THEN Written(local, f.base, content) ELSE local
  BY <1>1, <1>3, <1>4, <1>8, GetRowKeeps
<1> QED
  BY <1>5, <1>6, <1>7, <1>8

-----------------------------------------------------------------------------
(* StageFiles: the invariant, and what is reported *)

LEMMA EndFilesKeeps == ASSUME FilesInv, EndFiles PROVE FilesInv'
<1>1. /\ job' = [job EXCEPT !.result = "ok"] /\ job.left = <<>> /\ job.result = "running"
      /\ UNCHANGED <<allowPrivate, named, remote, local, jobs>>
  BY DEF EndFiles
<1>2. job \in JobType
  BY DEF FilesInv, StageOK
<1>3. /\ job' \in JobType /\ job'.op = job.op /\ job'.result = "ok" /\ job'.loc = job.loc
      /\ job'.left = job.left /\ job'.rows = job.rows
  BY <1>1, <1>2 DEF JobType
<1>4. StageOK'
  BY <1>1, <1>3 DEF FilesInv, StageOK
<1>5. CountsOK'
  BY <1>3 DEF FilesInv, CountsOK, Successes
<1>6. PutOK'
  BY <1>1, <1>3 DEF FilesInv, PutOK
<1>7. GetOK'
  <2>1. \A loc : Matching(loc)' = Matching(loc) /\ Ambiguous(loc)' = Ambiguous(loc)
    BY <1>1 DEF Matching, Ambiguous
  <2> QED
    BY <1>1, <1>3, <2>1 DEF FilesInv, GetOK
<1> QED
  BY <1>4, <1>5, <1>6, <1>7 DEF FilesInv

LEMMA FilesStutter == ASSUME FilesInv, UNCHANGED filesVars PROVE FilesInv'
BY DEF FilesInv, StageOK, CountsOK, Successes, PutOK, GetOK, Matching, Ambiguous, filesVars

LEMMA FilesInvHolds == FilesSpec => []FilesInv
<1>1. FilesInv /\ [FilesNext]_filesVars => FilesInv'
  BY StartPutKeeps, StartGetKeeps, PutFileKeeps, GetFileKeeps, EndFilesKeeps, FilesStutter DEF FilesNext
<1> QED
  BY InitFilesInv, <1>1, PTL DEF FilesSpec

LEMMA FilesInvReports == ASSUME FilesInv PROVE TransfersReported
<1>1. job \in JobType /\ CountsOK /\ PutOK /\ GetOK
  BY DEF FilesInv, StageOK
<1>2. DOMAIN job.rows = 1 .. Len(job.rows)
  BY <1>1, RowsAre
<1>3. PutReport
  BY <1>1, <1>2 DEF PutReport, PutOK, CountsOK
<1>4. ASSUME job.op = "get", ~Ambiguous(job.loc) 
      PROVE  /\ \A i \in DOMAIN job.rows :
                  /\ job.rows[i].count = Successes(i)
                  /\ job.rows[i].status = "SUCCESS" =>
                       \A p \in Matching(job.loc) :
                         BaseName(p) = job.rows[i].file => local[job.rows[i].file] = remote[p]
             /\ job.result = "ok" =>
                  {job.rows[i].file : i \in DOMAIN job.rows} = {BaseName(p) : p \in Matching(job.loc)}
  <2>1. CASE job.result = "error"
    <3>1. Len(job.rows) = 0
      BY <2>1 DEF FilesInv, StageOK
    <3> QED
      BY <1>2, <2>1, <3>1
  <2>2. CASE job.result # "error"
    <3>1. /\ \A i \in 1 .. Len(job.rows) : \E p \in Matching(job.loc) : job.rows[i].file = BaseName(p)
          /\ \A p \in Matching(job.loc) :
               \/ \E i \in 1 .. Len(job.rows) : job.rows[i].file = BaseName(p)
               \/ \E k \in 1 .. Len(job.left) : job.left[k].base = BaseName(p)
          /\ \A i \in 1 .. Len(job.rows), p \in Matching(job.loc) :
               job.rows[i].status = "SUCCESS" /\ BaseName(p) = job.rows[i].file =>
                 job.rows[i].file \in DOMAIN local /\ local[job.rows[i].file] = remote[p]
      BY <1>1, <1>4, <2>2 DEF GetOK
    <3>2. job.result = "ok" => Len(job.left) = 0
      BY DEF FilesInv, StageOK
    <3>3. \A i \in 1 .. Len(job.rows) : job.rows[i].count = Successes(i)
      BY <1>1 DEF CountsOK
    <3>4. job.result = "ok" =>
            {job.rows[i].file : i \in 1 .. Len(job.rows)} = {BaseName(p) : p \in Matching(job.loc)}
      BY <3>1, <3>2
    <3> QED
      BY <1>2, <3>1, <3>3, <3>4
  <2> QED
    BY <2>1, <2>2
<1>5. GetReport
  BY <1>4 DEF GetReport
<1> QED
  BY <1>3, <1>5 DEF TransfersReported

\* What PUT and GET report is what is in the stage and in the directory.
THEOREM TransfersAreReported == FilesSpec => []TransfersReported
<1>1. FilesInv => TransfersReported
  BY FilesInvReports
<1> QED
  BY <1>1, FilesInvHolds, PTL

-----------------------------------------------------------------------------
(* IntervalParts *)

CONSTANTS Width, MicroWidth, MICROS_PER_SEC
Parts == INSTANCE IntervalParts

\* Between two multiples of a number there is room for less than it.
LEMMA QuotientUnique ==
  ASSUME NEW q \in Int, NEW p \in Int, NEW d \in Nat \ {0}, NEW r \in 0 .. d - 1, NEW s \in 0 .. d - 1,
         q * d + r = p * d + s
  PROVE  q = p /\ r = s
<1>1. ASSUME NEW a \in Int, NEW b \in Int, a > b PROVE a * d >= b * d + d
  <2>1. a - b - 1 \in Nat
    BY <1>1
  <2>2. (a - b - 1) * d >= 0
    BY <2>1
  <2>3. (a - b - 1) * d = a * d - b * d - d
    OBVIOUS
  <2> QED
    BY <2>2, <2>3
<1>2. ~ q > p
  BY <1>1
<1>3. ~ p > q
  BY <1>1
<1>4. q = p
  BY <1>2, <1>3
<1> QED
  BY <1>4

LEMMA DivMod ==
  ASSUME NEW q \in Int, NEW d \in Nat \ {0}, NEW r \in 0 .. d - 1
  PROVE  (q * d + r) \div d = q /\ (q * d + r) % d = r
<1>1. PICK n \in Int : n = q * d + r
  OBVIOUS
<1>2. /\ n \div d \in Int /\ n % d \in 0 .. d - 1
      /\ (n \div d) * d + (n % d) = n
  OBVIOUS
<1> QED
  BY <1>1, <1>2, QuotientUnique

\* A number cut to its width and read with its sign is the number.
LEMMA SignedMod ==
  ASSUME NEW w \in Nat \ {0}, w % 2 = 0, NEW n \in Int, Parts!Fits(n, w)
  PROVE  n % w \in 0 .. w - 1 /\ Parts!Signed(n % w, w) = n
<1>1. w = 2 * (w \div 2) /\ w \div 2 \in Nat
  OBVIOUS
<1>2. -(w \div 2) <= n /\ n < w \div 2
  BY DEF Parts!Fits
<1>3. CASE n >= 0
  <2>1. n \in 0 .. w - 1 /\ 0 * w + n = n
    BY <1>1, <1>2, <1>3
  <2>2. n % w = n
    BY <2>1, DivMod
  <2> QED
    BY <1>2, <2>1, <2>2 DEF Parts!Signed
<1>4. CASE n < 0
  <2>1. PICK q \in Int, r \in 0 .. w - 1 : q = -1 /\ r = n + w
    BY <1>1, <1>2, <1>4
  <2>2. (q * w + r) % w = r
    BY DivMod
  <2>3. q * w + r = n
    BY <2>1
  <2>4. r >= w \div 2
    BY <1>1, <1>2, <2>1
  <2> QED
    BY <2>1, <2>2, <2>3, <2>4 DEF Parts!Signed
<1> QED
  BY <1>3, <1>4

\* What the server packs into the number of an Arrow array the decoder takes out of it,
\* for the widths of i32 and i64 and for any other even ones (arrow_decoder.rs:60-75).
THEOREM PartsComeBack ==
  ASSUME Width \in Nat \ {0}, Width % 2 = 0, MicroWidth \in Nat \ {0}, MicroWidth % 2 = 0,
         NEW i \in [months : Int, days : Int, micros : Int],
         Parts!Fits(i.months, Width), Parts!Fits(i.days, Width), Parts!Fits(i.micros, MicroWidth)
  PROVE  Parts!Unpack(Parts!Pack(i)) = i
<1>1. /\ i.days % Width \in 0 .. Width - 1 /\ Parts!Signed(i.days % Width, Width) = i.days
      /\ Parts!Signed(i.months % Width, Width) = i.months
      /\ i.micros % MicroWidth \in 0 .. MicroWidth - 1
      /\ Parts!Signed(i.micros % MicroWidth, MicroWidth) = i.micros
  BY SignedMod
<1>2. PICK P \in Nat \ {0}, m \in Int, d \in 0 .. Width - 1, u \in 0 .. MicroWidth - 1 :
        /\ P = MicroWidth * Width
        /\ m = i.months /\ d = i.days % Width /\ u = i.micros % MicroWidth
  BY <1>1
<1>3. Parts!Pack(i) = m * P + d * MicroWidth + u
  BY <1>2 DEF Parts!Pack
<1>4. m * P + d * MicroWidth + u = (m * Width + d) * MicroWidth + u
  BY <1>2
<1>5. PICK q \in Int : q = m * Width + d
  BY <1>2
<1>6. (q * MicroWidth + u) \div MicroWidth = q /\ (q * MicroWidth + u) % MicroWidth = u
  <2>1. q \in Int /\ u \in 0 .. MicroWidth - 1
    BY <1>2, <1>5
  <2> QED
    BY <2>1, DivMod
<1>7. q % Width = d
  <2>1. m \in Int /\ d \in 0 .. Width - 1
    BY <1>2
  <2> QED
    BY <1>5, <2>1, DivMod
<1>8. PICK l \in Int : l = d * MicroWidth + u
  BY <1>2
<1>9. l \in 0 .. P - 1
  <2>1. (Width - 1 - d) * MicroWidth >= 0
    BY <1>2
  <2>2. (Width - 1 - d) * MicroWidth = MicroWidth * Width - MicroWidth - d * MicroWidth
    BY <1>2
  <2>3. d * MicroWidth >= 0
    BY <1>2
  <2> QED
    BY <1>2, <1>8, <2>1, <2>2, <2>3
<1>10. (m * P + l) \div P = m
  <2>1. m \in Int /\ P \in Nat \ {0}
    BY <1>2
  <2> QED
    BY <1>9, <2>1, DivMod
<1>11. Parts!Pack(i) \div P = m /\ (Parts!Pack(i) \div MicroWidth) % Width = d
       /\ Parts!Pack(i) % MicroWidth = u
  <2>1. Parts!Pack(i) = q * MicroWidth + u
    BY <1>3, <1>4, <1>5
  <2>2. Parts!Pack(i) = m * P + l
    BY <1>2, <1>3, <1>8
  <2>3. Parts!Pack(i) \div P = m
    BY <1>10, <2>2
  <2> QED
    BY <1>6, <1>7, <2>1, <2>3
<1>12. Parts!Unpack(Parts!Pack(i)) = Parts!Interval(i.months, i.days, i.micros)
  BY <1>1, <1>2, <1>11 DEF Parts!Unpack
<1> QED
  BY <1>12 DEF Parts!Interval

-----------------------------------------------------------------------------

\* A division leaves less than its divisor.
LEMMA Remainder ==
  ASSUME NEW n \in Nat, NEW d \in Nat \ {0}
  PROVE  n \div d \in Nat /\ n - (n \div d) * d \in 0 .. d - 1
<1>1. n \div d \in Int /\ n % d \in 0 .. d - 1 /\ (n \div d) * d + (n % d) = n
  OBVIOUS
<1>2. ASSUME n \div d < 0 PROVE FALSE
  <2>1. (-(n \div d) - 1) * d >= 0
    BY <1>1, <1>2
  <2>2. (-(n \div d) - 1) * d = -((n \div d) * d) - d
    BY <1>1
  <2> QED
    BY <1>1, <2>1, <2>2
<1> QED
  BY <1>1, <1>2

\* What is less than k times a number holds it less than k times.
LEMMA BelowTimes ==
  ASSUME NEW n \in Nat, NEW d \in Nat \ {0}, NEW k \in Nat, n < k * d
  PROVE  n \div d < k
<1>1. n \div d \in Nat /\ n - (n \div d) * d \in 0 .. d - 1
  BY Remainder
<1>2. ASSUME n \div d >= k PROVE FALSE
  <2>1. ((n \div d) - k) * d >= 0
    BY <1>1, <1>2
  <2>2. ((n \div d) - k) * d = (n \div d) * d - k * d
    BY <1>1
  <2> QED
    BY <1>1, <2>1, <2>2
<1> QED
  BY <1>1, <1>2

\* The time of day a text shows has minutes and seconds below sixty and a fraction below
\* a second, and is the micros it was made from when it is read (interval.rs:99-123, 229-286).
THEOREM ClockComesBack ==
  ASSUME MICROS_PER_SEC \in Nat \ {0}, NEW micros \in Nat
  PROVE  LET clock == Parts!ClockOf(micros)
         IN /\ clock.hour \in Nat /\ clock.min \in 0 .. 59 /\ clock.sec \in 0 .. 59
            /\ clock.micros \in 0 .. MICROS_PER_SEC - 1
            /\ Parts!MicrosOf(clock) = micros
<1> DEFINE S == MICROS_PER_SEC
           M == Parts!MICROS_PER_MINUTE
           H == Parts!MICROS_PER_HOUR
           hour == micros \div H
           ofHour == micros - hour * H
           min == ofHour \div M
           ofMinute == ofHour - min * M
           sec == ofMinute \div S
           rest == ofMinute - sec * S
<1>1. /\ S \in Nat \ {0} /\ M \in Nat \ {0} /\ H \in Nat \ {0} /\ M = 60 * S /\ H = 60 * M
  BY DEF Parts!MICROS_PER_MINUTE, Parts!MICROS_PER_HOUR
<1>2. /\ Parts!ClockOf(micros).hour = hour /\ Parts!ClockOf(micros).min = min
      /\ Parts!ClockOf(micros).sec = sec /\ Parts!ClockOf(micros).micros = rest
  BY DEF Parts!ClockOf
<1>3. Parts!MicrosOf(Parts!ClockOf(micros)) = hour * H + min * M + sec * S + rest
  BY <1>2 DEF Parts!MicrosOf
<1> HIDE DEF S, M, H
<1>4. hour \in Nat /\ ofHour \in 0 .. H - 1
  BY <1>1, Remainder
<1> HIDE DEF hour, ofHour
<1>5. min \in 0 .. 59 /\ ofMinute \in 0 .. M - 1
  <2>1. ofHour \in Nat /\ ofHour < 60 * M
    BY <1>1, <1>4
  <2>2. ofHour \div M \in Nat /\ ofHour - (ofHour \div M) * M \in 0 .. M - 1
    BY <1>1, <2>1, Remainder
  <2>3. ofHour \div M < 60
    BY <1>1, <2>1, BelowTimes
  <2> QED
    BY <2>2, <2>3
<1> HIDE DEF min, ofMinute
<1>6. sec \in 0 .. 59 /\ rest \in 0 .. S - 1
  <2>1. ofMinute \in Nat /\ ofMinute < 60 * S
    BY <1>1, <1>5
  <2>2. ofMinute \div S \in Nat /\ ofMinute - (ofMinute \div S) * S \in 0 .. S - 1
    BY <1>1, <2>1, Remainder
  <2>3. ofMinute \div S < 60
    BY <1>1, <2>1, BelowTimes
  <2> QED
    BY <2>2, <2>3
<1> HIDE DEF sec
<1>7. hour * H + min * M + sec * S + rest = micros
  BY <1>1, <1>4, <1>5, <1>6 DEF ofHour, ofMinute
<1> QED
  BY <1>2, <1>3, <1>4, <1>5, <1>6, <1>7 DEF S

\* Years and months have the sign of the months they were made from and add up to them,
\* without an overflow on the way (interval.rs:86-91, 396-430).
THEOREM MonthsComeBack ==
  ASSUME Width \in Nat \ {0}, NEW months \in Int, Parts!Fits(months, Width)
  PROVE  LET years == Parts!Sum(0, 12 * Parts!YearsOf(months), Width)
         IN /\ Parts!MonthsOf(months) \in -11 .. 11
            /\ Parts!Sum(years, Parts!MonthsOf(months), Width) = months
<1> DEFINE years == Parts!YearsOf(months)
<1>1. years \in Int /\ months - 12 * years \in -11 .. 11
      /\ (months >= 0 => 0 <= years /\ 12 * years <= months)
      /\ (months < 0 => years <= 0 /\ months <= 12 * years)
  BY DEF Parts!YearsOf, Parts!Quotient
<1>2. Parts!MonthsOf(months) = months - 12 * years
  BY DEF Parts!MonthsOf
<1> HIDE DEF years
<1>3. Width \div 2 \in Nat /\ (Width \div 2 > 0 \/ Width = 1)
  OBVIOUS
<1>4. Parts!Sum(0, 12 * years, Width) = 12 * years
  BY <1>1, <1>3 DEF Parts!Sum, Parts!Fits
<1>5. Parts!Sum(12 * years, Parts!MonthsOf(months), Width) = months
  <2>1. Parts!Fits(months - 12 * years, Width)
    BY <1>1, <1>3 DEF Parts!Fits
  <2> QED
    BY <1>1, <1>2, <2>1 DEF Parts!Sum
<1> QED
  BY <1>1, <1>2, <1>4, <1>5 DEF years

=============================================================================
