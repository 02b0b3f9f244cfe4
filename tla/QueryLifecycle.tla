---------------------------- MODULE QueryLifecycle ----------------------------
(***************************************************************************)
(* The life of the queries of one session: the page stream Pages           *)
(* (core/src/pages.rs), the query's entry in queries_need_heartbeat, the   *)
(* session's heartbeats, finalize_query and kill_query                     *)
(* (core/src/client.rs), and the server's result set behind them.          *)
(*                                                                         *)
(* A query's pages are numbered: the answer to the query start is page 1,  *)
(* /page/n follows, and Final stands for the /final uri.  A page request   *)
(* is one exchange here, with the retries of RequestRetry inside it.       *)
(***************************************************************************)
EXTENDS Naturals, Sequences

CONSTANTS
  Query,    \* the queries started in the session
  Scripts   \* what the server may have to say: sequences of kinds of pages

Kinds == {"json", "arrow", "progress", "blank"}

ASSUME QueryLifecycleAssumption == Scripts \subseteq Seq(Kinds) \ {<<>>}

VARIABLES
  script,    \* script[q]: the kinds of the pages the server will produce for q
  closes,    \* closes[q]: the last page names a /final uri
  needProgress, \* Pages::need_progress: TRUE for query_iter, FALSE for query_all
  hasNode,   \* the answer to the start names a node_id
  user,      \* user[q]: what the program does with q
  firstPage, \* Pages::first_page: the page held back, 0 for None
  future,    \* Pages::next_page_future: the page it asks for, 0 for None
  net,       \* net[q]: where that request is
  nextUri,   \* Pages::next_uri, 0 for None
  seen,      \* seen[q]: the pages handed to the program, in order
  failed,    \* queries of which a page request failed
  hb,        \* queries_need_heartbeat
  registered,\* history: queries that were put there
  finalReq,  \* the spawned final requests still on their way
  beat,      \* try_heartbeat: "none", "sent", "answered"
  beatIds,   \* the queries it names
  beatGone,  \* queries_to_remove of its answer
  result,    \* server: "none", "live", "over"
  open       \* the session has not been closed: it is heartbeaten

scriptVars == <<script, closes, needProgress, hasNode>>
pagesVars  == <<firstPage, future, net, nextUri>>
beatVars   == <<beat, beatIds, beatGone>>
vars == <<scriptVars, user, pagesVars, seen, failed, hb, registered, finalReq, beatVars,
          result, open>>

Init ==
  /\ script \in [Query -> Scripts] /\ closes \in [Query -> BOOLEAN]
  /\ needProgress \in [Query -> BOOLEAN] /\ hasNode \in [Query -> BOOLEAN]
  /\ user = [q \in Query |-> "idle"]
  /\ firstPage = [q \in Query |-> 0] /\ future = [q \in Query |-> 0]
  /\ net = [q \in Query |-> "none"] /\ nextUri = [q \in Query |-> 0]
  /\ seen = [q \in Query |-> <<>>]
  /\ failed = {} /\ hb = {} /\ registered = {} /\ finalReq = {}
  /\ beat = "none" /\ beatIds = {} /\ beatGone = {}
  /\ result = [q \in Query |-> "none"] /\ open = TRUE

-----------------------------------------------------------------------------
(* Pages of a query *)

LastPage(q) == Len(script[q])
Final(q) == LastPage(q) + 1

\* The next_uri of page n's answer.
NextOf(q, n) ==
  IF n < LastPage(q) THEN n + 1 ELSE IF n = LastPage(q) /\ closes[q] THEN Final(q) ELSE 0

\* What page n holds; the answer to /final has statistics only.
Holds(q, n) == IF n \in 1 .. LastPage(q) THEN script[q][n] ELSE "progress"

-----------------------------------------------------------------------------
(* The program and its Pages *)

\* start_query or query_all sends the query.
StartQuery(q) ==
  /\ user[q] = "idle"
  /\ user' = [user EXCEPT ![q] = "starting"]
  /\ future' = [future EXCEPT ![q] = 1] /\ net' = [net EXCEPT ![q] = "sent"]
  /\ UNCHANGED <<scriptVars, firstPage, nextUri, seen, failed, hb, registered, finalReq,
                 beatVars, result, open>>

\* The first answer makes the Pages, which hold it back as first_page; query_iter
\* goes on in wait_for_schema.
ReadStart(q) ==
  /\ user[q] = "starting" /\ net[q] \in {"answered", "failed"}
  /\ net' = [net EXCEPT ![q] = "none"] /\ future' = [future EXCEPT ![q] = 0]
  /\ IF net[q] = "failed"
     THEN /\ user' = [user EXCEPT ![q] = "ended"] /\ failed' = failed \cup {q}
          /\ UNCHANGED <<firstPage, nextUri>>
     ELSE /\ user' = [user EXCEPT ![q] = IF needProgress[q] THEN "schema" ELSE "reading"]
          /\ firstPage' = [firstPage EXCEPT ![q] = 1]
          /\ nextUri' = [nextUri EXCEPT ![q] = NextOf(q, 1)]
          /\ UNCHANGED failed
  /\ UNCHANGED <<scriptVars, seen, hb, registered, finalReq, beatVars, result, open>>

\* Mutant: wait_for_schema forgets add_back.
AddBackForgotten(q, n) == firstPage' = [firstPage EXCEPT ![q] = 0]

\* add_back: the page becomes first_page again.
AddBack(q, n) == firstPage' = [firstPage EXCEPT ![q] = n]

\* poll_next hands page n over.  wait_for_schema passes blank pages by, puts any
\* other page back and registers the query; later pages go to the program.
HandOver(q, n) ==
  IF user[q] = "schema"
  THEN /\ IF Holds(q, n) = "blank"
          THEN /\ firstPage' = [firstPage EXCEPT ![q] = 0]
               /\ UNCHANGED <<user, hb, registered>>
          ELSE /\ AddBack(q, n)
               /\ user' = [user EXCEPT ![q] = "reading"]
               /\ hb' = IF hasNode[q] THEN hb \cup {q} ELSE hb
               /\ registered' = IF hasNode[q] THEN registered \cup {q} ELSE registered
       /\ UNCHANGED seen
  ELSE /\ firstPage' = [firstPage EXCEPT ![q] = 0]
       /\ seen' = [seen EXCEPT ![q] = Append(@, n)]
       /\ UNCHANGED <<user, hb, registered>>

Polling(q) == user[q] \in {"schema", "reading"}

\* poll_next with a first_page.
TakeFirstPage(q) ==
  /\ Polling(q) /\ firstPage[q] # 0
  /\ HandOver(q, firstPage[q])
  /\ UNCHANGED <<scriptVars, future, net, nextUri, failed, finalReq, beatVars, result, open>>

\* poll_next with a next_uri and no request under way.
RequestPage(q) ==
  /\ Polling(q) /\ firstPage[q] = 0 /\ future[q] = 0 /\ nextUri[q] # 0
  /\ future' = [future EXCEPT ![q] = nextUri[q]] /\ net' = [net EXCEPT ![q] = "sent"]
  /\ UNCHANGED <<scriptVars, user, firstPage, nextUri, seen, failed, hb, registered, finalReq,
                 beatVars, result, open>>

\* Mutant: every page without JSON rows is passed over.
PassesOverAll(q, n) == Holds(q, n) # "json"

\* resp.data.is_empty() && !need_progress.  An arrow page has no `data`.
PassesOver(q, n) == Holds(q, n) # "json" /\ ~needProgress[q]

\* Mutant: next_uri is not advanced past a page that is passed over.
AdvanceLate(q, n) ==
  nextUri' = [nextUri EXCEPT ![q] = IF PassesOver(q, n) THEN @ ELSE NextOf(q, n)]

\* self.next_uri = resp.next_uri.
Advance(q, n) == nextUri' = [nextUri EXCEPT ![q] = NextOf(q, n)]

\* poll_next with the answer to a page request.
ReadPage(q) ==
  /\ Polling(q) /\ firstPage[q] = 0 /\ net[q] = "answered"
  /\ future' = [future EXCEPT ![q] = 0] /\ net' = [net EXCEPT ![q] = "none"]
  /\ Advance(q, future[q])
  /\ IF PassesOver(q, future[q])
     THEN UNCHANGED <<user, firstPage, seen, hb, registered>>
     ELSE HandOver(q, future[q])
  /\ UNCHANGED <<scriptVars, failed, finalReq, beatVars, result, open>>

\* poll_next with an error: the stream is over.  The query stays registered.
ReadError(q) ==
  /\ Polling(q) /\ firstPage[q] = 0 /\ net[q] = "failed"
  /\ future' = [future EXCEPT ![q] = 0] /\ net' = [net EXCEPT ![q] = "none"]
  /\ nextUri' = [nextUri EXCEPT ![q] = 0]
  /\ failed' = failed \cup {q}
  /\ user' = [user EXCEPT ![q] = "ended"]
  /\ UNCHANGED <<scriptVars, firstPage, seen, hb, registered, finalReq, beatVars, result, open>>

\* poll_next with nothing left.
EndStream(q) ==
  /\ Polling(q) /\ firstPage[q] = 0 /\ future[q] = 0 /\ nextUri[q] = 0
  /\ user' = [user EXCEPT ![q] = "ended"]
  /\ UNCHANGED <<scriptVars, pagesVars, seen, failed, hb, registered, finalReq, beatVars,
                 result, open>>

\* Mutant: the heartbeats of a finalized query go on.
FinalizeKeepsBeating(q) ==
  /\ finalReq' = IF q \in hb THEN finalReq \cup {q} ELSE finalReq
  /\ UNCHANGED hb

\* finalize_query: out of the map, and a final request spawned; nothing for a
\* query that is not in the map.
FinalizeQuery(q) ==
  /\ finalReq' = IF q \in hb THEN finalReq \cup {q} ELSE finalReq
  /\ hb' = hb \ {q}

\* Mutant: Drop looks for a /page/ uri only.
EndsOnDropPageOnly(q) == nextUri[q] # 0 /\ nextUri[q] # Final(q)

\* The conditions of Drop for Pages: a next_uri that is a /page/ one, or that
\* nobody has requested.
EndsOnDrop(q) == nextUri[q] # 0 /\ (nextUri[q] # Final(q) \/ future[q] = 0)

\* Drop for Pages.  The request under way is abandoned: the server gets it or not.
DropPages(q) ==
  /\ user[q] \in {"starting", "schema", "reading", "ended"}
  /\ user' = [user EXCEPT ![q] = "gone"]
  /\ IF EndsOnDrop(q) THEN FinalizeQuery(q) ELSE UNCHANGED <<finalReq, hb>>
  /\ UNCHANGED <<scriptVars, pagesVars, seen, failed, registered, beatVars, result, open>>

\* Connection::close: the session is no longer heartbeaten.
CloseSession ==
  /\ open /\ open' = FALSE
  /\ UNCHANGED <<scriptVars, user, pagesVars, seen, failed, hb, registered, finalReq, beatVars,
                 result>>

-----------------------------------------------------------------------------
(* try_heartbeat, run by the loop of ClientManager, one at a time *)

\* The map is cloned, and the queries due are sent.
BeginBeat ==
  /\ open /\ beat = "none"
  /\ \E due \in SUBSET hb : due # {} /\ beatIds' = due
  /\ beat' = "sent"
  /\ UNCHANGED <<scriptVars, user, pagesVars, seen, failed, hb, registered, finalReq, beatGone,
                 result, open>>

\* Mutants: the queries to remove are ignored; the snapshot is put back; the
\* whole snapshot is removed.
RemovalIgnored == hb' = hb
SnapshotRestored == hb' = (hb \cup beatIds) \ beatGone
WholeBeatRemoved == hb' = hb \ beatIds

\* queries_to_remove leave the map; last_access_time of the others is set through
\* get_mut, which adds none.
RemoveGone == hb' = hb \ beatGone

EndBeat ==
  /\ beat = "answered" /\ beat' = "none"
  /\ RemoveGone
  /\ beatIds' = {} /\ beatGone' = {}
  /\ UNCHANGED <<scriptVars, user, pagesVars, seen, failed, registered, finalReq, result, open>>

\* The request fails.
BeatFails ==
  /\ beat # "none" /\ beat' = "none"
  /\ beatIds' = {} /\ beatGone' = {}
  /\ UNCHANGED <<scriptVars, user, pagesVars, seen, failed, hb, registered, finalReq, result, open>>

-----------------------------------------------------------------------------
(* The server and the network *)

\* The server takes the request of q: the query start makes the result set; a
\* page is served while it is live; /final, or a last page without one, ends it.
ServePage(q) ==
  /\ net[q] = "sent"
  /\ IF future[q] = 1 \/ result[q] = "live"
     THEN /\ net' = [net EXCEPT ![q] = "answered"]
          /\ result' = [result EXCEPT ![q] = IF NextOf(q, future[q]) = 0 THEN "over" ELSE "live"]
     ELSE /\ net' = [net EXCEPT ![q] = "failed"]
          /\ UNCHANGED result
  /\ UNCHANGED <<scriptVars, user, firstPage, future, nextUri, seen, failed, hb, registered,
                 finalReq, beatVars, open>>

\* The request, or its answer, is lost, and so were its retries.
LosePage(q) ==
  /\ net[q] \in {"sent", "answered"}
  /\ net' = [net EXCEPT ![q] = "failed"]
  /\ UNCHANGED <<scriptVars, user, firstPage, future, nextUri, seen, failed, hb, registered,
                 finalReq, beatVars, result, open>>

\* end_query's one request reaches the server, or does not.
ServeFinal(q) ==
  /\ q \in finalReq /\ finalReq' = finalReq \ {q}
  /\ result' = [result EXCEPT ![q] = "over"]
  /\ UNCHANGED <<scriptVars, user, pagesVars, seen, failed, hb, registered, beatVars, open>>
LoseFinal(q) ==
  /\ q \in finalReq /\ finalReq' = finalReq \ {q}
  /\ UNCHANGED <<scriptVars, user, pagesVars, seen, failed, hb, registered, beatVars, result, open>>

\* kill_query, by whoever has the query's id.  The map is left alone.
KillQuery(q) ==
  /\ result[q] = "live"
  /\ result' = [result EXCEPT ![q] = "over"]
  /\ UNCHANGED <<scriptVars, user, pagesVars, seen, failed, hb, registered, finalReq, beatVars,
                 open>>

\* The heartbeat is answered with those of its queries that are no longer live.
AnswerBeat ==
  /\ beat = "sent" /\ beat' = "answered"
  /\ beatGone' = {q \in beatIds : result[q] # "live"}
  /\ UNCHANGED <<scriptVars, user, pagesVars, seen, failed, hb, registered, finalReq, beatIds,
                 result, open>>

\* Somebody keeps q's result set from its timeout: the heartbeats of the session
\* (KeepAlive has the times), or the program's requests, sent one after the
\* other until there is a schema, and always in query_all.
KeptAlive(q) ==
  \/ open /\ q \in hb
  \/ user[q] \in {"starting", "schema"}
  \/ user[q] = "reading" /\ ~needProgress[q]
Expire(q) ==
  /\ result[q] = "live" /\ ~KeptAlive(q)
  /\ result' = [result EXCEPT ![q] = "over"]
  /\ UNCHANGED <<scriptVars, user, pagesVars, seen, failed, hb, registered, finalReq, beatVars,
                 open>>

-----------------------------------------------------------------------------

Poll(q) ==
  ReadStart(q) \/ TakeFirstPage(q) \/ RequestPage(q) \/ ReadPage(q) \/ ReadError(q) \/ EndStream(q)

Program(q) == StartQuery(q) \/ Poll(q) \/ DropPages(q)
Server(q) ==
  ServePage(q) \/ LosePage(q) \/ ServeFinal(q) \/ LoseFinal(q) \/ KillQuery(q) \/ Expire(q)
Heartbeat == BeginBeat \/ AnswerBeat \/ EndBeat \/ BeatFails

Next == CloseSession \/ Heartbeat \/ \E q \in Query : Program(q) \/ Server(q)

\* A program in wait_for_schema or in query_all keeps polling; every page request
\* has a timeout; the server gives up a result set nobody keeps alive.  A query
\* nobody reads becomes due again and again, and now and then a heartbeat that
\* names it gets through.
KeepsPolling(q) == user[q] \in {"starting", "schema"} \/ ~needProgress[q]
Fairness ==
  \A q \in Query :
    /\ WF_vars(KeepsPolling(q) /\ Poll(q))
    /\ WF_vars(ServePage(q) \/ LosePage(q))
    /\ WF_vars(ServeFinal(q) \/ LoseFinal(q))
    /\ WF_vars(Expire(q))
    /\ WF_vars(EndBeat)
    /\ SF_vars(BeginBeat /\ q \in beatIds')
    /\ SF_vars(AnswerBeat /\ q \in beatIds)
    /\ SF_vars(EndBeat /\ q \in beatGone)

Spec == Init /\ [][Next]_vars /\ Fairness

-----------------------------------------------------------------------------
(* Properties *)

TypeOK ==
  /\ script \in [Query -> Scripts] /\ closes \in [Query -> BOOLEAN]
  /\ needProgress \in [Query -> BOOLEAN] /\ hasNode \in [Query -> BOOLEAN]
  /\ user \in [Query -> {"idle", "starting", "schema", "reading", "ended", "gone"}]
  /\ firstPage \in [Query -> Nat] /\ future \in [Query -> Nat]
  /\ net \in [Query -> {"none", "sent", "answered", "failed"}]
  /\ nextUri \in [Query -> Nat] /\ seen \in [Query -> Seq(Nat)]
  /\ failed \subseteq Query /\ registered \subseteq Query /\ hb \subseteq registered
  /\ finalReq \subseteq registered
  /\ beat \in {"none", "sent", "answered"}
  /\ beatGone \subseteq beatIds /\ beatIds \subseteq registered
  /\ result \in [Query -> {"none", "live", "over"}] /\ open \in BOOLEAN

\* The pages a program must get.  Left out are the later arrow pages of query_all, which
\* are passed over (pages.rs:167 looks at `data` only).
Needed(q) ==
  {n \in 1 .. LastPage(q) :
     Holds(q, n) = "json" \/ (Holds(q, n) = "arrow" /\ (needProgress[q] \/ n = 1))}

Seen(q) == {seen[q][i] : i \in DOMAIN seen[q]}

\* A stream hands out its pages in order and none twice, and one that ends without an
\* error has handed over every page with rows, whatever pages were put back or passed
\* over on the way.
CompleteResult ==
  \A q \in Query :
    /\ \A i, j \in DOMAIN seen[q] : i < j => seen[q][i] < seen[q][j]
    /\ user[q] = "ended" /\ q \notin failed => Needed(q) \subseteq Seen(q)

\* The result set of a dropped query is not kept alive by the session's own
\* heartbeats, unless a page request failed or /final was under way
\* (pages.rs:175-178, 202).
DroppedIsFinalized ==
  \A q \in Query :
    user[q] = "gone" /\ q \in hb /\ result[q] = "live"
    => q \in failed \/ future[q] = Final(q)

\* While a program reads a result at its own pace, the heartbeats keep it alive:
\* no finalize, answer or failure takes its entry from the map.
ReaderKeptAlive ==
  \A q \in Query :
    user[q] = "reading" /\ needProgress[q] /\ hasNode[q] /\ result[q] = "live" => q \in hb

\* A query that left the map never comes back, though a heartbeat that was begun
\* before ends after (client.rs:1165-1171).
NeverBack == [][\A q \in registered : q \notin hb => q \notin hb']_vars

\* exec returns the write progress of the last page query_all was handed.  It is
\* the number of affected rows if no later page had more.
ExecReportsFinalProgress ==
  \A q \in Query :
    user[q] = "ended" /\ q \notin failed /\ ~needProgress[q]
    => \A n \in seen[q][Len(seen[q])] + 1 .. LastPage(q) : Holds(q, n) # "progress"

\* wait_for_schema and query_all come to an end.
PollingEnds ==
  \A q \in Query :
    (user[q] \in {"starting", "schema"} \/ (user[q] = "reading" /\ ~needProgress[q]))
    ~> (user[q] \in {"ended", "gone"} \/ (user[q] = "reading" /\ needProgress[q]))

\* The server ends the result set of every dropped query, with the exceptions of
\* DroppedIsFinalized.
DroppedIsReleased ==
  \A q \in Query :
    (user[q] = "gone" /\ q \notin failed /\ future[q] # Final(q)) ~> (result[q] # "live")

\* The same without exceptions: a dropped result set is closed.
DroppedResultIsClosed == \A q \in Query : (user[q] = "gone") ~> (result[q] # "live")

\* The entry of a query that is over leaves the map of an open session.
OverLeavesMap ==
  \A q \in Query : (q \in hb /\ result[q] # "live") ~> (q \notin hb \/ ~open)

\* An error or the program cuts the stream off.
StreamState(q) ==
  IF user[q] = "gone" \/ q \in failed THEN "closed"
  ELSE IF user[q] = "ended" THEN "complete" ELSE "running"

\* The pages that reach the program form the result stream the query promises.
Stream == INSTANCE ResultStream WITH
  pages <- [q \in Query |-> Final(q)],
  needed <- [q \in Query |-> Needed(q)],
  out <- seen,
  state <- [q \in Query |-> StreamState(q)]
ImplementsResultStream == Stream!Spec

=============================================================================
