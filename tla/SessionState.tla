----------------------------- MODULE SessionState -----------------------------
(***************************************************************************)
(* The session state of one APIClient (core/src/client.rs, session.rs).    *)
(* The client keeps it, sends it with every statement and takes over what  *)
(* the server answers.  Two of its facts route statements: in an active    *)
(* transaction the route hint stays, in a sticky session statements go to  *)
(* the node of the last answer.                                            *)
(*                                                                         *)
(* The state is a set of facts: "active" is txn_state, "sticky" is         *)
(* need_sticky, a member of Change one change of database, role or         *)
(* setting.  The program has one request out at a time: the answers of     *)
(* requests that overlap overwrite each other, and nothing below holds for *)
(* them.  Local changes may come at any time.  A step is what the code     *)
(* does with one lock held.                                                *)
(***************************************************************************)
EXTENDS Naturals, FiniteSets

CONSTANTS
  Change, Node, None,
  ServerHint,  \* a route hint of the server's choice
  MaxHints,    \* bound: hints the client generates
  MaxStreams   \* bound: statements with pages to come

Fact == {"active", "sticky"} \cup Change

ASSUME SessionStateAssumption ==
  /\ {"active", "sticky"} \cap Change = {}
  /\ None \notin Fact /\ None \notin Node /\ None \notin Nat
  /\ ServerHint \notin Nat /\ ServerHint # None

VARIABLES
  session,    \* APIClient::session_state
  hint,       \* RouteHintGenerator::current
  nonce,      \* RouteHintGenerator::nonce
  lastNode,   \* last_node_id
  stage,      \* what happens next to the request, "idle" if there is none
  kind,       \* "query", "load" or "page"
  sent,       \* the session state it carries; of a page, that of its statement
  sentNode,   \* the sticky node in its headers
  answer,     \* its answer
  streams,    \* the sessions of the statements that have pages to come
  made,       \* the changes made so far
  truth,      \* history: the state that everything done so far amounts to
  home,       \* history: the node where the session became sticky
  lapses      \* history: "stale" pages, state "changed" during a request, "lost" answers

clientVars == <<session, hint, nonce, lastNode>>
requestVars == <<kind, sent, sentNode>>
serverVars == <<streams, made, truth>>
vars == <<clientVars, stage, requestVars, answer, serverVars, home, lapses>>

\* An answer, and one without a session.
NoSession == {None}
Answer(s, h, n, ok) == [session |-> s, hint |-> h, node |-> n, ok |-> ok]
Bare(s) == Answer(s, None, None, FALSE)

Init ==
  /\ session = {} /\ hint = 1 /\ nonce = 1 /\ lastNode = None
  /\ stage = "idle" /\ kind = "query"
  /\ sent = {} /\ sentNode = None /\ answer = Bare(NoSession)
  /\ streams = {} /\ made = {} /\ truth = {} /\ home = None /\ lapses = {}

-----------------------------------------------------------------------------
\* start_query_inner

\* in_active_transaction decides about the hint.
StartQuery ==
  /\ stage = "idle"
  /\ kind' = "query"
  /\ stage' = IF "active" \in session THEN "copy" ELSE "hint"
  /\ UNCHANGED <<clientVars, sent, sentNode, answer, serverVars, home, lapses>>

\* route_hint.next()
NextHint ==
  /\ stage = "hint" /\ nonce < MaxHints
  /\ nonce' = nonce + 1 /\ hint' = nonce + 1
  /\ stage' = "copy"
  /\ UNCHANGED <<session, lastNode, requestVars, answer, serverVars, home, lapses>>

\* session_state()
CopySession ==
  /\ stage = "copy"
  /\ sent' = session
  /\ stage' = "send"
  /\ UNCHANGED <<clientVars, kind, sentNode, answer, serverVars, home, lapses>>

\* make_headers with the hint, the sticky node, and the request.
SendQuery ==
  /\ stage = "send"
  /\ sentNode' = IF "sticky" \in sent THEN lastNode ELSE None
  /\ stage' = "wait"
  /\ UNCHANGED <<clientVars, kind, sent, answer, serverVars, home, lapses>>

-----------------------------------------------------------------------------
\* Other requests and local changes

\* streaming_load: the hint and the state as they are, no sticky node.
StartLoad ==
  /\ stage = "idle"
  /\ kind' = "load" /\ sent' = session /\ sentNode' = None
  /\ stage' = "wait"
  /\ UNCHANGED <<clientVars, answer, serverVars, home, lapses>>

\* query_page, of any statement that has pages; the session may be another by now.
StartPage ==
  /\ stage = "idle"
  /\ \E s \in streams :
       /\ sent' = s
       /\ lapses' = lapses \cup (IF s = session THEN {} ELSE {"stale"})
  /\ kind' = "page" /\ sentNode' = None
  /\ stage' = "wait"
  /\ UNCHANGED <<clientVars, answer, serverVars, home>>

\* set_database, set_role, set_session.
SetLocal(c) ==
  /\ c \notin made /\ made' = made \cup {c}
  /\ session' = session \cup {c} /\ truth' = truth \cup {c}
  /\ lapses' = lapses \cup (IF stage = "idle" THEN {} ELSE {"changed"})
  /\ UNCHANGED <<hint, nonce, lastNode, stage, requestVars, answer, streams, home>>

-----------------------------------------------------------------------------
\* The server

\* The session after a statement: SET, BEGIN, COMMIT, the first temporary table, the
\* last one gone, or none of these.  A failing statement may end the transaction.
After(s) ==
  {s \cup {c} : c \in Change \ made}
  \cup {s, s \cup {"active"}, s \ {"active"}, s \cup {"sticky"}, s \ {"sticky"}}
AfterFailure(s) == {s, s \ {"active"}}

\* A changed session is in the answer, an unchanged one may be.
Reports(s) == IF s = sent THEN {s, NoSession} ELSE {s}

\* The hint in the headers of an answer, if it is another than the one sent: the server
\* may route a statement, unless it is in a transaction.
Hints == {None} \cup (IF "active" \in sent THEN {} ELSE {ServerHint})

ServeQuery ==
  /\ stage = "wait" /\ kind = "query"
  /\ \E ok \in BOOLEAN, n \in IF sentNode = None THEN Node ELSE {sentNode}, h \in Hints :
     \E s \in IF ok THEN After(sent) ELSE AfterFailure(sent) :
       /\ \E r \in Reports(s) : answer' = Answer(r, h, n, ok)
       /\ truth' = s /\ made' = made \cup (s \cap Change)
  /\ stage' = "header"
  /\ UNCHANGED <<clientVars, requestVars, streams, home, lapses>>

ServeLoad ==
  /\ stage = "wait" /\ kind = "load"
  /\ \E s \in AfterFailure(sent) :
       truth' = s /\ \E r \in Reports(s) : answer' = Bare(r)
  /\ stage' = "store"
  /\ UNCHANGED <<clientVars, requestVars, streams, made, home, lapses>>

\* A page, perhaps the last; its headers may name a route.
ServePage ==
  /\ stage = "wait" /\ kind = "page"
  /\ \E r \in {sent, NoSession}, h \in {None, ServerHint} : answer' = Answer(r, h, None, FALSE)
  /\ streams' \in {streams, streams \ {sent}}
  /\ stage' = "store"
  /\ UNCHANGED <<clientVars, requestVars, made, truth, home, lapses>>

\* No answer, or one that cannot be decoded; the server may have done its part.
Lose ==
  /\ stage \in {"wait", "store"}
  /\ stage' = "idle"
  /\ lapses' = lapses \cup (IF kind = "page" THEN {} ELSE {"lost"})
  /\ UNCHANGED <<clientVars, requestVars, answer, serverVars, home>>

-----------------------------------------------------------------------------
\* handle_page

\* The first page may bring a hint.
SetHint ==
  /\ stage = "header"
  /\ hint' = IF answer.hint = None THEN hint ELSE answer.hint
  /\ stage' = "store"
  /\ UNCHANGED <<session, nonce, lastNode, requestVars, answer, serverVars, home, lapses>>

\* The session becomes the one in the answer, if there is one.
TakeOver(s) ==
  /\ session' = IF s = NoSession THEN session ELSE s
  /\ home' = IF s # NoSession /\ "sticky" \in s \ session THEN answer.node ELSE home
  /\ stage' = IF answer.ok THEN "ids" ELSE "idle"

\* Mutants: the session of a failed statement is not looked at; every page brings a hint.
StoreUnlessFailed ==
  /\ stage = "store"
  /\ TakeOver(IF kind = "query" /\ ~answer.ok THEN NoSession ELSE answer.session)
  /\ UNCHANGED <<hint, nonce, lastNode, requestVars, answer, serverVars, lapses>>
StoreWithHint ==
  /\ stage = "store"
  /\ TakeOver(answer.session)
  /\ hint' = IF answer.hint = None THEN hint ELSE answer.hint
  /\ UNCHANGED <<nonce, lastNode, requestVars, answer, serverVars, lapses>>

\* handle_session, also for a failed statement; a load does the same.
Store ==
  /\ stage = "store"
  /\ TakeOver(answer.session)
  /\ UNCHANGED <<hint, nonce, lastNode, requestVars, answer, serverVars, lapses>>

\* Mutant: the first node is kept.
SetFirstNode ==
  /\ stage = "ids"
  /\ lastNode' = IF lastNode = None THEN answer.node ELSE lastNode
  /\ stage' = "idle"
  /\ UNCHANGED <<session, hint, nonce, requestVars, answer, serverVars, home, lapses>>

\* set_last_node_id, with the first page of a statement that did not fail.  It may have
\* more pages.
SetIds ==
  /\ stage = "ids"
  /\ lastNode' = answer.node
  /\ LET s == IF answer.session = NoSession THEN sent ELSE answer.session
     IN streams' \in {streams} \cup {st \in {streams \cup {s}} : Cardinality(st) <= MaxStreams}
  /\ stage' = "idle"
  /\ UNCHANGED <<session, hint, nonce, requestVars, answer, made, truth, home, lapses>>

Next ==
  \/ StartQuery \/ NextHint \/ CopySession \/ SendQuery
  \/ StartLoad \/ StartPage \/ \E c \in Change : SetLocal(c)
  \/ ServeQuery \/ ServeLoad \/ ServePage \/ Lose
  \/ SetHint \/ Store \/ SetIds

Spec == Init /\ [][Next]_vars

-----------------------------------------------------------------------------
\* Properties

TypeOK ==
  /\ session \subseteq Fact /\ truth \subseteq Fact /\ made \subseteq Change
  /\ hint \in Nat \cup {ServerHint} /\ nonce \in Nat
  /\ lastNode \in Node \cup {None} /\ home \in Node \cup {None}
  /\ stage \in {"idle", "hint", "copy", "send", "wait", "header", "store", "ids"}
  /\ kind \in {"query", "load", "page"}
  /\ sent \subseteq Fact
  /\ sentNode \in Node \cup {None}
  /\ answer \in [session : (SUBSET Fact) \cup {NoSession}, hint : Nat \cup {None, ServerHint},
                 node : Node \cup {None}, ok : BOOLEAN]
  /\ streams \subseteq SUBSET Fact
  /\ lapses \subseteq {"stale", "changed", "lost"}

\* The route hint does not change inside a transaction, so that a load balancer sends
\* its statements to one place: whatever pages, failures, lost answers and local changes
\* come between, the hint of BEGIN's answer is there before the transaction is.
TxnKeepsRoute ==
  [][ "active" \in session /\ "active" \in session' => hint' = hint ]_vars

\* The statements of a sticky session go to the node that holds its temporary tables,
\* unless a page of an older statement has brought an older state back.
StickyGoesHome ==
  "stale" \notin lapses =>
    (stage = "wait" /\ kind = "query" /\ "sticky" \in sent => sentNode = home /\ home # None)

\* A program that reads no page of an older statement, changes nothing while a request is
\* out and has lost no answer finds the client's state to be what its changes and the
\* server's statements, the failed ones included, amount to.
StateIsCurrent == lapses = {} /\ stage = "idle" => session = truth

=============================================================================
