------------------------- MODULE SessionState_proofs -------------------------
(***************************************************************************)
(* The properties of SessionState for any set of changes and nodes and any *)
(* bounds.  What has to be added to them says how far the request on its   *)
(* way has come: what it carries and what its answer may hold.             *)
(***************************************************************************)
EXTENDS SessionState, TLAPS

USE SessionStateAssumption

-----------------------------------------------------------------------------
(* The inductive invariant *)

Statement == kind \in {"query", "load"}

\* The request has left; its answer is there.
Out == stage \in {"send", "wait", "header", "store"}
Answered == stage \in {"header", "store"}

\* Only a query has a hint and ids.
KindOK ==
  /\ stage \in {"hint", "copy", "send", "header", "ids"} => kind = "query"
  /\ Answered /\ kind # "query" => ~answer.ok

\* A statement carries the routing facts of the session, a page too if it is no old one.
CarriesRouting ==
  Out /\ (Statement \/ "stale" \notin lapses) =>
    ("active" \in sent <=> "active" \in session) /\ ("sticky" \in sent <=> "sticky" \in session)

\* A new hint comes with no transaction, neither the client's nor the server's.
HintOK ==
  /\ stage = "hint" => "active" \notin session
  /\ stage = "header" /\ "active" \in sent => answer.hint = None

\* A page brings the state of its statement; a session becomes sticky by the answer to a
\* query that names the node.
AnswerOK ==
  Answered =>
    /\ kind = "page" => answer.session \in {NoSession, sent}
    /\ "sticky" \in answer.session => "sticky" \in sent \/ (answer.ok /\ answer.node \in Node)
    /\ answer.ok /\ "sticky" \in sent => sentNode \in {answer.node, None}

\* The last node is the home of a sticky session, or about to be.
HomeOK ==
  "stale" \notin lapses /\ "sticky" \in session =>
    /\ home # None
    /\ IF stage = "ids" THEN answer.node = home ELSE lastNode = home

SentHome ==
  "stale" \notin lapses /\ stage \in {"wait", "header", "store"} /\ kind = "query" /\ "sticky" \in sent
    => sentNode = home /\ home # None

\* What the state amounts to is what the client has, or what the answer brings.
TruthOK ==
  lapses = {} =>
    /\ Out => sent = session
    /\ ~Answered => session = truth
    /\ Answered => truth = IF answer.session = NoSession THEN session ELSE answer.session

IInv ==
  /\ TypeOK /\ KindOK /\ CarriesRouting /\ HintOK
  /\ AnswerOK /\ HomeOK /\ SentHome /\ TruthOK

\* A set of facts is not what stands for a missing session.
LEMMA FactsAreASession == \A s \in SUBSET Fact : s # NoSession
BY DEF NoSession

LEMMA InitIInv == Init => IInv
<1> SUFFICES ASSUME Init PROVE IInv
  OBVIOUS
<1> USE DEF Init, Bare, Answer, NoSession
<1>1. TypeOK
  BY DEF TypeOK, Fact
<1>2. KindOK /\ CarriesRouting /\ HintOK /\ AnswerOK
  BY DEF KindOK, CarriesRouting, HintOK, AnswerOK, Out, Answered, Statement
<1>3. HomeOK /\ SentHome /\ TruthOK
  BY DEF HomeOK, SentHome, TruthOK, Out, Answered
<1> QED
  BY <1>1, <1>2, <1>3 DEF IInv

-----------------------------------------------------------------------------
(* One lemma per action *)

\* Only the way the request takes from here is decided.
LEMMA StartQueryKeeps == ASSUME IInv, StartQuery PROVE IInv'
<1> USE DEF IInv, StartQuery, clientVars, requestVars, serverVars
<1>1. TypeOK'
  BY DEF TypeOK
<1>2. KindOK'
  BY DEF KindOK
<1>3. CarriesRouting'
  BY DEF CarriesRouting, Out
<1>4. HintOK'
  BY DEF HintOK
<1>5. AnswerOK'
  BY DEF AnswerOK, Answered
<1>6. HomeOK'
  BY DEF HomeOK
<1>7. SentHome'
  BY DEF SentHome
<1>8. TruthOK'
  BY DEF TruthOK, Out, Answered
<1> QED
  BY <1>1, <1>2, <1>3, <1>4, <1>5, <1>6, <1>7, <1>8 DEF IInv

\* The hint is generated for no transaction.
LEMMA NextHintKeeps == ASSUME IInv, NextHint PROVE IInv'
<1> USE DEF IInv, NextHint, clientVars, requestVars, serverVars
<1>1. TypeOK'
  BY DEF TypeOK
<1>2. KindOK'
  BY DEF KindOK
<1>3. CarriesRouting'
  BY DEF CarriesRouting, Out
<1>4. HintOK'
  BY DEF HintOK
<1>5. AnswerOK'
  BY DEF AnswerOK, Answered
<1>6. HomeOK'
  BY DEF HomeOK
<1>7. SentHome'
  BY DEF SentHome
<1>8. TruthOK'
  BY DEF TruthOK, Out, Answered
<1> QED
  BY <1>1, <1>2, <1>3, <1>4, <1>5, <1>6, <1>7, <1>8 DEF IInv

\* From here on what is sent is what the session is.
LEMMA CopySessionKeeps == ASSUME IInv, CopySession PROVE IInv'
<1> USE DEF IInv, CopySession, clientVars, requestVars, serverVars
<1>1. TypeOK'
  BY DEF TypeOK
<1>2. KindOK'
  BY DEF KindOK
<1>3. CarriesRouting'
  BY DEF CarriesRouting
<1>4. HintOK'
  BY DEF HintOK
<1>5. AnswerOK'
  BY DEF AnswerOK, Answered
<1>6. HomeOK'
  BY DEF HomeOK
<1>7. SentHome'
  BY DEF SentHome
<1>8. TruthOK'
  BY DEF TruthOK, Answered
<1> QED
  BY <1>1, <1>2, <1>3, <1>4, <1>5, <1>6, <1>7, <1>8 DEF IInv

\* The sticky node is the home of the session.
LEMMA SendQueryKeeps == ASSUME IInv, SendQuery PROVE IInv'
<1> USE DEF IInv, SendQuery, clientVars, requestVars, serverVars
<1>1. TypeOK'
  BY DEF TypeOK
<1>2. KindOK'
  BY DEF KindOK
<1>3. CarriesRouting'
  BY DEF CarriesRouting, Statement, Out
<1>4. HintOK'
  BY DEF HintOK
<1>5. AnswerOK'
  BY DEF AnswerOK, Answered
<1>6. HomeOK'
  BY DEF HomeOK
<1>7. SentHome'
  BY DEF CarriesRouting, HomeOK, SentHome, Out
<1>8. TruthOK'
  BY DEF TruthOK, Out, Answered
<1> QED
  BY <1>1, <1>2, <1>3, <1>4, <1>5, <1>6, <1>7, <1>8 DEF IInv

\* A load copies the session at once.
LEMMA StartLoadKeeps == ASSUME IInv, StartLoad PROVE IInv'
<1> USE DEF IInv, StartLoad, clientVars, requestVars, serverVars
<1>1. TypeOK'
  BY DEF TypeOK
<1>2. KindOK'
  BY DEF KindOK, Answered
<1>3. CarriesRouting'
  BY DEF CarriesRouting
<1>4. HintOK'
  BY DEF HintOK
<1>5. AnswerOK'
  BY DEF AnswerOK, Answered
<1>6. HomeOK'
  BY DEF HomeOK
<1>7. SentHome'
  BY DEF SentHome
<1>8. TruthOK'
  BY DEF TruthOK, Answered
<1> QED
  BY <1>1, <1>2, <1>3, <1>4, <1>5, <1>6, <1>7, <1>8 DEF IInv

\* A page that is not stale belongs to the session as it is.
LEMMA StartPageKeeps == ASSUME IInv, StartPage PROVE IInv'
<1> USE DEF IInv, StartPage, clientVars, requestVars, serverVars
<1>1. TypeOK'
  BY DEF TypeOK
<1>2. KindOK'
  BY DEF KindOK, Answered
<1>3. CarriesRouting'
  BY DEF CarriesRouting, Statement
<1>4. HintOK'
  BY DEF HintOK
<1>5. AnswerOK'
  BY DEF AnswerOK, Answered
<1>6. HomeOK'
  BY DEF HomeOK
<1>7. SentHome'
  BY DEF SentHome
<1>8. TruthOK'
  BY DEF TruthOK, Answered
<1> QED
  BY <1>1, <1>2, <1>3, <1>4, <1>5, <1>6, <1>7, <1>8 DEF IInv

\* A local change touches no routing fact.
LEMMA SetLocalKeeps == ASSUME IInv, NEW c \in Change, SetLocal(c) PROVE IInv'
<1> USE DEF IInv, SetLocal, clientVars, requestVars, serverVars
<1>1. TypeOK'
  <2>1. session' \subseteq Fact /\ truth' \subseteq Fact /\ made' \subseteq Change
    BY DEF TypeOK, Fact
  <2>2. lapses' \subseteq {"stale", "changed", "lost"}
    BY DEF TypeOK
  <2> QED
    BY <2>1, <2>2 DEF TypeOK
<1>2. KindOK'
  BY DEF KindOK, Answered
<1>3. CarriesRouting'
  BY DEF CarriesRouting, Statement, Out
<1>4. HintOK'
  BY DEF HintOK
<1>5. AnswerOK'
  BY DEF AnswerOK, Answered
<1>6. HomeOK'
  BY DEF HomeOK
<1>7. SentHome'
  BY DEF SentHome
<1>8. TruthOK'
  BY DEF TruthOK, Out, Answered
<1> QED
  BY <1>1, <1>2, <1>3, <1>4, <1>5, <1>6, <1>7, <1>8 DEF IInv

\* The answer to a query: its session, its hint and its node.
LEMMA ServeQueryKeeps == ASSUME IInv, ServeQuery PROVE IInv'
<1> USE DEF IInv, ServeQuery, clientVars, requestVars, serverVars,
            After, AfterFailure, Reports, Hints, Answer, NoSession
<1>1. PICK ok \in BOOLEAN, n \in IF sentNode = None THEN Node ELSE {sentNode}, h \in Hints :
        \E s \in IF ok THEN After(sent) ELSE AfterFailure(sent) :
          /\ \E r \in Reports(s) : answer' = Answer(r, h, n, ok)
          /\ truth' = s /\ made' = made \cup (s \cap Change)
  OBVIOUS
<1>2. PICK s \in IF ok THEN After(sent) ELSE AfterFailure(sent) :
          /\ \E r \in Reports(s) : answer' = Answer(r, h, n, ok)
          /\ truth' = s /\ made' = made \cup (s \cap Change)
  BY <1>1
<1>3. PICK r \in Reports(s) : answer' = Answer(r, h, n, ok)
  BY <1>2
<1>4. TypeOK'
  <2>1. s \subseteq Fact
    <3>1. s \in After(sent) \/ s \in AfterFailure(sent)
      BY <1>2
    <3>2. sent \subseteq Fact
      BY DEF TypeOK
    <3>3. After(sent) \subseteq SUBSET Fact /\ AfterFailure(sent) \subseteq SUBSET Fact
      BY <3>2 DEF Fact
    <3> QED
      BY <3>1, <3>3
  <2>2. r \in (SUBSET Fact) \cup {NoSession}
    BY <1>3, <2>1
  <2>3. n \in Node \cup {None} /\ h \in Nat \cup {None, ServerHint}
    BY <1>1 DEF TypeOK
  <2>4. answer' \in [session : (SUBSET Fact) \cup {NoSession}, hint : Nat \cup {None, ServerHint},
                    node : Node \cup {None}, ok : BOOLEAN]
    BY <1>3, <2>2, <2>3
  <2> QED
    BY <1>2, <2>1, <2>4 DEF TypeOK
<1>5. KindOK'
  BY DEF KindOK
<1>6. CarriesRouting'
  BY DEF CarriesRouting, Statement, Out
<1>7. HintOK'
  BY DEF HintOK
<1>8. AnswerOK'
  <2>1. ~ok => ("sticky" \in r => "sticky" \in sent)
    BY <1>2, <1>3, FactsAreASession DEF Fact
  <2>2. answer'.session = r /\ answer'.node = n /\ answer'.ok = ok
    BY <1>3
  <2>3. n \in Node /\ sentNode \in {n, None}
    BY <1>1 DEF TypeOK
  <2> QED
    BY <2>1, <2>2, <2>3 DEF AnswerOK
<1>9. HomeOK'
  BY DEF HomeOK
<1>40. SentHome'
  BY DEF SentHome
<1>41. TruthOK'
  <2>1. s # NoSession
    BY <1>2, FactsAreASession DEF TypeOK, Fact
  <2>2. answer'.session = s \/ (answer'.session = NoSession /\ s = sent)
    BY <1>3
  <2> QED
    BY <1>2, <2>1, <2>2 DEF TruthOK, Out, Answered
<1> QED
  BY <1>4, <1>5, <1>6, <1>7, <1>8, <1>9, <1>40, <1>41 DEF IInv

\* A load makes nothing sticky.
LEMMA ServeLoadKeeps == ASSUME IInv, ServeLoad PROVE IInv'
<1> USE DEF IInv, ServeLoad, clientVars, requestVars, serverVars,
            AfterFailure, Reports, Bare, Answer, NoSession
<1>1. TypeOK'
  BY DEF TypeOK
<1>2. KindOK'
  BY DEF KindOK
<1>3. CarriesRouting'
  BY DEF CarriesRouting, Statement, Out
<1>4. HintOK'
  BY DEF HintOK
<1>5. AnswerOK'
  BY DEF AnswerOK, Fact
<1>6. HomeOK'
  BY DEF HomeOK
<1>7. SentHome'
  BY DEF SentHome
<1>8. TruthOK'
  <2>1. PICK s \in AfterFailure(sent) : truth' = s /\ \E r \in Reports(s) : answer' = Bare(r)
    OBVIOUS
  <2>2. s # NoSession
    BY FactsAreASession DEF TypeOK
  <2>3. answer'.session = s \/ (answer'.session = NoSession /\ s = sent)
    BY <2>1
  <2> QED
    BY <2>1, <2>2, <2>3 DEF TruthOK, Out, Answered
<1> QED
  BY <1>1, <1>2, <1>3, <1>4, <1>5, <1>6, <1>7, <1>8 DEF IInv

\* A page repeats the session of its statement.
LEMMA ServePageKeeps == ASSUME IInv, ServePage PROVE IInv'
<1> USE DEF IInv, ServePage, clientVars, requestVars, serverVars, Answer, NoSession
<1>1. TypeOK'
  BY DEF TypeOK
<1>2. KindOK'
  BY DEF KindOK
<1>3. CarriesRouting'
  BY DEF CarriesRouting, Statement, Out
<1>4. HintOK'
  BY DEF HintOK
<1>5. AnswerOK'
  BY DEF AnswerOK, Fact
<1>6. HomeOK'
  BY DEF HomeOK
<1>7. SentHome'
  BY DEF SentHome
<1>8. TruthOK'
  BY DEF TruthOK, Out, Answered
<1> QED
  BY <1>1, <1>2, <1>3, <1>4, <1>5, <1>6, <1>7, <1>8 DEF IInv

\* A lost answer changes nothing at the client.
LEMMA LoseKeeps == ASSUME IInv, Lose PROVE IInv'
<1> USE DEF IInv, Lose, clientVars, requestVars, serverVars
<1>1. TypeOK'
  BY DEF TypeOK
<1>2. KindOK'
  BY DEF KindOK, Answered
<1>3. CarriesRouting'
  BY DEF CarriesRouting, Out
<1>4. HintOK'
  BY DEF HintOK
<1>5. AnswerOK'
  BY DEF AnswerOK, Answered
<1>6. HomeOK'
  BY DEF HomeOK
<1>7. SentHome'
  BY DEF SentHome
<1>8. TruthOK'
  BY DEF AnswerOK, TruthOK, Out, Answered
<1> QED
  BY <1>1, <1>2, <1>3, <1>4, <1>5, <1>6, <1>7, <1>8 DEF IInv

\* In a transaction the answer brings no hint.
LEMMA SetHintKeeps == ASSUME IInv, SetHint PROVE IInv'
<1> USE DEF IInv, SetHint, clientVars, requestVars, serverVars, NoSession
<1>1. TypeOK'
  BY DEF TypeOK
<1>2. KindOK'
  BY DEF KindOK
<1>3. CarriesRouting'
  BY DEF CarriesRouting, Statement, Out
<1>4. HintOK'
  BY DEF HintOK
<1>5. AnswerOK'
  BY DEF AnswerOK, Answered
<1>6. HomeOK'
  BY DEF HomeOK
<1>7. SentHome'
  BY DEF SentHome
<1>8. TruthOK'
  BY DEF TruthOK, Out, Answered
<1> QED
  BY <1>1, <1>2, <1>3, <1>4, <1>5, <1>6, <1>7, <1>8 DEF IInv

\* The client's session becomes what the answer says.
LEMMA StoreKeeps == ASSUME IInv, Store PROVE IInv'
<1> USE DEF IInv, Store, clientVars, requestVars, serverVars, TakeOver, NoSession
<1>1. TypeOK'
  BY DEF TypeOK
<1>2. KindOK'
  BY DEF KindOK, Answered
<1>3. CarriesRouting'
  BY DEF CarriesRouting, Out
<1>4. HintOK'
  BY DEF HintOK
<1>5. AnswerOK'
  BY DEF AnswerOK, Answered
<1>6. HomeOK'
  BY DEF KindOK, CarriesRouting, AnswerOK, HomeOK, SentHome, Out, Answered
<1>7. SentHome'
  BY DEF SentHome
<1>8. TruthOK'
  BY DEF TruthOK, Out, Answered
<1> QED
  BY <1>1, <1>2, <1>3, <1>4, <1>5, <1>6, <1>7, <1>8 DEF IInv

\* The last node is the one that answered.
LEMMA SetIdsKeeps == ASSUME IInv, SetIds PROVE IInv'
<1> USE DEF IInv, SetIds, clientVars, requestVars, serverVars, NoSession
<1>1. TypeOK'
  BY DEF TypeOK
<1>2. KindOK'
  BY DEF KindOK
<1>3. CarriesRouting'
  BY DEF CarriesRouting, Out
<1>4. HintOK'
  BY DEF HintOK
<1>5. AnswerOK'
  BY DEF AnswerOK, Answered
<1>6. HomeOK'
  BY DEF HomeOK
<1>7. SentHome'
  BY DEF SentHome
<1>8. TruthOK'
  BY DEF TruthOK, Out, Answered
<1> QED
  BY <1>1, <1>2, <1>3, <1>4, <1>5, <1>6, <1>7, <1>8 DEF IInv

LEMMA NextKeeps == IInv /\ [Next]_vars => IInv'
<1> SUFFICES ASSUME IInv, [Next]_vars PROVE IInv'
  OBVIOUS
<1>1. CASE Next
  BY <1>1, StartQueryKeeps, NextHintKeeps, CopySessionKeeps, SendQueryKeeps,
      StartLoadKeeps, StartPageKeeps, SetLocalKeeps, ServeQueryKeeps,
      ServeLoadKeeps, ServePageKeeps, LoseKeeps, SetHintKeeps,
      StoreKeeps, SetIdsKeeps
  DEF Next
<1>2. CASE UNCHANGED vars
  BY <1>2 DEF vars, clientVars, requestVars, serverVars, IInv, TypeOK, KindOK,
              CarriesRouting, HintOK, AnswerOK, HomeOK, SentHome, TruthOK, Statement, Out,
              Answered
<1> QED
  BY <1>1, <1>2

LEMMA InvariantHolds == Spec => []IInv
BY InitIInv, NextKeeps, PTL DEF Spec

-----------------------------------------------------------------------------
(* The theorems *)

\* Every variable keeps its type.
THEOREM TypeCorrect == Spec => []TypeOK
<1>1. IInv => TypeOK
  BY DEF IInv
<1> QED
  BY <1>1, InvariantHolds, PTL

\* A step that leaves the session in a transaction leaves the route hint: NextHint and
\* SetHint are the only ones that set it (start_query_inner, handle_page).
THEOREM RouteIsKept == Spec => TxnKeepsRoute
<1> DEFINE Kept == "active" \in session /\ "active" \in session' => hint' = hint
<1>1. IInv /\ [Next]_vars => [Kept]_vars
  <2> SUFFICES ASSUME IInv, [Next]_vars, "active" \in session, "active" \in session'
               PROVE  hint' = hint
    OBVIOUS
  <2>1. CASE NextHint
    BY <2>1 DEF NextHint, IInv, HintOK
  <2>2. CASE SetHint
    BY <2>2 DEF SetHint, IInv, HintOK, KindOK, CarriesRouting, Out, Statement
  <2>3. CASE UNCHANGED hint
    BY <2>3
  <2> QED
    BY <2>1, <2>2, <2>3
    DEF Next, vars, clientVars, StartQuery, CopySession, SendQuery, StartLoad, StartPage,
        SetLocal, ServeQuery, ServeLoad, ServePage, Lose, Store, SetIds
<1> QED
  BY <1>1, InvariantHolds, PTL DEF Spec, TxnKeepsRoute

\* The statements of a sticky session reach its node, however many nodes there are.
THEOREM StatementsGoHome == Spec => []StickyGoesHome
<1>1. IInv => StickyGoesHome
  BY DEF IInv, SentHome, StickyGoesHome
<1> QED
  BY <1>1, InvariantHolds, PTL

\* After any sequence of statements and changes, one at a time, the client's state is the
\* one they amount to.
THEOREM ClientIsCurrent == Spec => []StateIsCurrent
<1>1. IInv => StateIsCurrent
  BY DEF IInv, TruthOK, Answered, StateIsCurrent
<1> QED
  BY <1>1, InvariantHolds, PTL

=============================================================================
