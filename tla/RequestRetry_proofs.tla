------------------------- MODULE RequestRetry_proofs -------------------------
(***************************************************************************)
(* The bounds on the requests of a call, and what the shared tokens are,   *)
(* for every retry_count, any number of concurrent calls and any mix of    *)
(* answers.                                                                *)
(***************************************************************************)
EXTENDS RequestRetry, TLAPS

USE RequestRetryAssumption

-----------------------------------------------------------------------------
(* The inductive invariant *)

\* The counters and the requests run in step and stop at the boundary; what is
\* sent without the helper is sent once.
CountsOK ==
  \A c \in Call :
    /\ retries[c] <= LastRetry /\ refreshRetries[c] <= LastRetry
    /\ ~UsesHelper(c) => retries[c] = 0 /\ spent[c] = 0
    /\ pc[c] = "idle" => retries[c] = 0 /\ tries[c] = 0 /\ ~refreshed[c]
    /\ pc[c] = "send" => tries[c] = retries[c]
    /\ pc[c] = "wait" => tries[c] = retries[c] + 1
    /\ pc[c] # "done" => outcome[c] = "none"
    /\ Refreshing(c) => ~refreshed[c] /\ (~UsesHelper(c) => tries[c] = 0)
    /\ ~refreshed[c] => spent[c] = 0

\* Unless two refreshes overlapped, one call at a time refreshes; then, and if
\* no refresh was lost, its answer carries the newest tokens, and with no such
\* answer on its way the client has them.
OneRefresh == raced = {} => \A c, d \in Call : Refreshing(c) /\ Refreshing(d) => c = d
Answered(c) == pc[c] = "refreshWait" /\ reply[c] = "200"
AnswerNewest == raced = {} /\ lost = {} => \A c \in Call : Answered(c) => newTokens[c] = issued
StoredNewest == raced = {} /\ lost = {} /\ (\A c \in Call : ~Answered(c)) => stored = issued

IInv == TypeOK /\ CountsOK /\ AttemptsBounded /\ NoEarlyGiveUp
        /\ OneRefresh /\ AnswerNewest /\ StoredNewest

-----------------------------------------------------------------------------

LEMMA AttemptsIsLastRetry == Attempts = LastRetry + 1 /\ LastRetry \in Nat
  BY DEF Attempts, LastRetry

LEMMA InitIInv == Init => IInv
<1> SUFFICES ASSUME Init PROVE IInv
  OBVIOUS
<1> USE AttemptsIsLastRetry DEF Init, Failures
<1>1. TypeOK
  BY DEF TypeOK
<1>2. CountsOK /\ AttemptsBounded /\ NoEarlyGiveUp
  BY DEF CountsOK, AttemptsBounded, NoEarlyGiveUp, Refreshing
<1>3. OneRefresh /\ AnswerNewest /\ StoredNewest
  BY DEF OneRefresh, AnswerNewest, StoredNewest, Answered, Refreshing
<1> QED
  BY <1>1, <1>2, <1>3 DEF IInv

\* A refresh that begins with another under way is remembered in raced.
LEMMA BeginRefreshAlone == ASSUME IInv, NEW c \in Call, BeginRefresh(c) PROVE OneRefresh'
<1> SUFFICES ASSUME raced' = {} PROVE \A x \in Call : Refreshing(x)' => x = c
  BY DEF OneRefresh
<1> SUFFICES ASSUME NEW x \in Call, x # c PROVE ~Refreshing(x)'
  OBVIOUS
<1>1. ~Refreshing(x)
  BY DEF BeginRefresh
<1> QED
  BY <1>1 DEF IInv, TypeOK, BeginRefresh, Refreshing

-----------------------------------------------------------------------------
(* One lemma per action *)

USE AttemptsIsLastRetry

\* A token's end touches no call.
LEMMA ExpireKeeps == ASSUME IInv, Expire PROVE IInv'
<1> USE DEF IInv, TypeOK, Expire, config, answerVars, credVars, countVars,
        serverVars, Failures
<1>1. TypeOK'
  OBVIOUS
<1>2. CountsOK' /\ AttemptsBounded' /\ NoEarlyGiveUp'
  BY DEF CountsOK, AttemptsBounded, NoEarlyGiveUp, Refreshing, UsesHelper,
        ReloadIf401, RetryIf503
<1>3. OneRefresh' /\ AnswerNewest' /\ StoredNewest'
  BY DEF OneRefresh, AnswerNewest, StoredNewest, Refreshing, Answered
<1> QED
  BY <1>1, <1>2, <1>3

\* A new credential touches no call.
LEMMA RotateKeeps == ASSUME IInv, Rotate PROVE IInv'
<1> USE DEF IInv, TypeOK, Rotate, config, answerVars, credVars, countVars,
        serverVars, Failures
<1>1. TypeOK'
  OBVIOUS
<1>2. CountsOK' /\ AttemptsBounded' /\ NoEarlyGiveUp'
  BY DEF CountsOK, AttemptsBounded, NoEarlyGiveUp, Refreshing, UsesHelper,
        ReloadIf401, RetryIf503
<1>3. OneRefresh' /\ AnswerNewest' /\ StoredNewest'
  BY DEF OneRefresh, AnswerNewest, StoredNewest, Refreshing, Answered
<1> QED
  BY <1>1, <1>2, <1>3

\* A call begins with its counters at zero.
LEMMA StartCallKeeps == ASSUME IInv, NEW c \in Call, StartCall(c) PROVE IInv'
<1> USE DEF IInv, TypeOK, StartCall, WrapCurrent, SetCred, config, answerVars,
        credVars, countVars, serverVars, Failures
<1>1. TypeOK'
  BY DEF RetryIf503
<1>2. CountsOK' /\ AttemptsBounded' /\ NoEarlyGiveUp'
  BY DEF CountsOK, AttemptsBounded, NoEarlyGiveUp, Refreshing, UsesHelper,
        ReloadIf401, RetryIf503
<1>3. OneRefresh' /\ AnswerNewest' /\ StoredNewest'
  BY DEF OneRefresh, AnswerNewest, StoredNewest, Refreshing, Answered
<1> QED
  BY <1>1, <1>2, <1>3

\* An upload's refresh comes before any request.
LEMMA StartWithRefreshKeeps == ASSUME IInv, NEW c \in Call, StartWithRefresh(c) PROVE IInv'
<1> USE DEF IInv, TypeOK, StartWithRefresh, BeginRefresh, config, answerVars,
        credVars, countVars, serverVars, Failures
<1>1. TypeOK'
  OBVIOUS
<1>2. CountsOK' /\ AttemptsBounded' /\ NoEarlyGiveUp'
  BY DEF CountsOK, AttemptsBounded, NoEarlyGiveUp, Refreshing, UsesHelper,
        ReloadIf401, RetryIf503
<1>3. OneRefresh'
  BY BeginRefreshAlone
<1>4. AnswerNewest' /\ StoredNewest'
  BY DEF AnswerNewest, StoredNewest, Answered
<1> QED
  BY <1>1, <1>2, <1>3, <1>4

\* The request is counted, and no later one is sent before its answer is read.
LEMMA ServeKeeps == ASSUME IInv, NEW c \in Call, Serve(c) PROVE IInv'
<1> USE DEF IInv, TypeOK, Serve, Answers, config, answerVars, credVars,
        countVars, serverVars, Failures
<1>1. TypeOK'
  OBVIOUS
<1>2. CountsOK' /\ AttemptsBounded' /\ NoEarlyGiveUp'
  BY DEF CountsOK, AttemptsBounded, NoEarlyGiveUp, Refreshing, UsesHelper,
        ReloadIf401, RetryIf503
<1>3. OneRefresh' /\ AnswerNewest' /\ StoredNewest'
  BY DEF OneRefresh, AnswerNewest, StoredNewest, Refreshing, Answered
<1> QED
  BY <1>1, <1>2, <1>3

\* A new pair is the newest, and its answer carries it or is lost.
LEMMA ServeRefreshKeeps == ASSUME IInv, NEW c \in Call, ServeRefresh(c) PROVE IInv'
<1> USE DEF IInv, TypeOK, ServeRefresh, config, answerVars, credVars,
        countVars, serverVars, Failures
<1>1. TypeOK'
  OBVIOUS
<1>2. CountsOK' /\ AttemptsBounded' /\ NoEarlyGiveUp'
  BY DEF CountsOK, AttemptsBounded, NoEarlyGiveUp, Refreshing, UsesHelper,
        ReloadIf401, RetryIf503
<1>3. OneRefresh'
  BY DEF OneRefresh, Refreshing
<1>4. AnswerNewest'
  BY DEF AnswerNewest, Answered, OneRefresh, Refreshing
<1>5. StoredNewest'
  BY DEF StoredNewest, Answered
<1> QED
  BY <1>1, <1>2, <1>3, <1>4, <1>5

\* The counter stops the resends exactly at the boundary.
LEMMA ReceiveTransientKeeps == ASSUME IInv, NEW c \in Call, ReceiveTransient(c) PROVE IInv'
<1> USE DEF IInv, TypeOK, ReceiveTransient, WantsResend, CountRetry, GiveUp,
        Finish, config, answerVars, credVars, countVars, serverVars, Failures
<1>1. TypeOK'
  OBVIOUS
<1>2. CountsOK' /\ AttemptsBounded' /\ NoEarlyGiveUp'
  BY DEF CountsOK, AttemptsBounded, NoEarlyGiveUp, Refreshing, UsesHelper,
        ReloadIf401, RetryIf503
<1>3. OneRefresh' /\ AnswerNewest' /\ StoredNewest'
  BY DEF OneRefresh, AnswerNewest, StoredNewest, Refreshing, Answered
<1> QED
  BY <1>1, <1>2, <1>3

\* The one refresh of the call begins.
LEMMA ReceiveExpiredKeeps == ASSUME IInv, NEW c \in Call, ReceiveExpired(c) PROVE IInv'
<1> USE DEF IInv, TypeOK, ReceiveExpired, WantsRefresh, BeginRefresh, SetCred,
        config, answerVars, credVars, countVars, serverVars, Failures
<1>1. TypeOK'
  OBVIOUS
<1>2. CountsOK' /\ AttemptsBounded' /\ NoEarlyGiveUp'
  BY DEF CountsOK, AttemptsBounded, NoEarlyGiveUp, RefreshIf401, Refreshing,
        UsesHelper, ReloadIf401, RetryIf503
<1>3. OneRefresh'
  BY BeginRefreshAlone
<1>4. AnswerNewest' /\ StoredNewest'
  BY DEF AnswerNewest, StoredNewest, Answered
<1> QED
  BY <1>1, <1>2, <1>3, <1>4

\* A reload is counted like a resend.
LEMMA ReceiveReloadKeeps == ASSUME IInv, NEW c \in Call, ReceiveReload(c) PROVE IInv'
<1> USE DEF IInv, TypeOK, ReceiveReload, WantsReload, WantsRefresh,
        CountRetry, GiveUp, Finish, SetCred, config, answerVars, credVars,
        countVars, serverVars, Failures
<1>1. TypeOK'
  BY DEF NoEarlyGiveUp
<1>2. CountsOK' /\ AttemptsBounded' /\ NoEarlyGiveUp'
  BY DEF CountsOK, AttemptsBounded, NoEarlyGiveUp, Refreshing, ReloadIf401,
        UsesHelper, RetryIf503
<1>3. OneRefresh' /\ AnswerNewest' /\ StoredNewest'
  BY DEF OneRefresh, AnswerNewest, StoredNewest, Refreshing, Answered
<1> QED
  BY <1>1, <1>2, <1>3

\* What is returned without a retry is nothing the call could retry.
LEMMA ReturnKeeps == ASSUME IInv, NEW c \in Call, Return(c) PROVE IInv'
<1> USE DEF IInv, TypeOK, Return, WantsResend, WantsReload, WantsRefresh,
        Finish, config, answerVars, credVars, countVars, serverVars, Failures
<1>1. TypeOK'
  OBVIOUS
<1>2. CountsOK' /\ AttemptsBounded' /\ NoEarlyGiveUp'
  BY DEF CountsOK, AttemptsBounded, NoEarlyGiveUp, Refreshing, UsesHelper,
        ReloadIf401, RetryIf503
<1>3. OneRefresh' /\ AnswerNewest' /\ StoredNewest'
  BY DEF OneRefresh, AnswerNewest, StoredNewest, Refreshing, Answered
<1> QED
  BY <1>1, <1>2, <1>3

\* The nested call stops at its own boundary.
LEMMA ReceiveRefreshFailureKeeps == ASSUME IInv, NEW c \in Call, ReceiveRefreshFailure(c) PROVE IInv'
<1> USE DEF IInv, TypeOK, ReceiveRefreshFailure, Finish, config, answerVars,
        credVars, countVars, serverVars, Failures
<1>1. TypeOK'
  OBVIOUS
<1>2. CountsOK' /\ AttemptsBounded' /\ NoEarlyGiveUp'
  BY DEF CountsOK, AttemptsBounded, NoEarlyGiveUp, Refreshing, UsesHelper,
        ReloadIf401, RetryIf503
<1>3. OneRefresh' /\ AnswerNewest' /\ StoredNewest'
  BY DEF OneRefresh, AnswerNewest, StoredNewest, Refreshing, Answered
<1> QED
  BY <1>1, <1>2, <1>3

\* The counters start again, once; the client has the pair of the answer.
LEMMA ReceiveTokensKeeps == ASSUME IInv, NEW c \in Call, ReceiveTokens(c) PROVE IInv'
<1> USE DEF IInv, TypeOK, ReceiveTokens, SetCred, config, answerVars,
        credVars, countVars, serverVars, Failures
<1>1. TypeOK'
  OBVIOUS
<1>2. CountsOK' /\ AttemptsBounded' /\ NoEarlyGiveUp'
  BY DEF CountsOK, AttemptsBounded, NoEarlyGiveUp, Refreshing, UsesHelper,
        ReloadIf401, RetryIf503
<1>3. OneRefresh' /\ AnswerNewest' /\ StoredNewest'
  BY DEF OneRefresh, AnswerNewest, StoredNewest, Refreshing, Answered
<1> QED
  BY <1>1, <1>2, <1>3

LEMMA StutterKeeps == ASSUME IInv, UNCHANGED vars PROVE IInv'
<1> USE DEF IInv, vars, config, answerVars, credVars, countVars, serverVars
<1>1. TypeOK' /\ CountsOK' /\ AttemptsBounded' /\ NoEarlyGiveUp'
  BY DEF TypeOK, CountsOK, AttemptsBounded, NoEarlyGiveUp, Refreshing, UsesHelper, RetryIf503,
         ReloadIf401
<1>2. OneRefresh' /\ AnswerNewest' /\ StoredNewest'
  BY DEF OneRefresh, AnswerNewest, StoredNewest, Answered, Refreshing
<1> QED
  BY <1>1, <1>2

-----------------------------------------------------------------------------
(* The theorems *)

\* IInv holds in every reachable state.
THEOREM InductiveInvariant == Spec => []IInv
<1>1. Init => IInv
  BY InitIInv
<1>2. IInv /\ [Next]_vars => IInv'
  <2> SUFFICES ASSUME IInv, [Next]_vars PROVE IInv'
    OBVIOUS
  <2>1. ASSUME NEW c \in Call, Receive(c) PROVE IInv'
    BY <2>1, ReceiveTransientKeeps, ReceiveExpiredKeeps, ReceiveReloadKeeps, ReturnKeeps,
       ReceiveRefreshFailureKeeps, ReceiveTokensKeeps DEF Receive
  <2> QED
    BY <2>1, ExpireKeeps, RotateKeeps, StartCallKeeps, StartWithRefreshKeeps, ServeKeeps,
       ServeRefreshKeeps, StutterKeeps DEF Next
<1> QED
  BY <1>1, <1>2, PTL DEF Spec

\* Every variable keeps its type (the locals of client.rs:1255-1256 and what the
\* request and its answer carry).
THEOREM TypeCorrect == Spec => []TypeOK
  BY InductiveInvariant, PTL DEF IInv

\* For every retry_count and any mix of errors, 503s, reloads and a refresh, a
\* call sends at most retry_count requests before and after its one refresh
\* (client.rs:1246-1411).
THEOREM RequestsAreBounded == Spec => []AttemptsBounded
  BY InductiveInvariant, PTL DEF IInv

\* No call gives up on something it can retry before its tries are used up
\* (the comparisons with max_retries of client.rs:1246-1411).
THEOREM RetriesAreUsedUp == Spec => []NoEarlyGiveUp
  BY InductiveInvariant, PTL DEF IInv

\* However many calls share the client, without overlapping and lost refreshes it
\* ends up with the newest tokens (client.rs:1198-1231).
THEOREM NewestTokensStored == Spec => []NewestStored
<1>1. IInv => NewestStored
  BY DEF IInv, StoredNewest, Answered, Refreshing, NewestStored
<1> QED
  BY <1>1, InductiveInvariant, PTL

=============================================================================
