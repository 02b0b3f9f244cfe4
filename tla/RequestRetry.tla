----------------------------- MODULE RequestRetry -----------------------------
(***************************************************************************)
(* APIClient::query_request_helper (core/src/client.rs): one HTTP request, *)
(* resent on transient errors, on 503 and on 401, and the nested request   *)
(* that refreshes the session token.  Any number of calls run at once on   *)
(* one client and share its session tokens.                                *)
(*                                                                         *)
(* A call is at its own request (send, wait) or, inside it, at the helper  *)
(* call of refresh_session_token (refreshSend, refreshWait).  The server   *)
(* serves a request in one step and the client reads the answer in another,*)
(* so other calls run in between.                                          *)
(***************************************************************************)
EXTENDS Naturals

CONSTANTS
  Call,         \* the calls made on the client
  RetryCount,   \* the DSN's retry_count
  Kinds,        \* the kinds of request the calls may be
  MaxIssued,    \* bound: session tokens the server issues by refresh
  MaxRotations  \* bound: times the reloadable credential changes

ASSUME RequestRetryAssumption ==
  /\ RetryCount \in Nat /\ MaxIssued \in Nat /\ MaxRotations \in Nat
  /\ Kinds \subseteq {"start", "page", "heartbeat", "upload", "once"}

VARIABLES
  hasToken,    \* session_token_info.is_some(), fixed by the login
  canReload,   \* auth.can_reload(): a token file or a key pair
  stored,      \* which pair of tokens session_token_info holds; 0: the login's
  kind,        \* kind[c]: what call c requests
  pc,          \* pc[c]: where it stands
  cred,        \* cred[c]: what its Authorization header holds
  gen,         \* gen[c]: which session token, or which version of the credential
  retries,     \* retries[c]: the helper's local counter
  refreshed,   \* refreshed[c]: the helper's local flag
  refreshRetries, \* the same counter of the nested helper call
  reply,       \* reply[c]: the answer on its way back
  newTokens,   \* newTokens[c]: the pair of tokens that answer carries
  outcome,     \* outcome[c]: what the call returned
  issued,      \* server: the newest pair of tokens it issued
  expired,     \* server: the pairs it takes no more
  rotation,    \* the version of the reloadable credential now in force
  tries,       \* history: requests sent since the start or the refresh
  spent,       \* history: requests sent before the refresh
  raced,       \* history: the calls whose refresh began with another under way
  lost         \* history: the calls that lost the answer to a refresh the server did

config     == <<hasToken, canReload, kind>>
answerVars == <<reply, newTokens>>
credVars   == <<cred, gen>>
countVars  == <<retries, refreshed, refreshRetries, tries, spent>>
serverVars == <<issued, expired, rotation>>
vars == <<config, stored, pc, credVars, countVars, answerVars, outcome, serverVars, raced, lost>>

Init ==
  /\ hasToken \in BOOLEAN /\ canReload \in BOOLEAN
  /\ kind \in [Call -> Kinds]
  /\ stored = 0 /\ issued = 0 /\ expired = {} /\ rotation = 0
  /\ pc = [c \in Call |-> "idle"]
  /\ cred = [c \in Call |-> "none"] /\ gen = [c \in Call |-> 0]
  /\ retries = [c \in Call |-> 0] /\ refreshed = [c \in Call |-> FALSE]
  /\ refreshRetries = [c \in Call |-> 0]
  /\ reply = [c \in Call |-> "none"] /\ newTokens = [c \in Call |-> 0]
  /\ outcome = [c \in Call |-> "none"]
  /\ tries = [c \in Call |-> 0] /\ spent = [c \in Call |-> 0]
  /\ raced = {} /\ lost = {}

-----------------------------------------------------------------------------
(* The flags each caller passes; an upload, a kill, a final, a streaming load *)
(* and a logout send their request without the helper.                        *)

UsesHelper(c) == kind[c] \in {"start", "page", "heartbeat"}
RetryIf503(c) == kind[c] \in {"start", "heartbeat"}
RefreshIf401(c) == kind[c] \in {"start", "page"}
ReloadIf401(c) == UsesHelper(c)

\* Mutants: the boundary of the retry counter, one off on either side.
LastRetryLate == RetryCount
LastRetryEarly == IF RetryCount < 2 THEN 0 ELSE RetryCount - 2

\* max_retries.saturating_sub(1): the retries it makes after the first try.
LastRetry == IF RetryCount = 0 THEN 0 ELSE RetryCount - 1

SetCred(c, k, n) == cred' = [cred EXCEPT ![c] = k] /\ gen' = [gen EXCEPT ![c] = n]

\* wrap_auth_or_session_token.
WrapCurrent(c) == IF hasToken THEN SetCred(c, "session", stored) ELSE SetCred(c, "auth", rotation)

-----------------------------------------------------------------------------
(* The server and the network, as the code in src/ can meet them *)

Failures == {"transient", "fatal", "503", "other"}

\* The answers to a main request: 5101/5103 for a session token that is no
\* longer good, another 401 for a missing or an outdated credential.
Answers(c) ==
  Failures \cup
  CASE cred[c] = "session" -> IF gen[c] \in expired THEN {"401expired"} ELSE {"200"}
    [] cred[c] = "auth"    -> IF gen[c] = rotation THEN {"200"} ELSE {"401"}
    [] OTHER               -> {"401"}

\* The server takes a main request; the answer, or an error in its place, is
\* under way.
Serve(c) ==
  /\ pc[c] = "send"
  /\ \E a \in Answers(c) : reply' = [reply EXCEPT ![c] = a]
  /\ pc' = [pc EXCEPT ![c] = "wait"]
  /\ tries' = [tries EXCEPT ![c] = @ + 1]
  /\ UNCHANGED <<config, stored, credVars, retries, refreshed, refreshRetries, spent,
                 newTokens, outcome, serverVars, raced, lost>>

\* The server takes a refresh: it refuses, or issues a new pair and answers
\* with it; that answer too may be lost.
ServeRefresh(c) ==
  /\ pc[c] = "refreshSend"
  /\ pc' = [pc EXCEPT ![c] = "refreshWait"]
  /\ \/ /\ \E a \in Failures \cup {"401"} : reply' = [reply EXCEPT ![c] = a]
        /\ UNCHANGED <<newTokens, issued, lost>>
     \/ /\ issued < MaxIssued
        /\ issued' = issued + 1
        /\ newTokens' = [newTokens EXCEPT ![c] = issued']
        /\ \E a \in {"200", "transient"} :
              /\ reply' = [reply EXCEPT ![c] = a]
              /\ lost' = IF a = "transient" THEN lost \cup {c} ELSE lost
  /\ UNCHANGED <<config, stored, credVars, countVars, outcome, expired, rotation, raced>>

\* A session token reaches the end of its life.
Expire ==
  /\ hasToken
  /\ \E n \in 0 .. issued : n \notin expired /\ expired' = expired \cup {n}
  /\ UNCHANGED <<config, stored, pc, credVars, countVars, answerVars, outcome, issued,
                 rotation, raced, lost>>

\* The token file is rewritten, or the key pair's JWT runs out.
Rotate ==
  /\ canReload /\ rotation < MaxRotations
  /\ rotation' = rotation + 1
  /\ UNCHANGED <<config, stored, pc, credVars, countVars, answerVars, outcome, issued,
                 expired, raced, lost>>

-----------------------------------------------------------------------------
(* The client *)

\* Every request starts with the current credential.
StartCall(c) ==
  /\ pc[c] = "idle"
  /\ pc' = [pc EXCEPT ![c] = "send"]
  /\ WrapCurrent(c)
  /\ UNCHANGED <<config, stored, countVars, answerVars, outcome, serverVars, raced, lost>>

Refreshing(c) == pc[c] \in {"refreshSend", "refreshWait"}

\* refresh_session_token reads the stored pair and sends it.
BeginRefresh(c) ==
  /\ pc' = [pc EXCEPT ![c] = "refreshSend"]
  /\ raced' = IF \E d \in Call \ {c} : Refreshing(d) THEN raced \cup {c} ELSE raced

\* upload_to_stage_with_stream refreshes first when the token's life is over.
StartWithRefresh(c) ==
  /\ pc[c] = "idle" /\ kind[c] = "upload" /\ hasToken
  /\ BeginRefresh(c)
  /\ UNCHANGED <<config, stored, credVars, countVars, answerVars, outcome, serverVars, lost>>

\* The call ends with r.
Finish(c, r) ==
  /\ outcome' = [outcome EXCEPT ![c] = r]
  /\ pc' = [pc EXCEPT ![c] = "done"]

\* One more try, unless the tries are used up.
CountRetry(c) ==
  /\ retries[c] < LastRetry
  /\ retries' = [retries EXCEPT ![c] = @ + 1]
  /\ pc' = [pc EXCEPT ![c] = "send"]
  /\ UNCHANGED outcome
GiveUp(c, r) ==
  /\ retries[c] >= LastRetry
  /\ Finish(c, r)
  /\ UNCHANGED retries

\* A transient error (of the send or of the body), or a 503 the caller wants
\* retried: the same request goes out again.
WantsResend(c) ==
  /\ UsesHelper(c)
  /\ reply[c] = "transient" \/ (reply[c] = "503" /\ RetryIf503(c))
ReceiveTransient(c) ==
  /\ pc[c] = "wait" /\ WantsResend(c)
  /\ CountRetry(c) \/ GiveUp(c, reply[c])
  /\ UNCHANGED <<config, stored, credVars, refreshed, refreshRetries, tries, spent,
                 answerVars, serverVars, raced, lost>>

\* 401 for an expired session token: drop the header and refresh, once.
WantsRefresh(c) ==
  reply[c] = "401expired" /\ hasToken /\ RefreshIf401(c) /\ ~refreshed[c]
ReceiveExpired(c) ==
  /\ pc[c] = "wait" /\ WantsRefresh(c)
  /\ SetCred(c, "none", 0)
  /\ BeginRefresh(c)
  /\ UNCHANGED <<config, stored, countVars, answerVars, outcome, serverVars, lost>>

\* Any other 401, with a credential that can be read again: the header is built
\* anew from it.  Reading it may fail.
WantsReload(c) ==
  reply[c] \in {"401", "401expired"} /\ ~WantsRefresh(c) /\ ReloadIf401(c) /\ canReload
ReceiveReload(c) ==
  /\ pc[c] = "wait" /\ WantsReload(c)
  /\ \/ CountRetry(c) /\ SetCred(c, "auth", rotation)
     \/ GiveUp(c, reply[c]) /\ UNCHANGED credVars
     \/ retries[c] < LastRetry /\ Finish(c, "reloadFailed") /\ UNCHANGED <<retries, credVars>>
  /\ UNCHANGED <<config, stored, refreshed, refreshRetries, tries, spent, answerVars,
                 serverVars, raced, lost>>

\* Every other answer goes back to the caller.
Return(c) ==
  /\ pc[c] = "wait" /\ ~WantsResend(c) /\ ~WantsRefresh(c) /\ ~WantsReload(c)
  /\ Finish(c, reply[c])
  /\ UNCHANGED <<config, stored, credVars, countVars, answerVars, serverVars, raced, lost>>

\* Mutant: the nested helper call does not count its retries.
RefreshUncounted(c) ==
  /\ pc[c] = "refreshWait" /\ reply[c] # "200"
  /\ IF reply[c] \in {"transient", "503"} /\ refreshRetries[c] < LastRetry
     THEN pc' = [pc EXCEPT ![c] = "refreshSend"] /\ UNCHANGED outcome
     ELSE Finish(c, "refreshFailed")
  /\ UNCHANGED <<config, stored, credVars, countVars, answerVars, serverVars, raced, lost>>

\* The nested helper call retries transient errors and 503s only, with a
\* counter of its own; its failure is the call's.
ReceiveRefreshFailure(c) ==
  /\ pc[c] = "refreshWait" /\ reply[c] # "200"
  /\ IF reply[c] \in {"transient", "503"} /\ refreshRetries[c] < LastRetry
     THEN /\ refreshRetries' = [refreshRetries EXCEPT ![c] = @ + 1]
          /\ pc' = [pc EXCEPT ![c] = "refreshSend"]
          /\ UNCHANGED outcome
     ELSE Finish(c, "refreshFailed") /\ UNCHANGED refreshRetries
  /\ UNCHANGED <<config, stored, credVars, retries, refreshed, tries, spent, answerVars,
                 serverVars, raced, lost>>

\* Mutant: the new tokens are not stored.
TokensForgotten(c) ==
  /\ pc[c] = "refreshWait" /\ reply[c] = "200"
  /\ pc' = [pc EXCEPT ![c] = "send"]
  /\ refreshed' = [refreshed EXCEPT ![c] = TRUE]
  /\ retries' = [retries EXCEPT ![c] = 0]
  /\ spent' = [spent EXCEPT ![c] = tries[c]]
  /\ tries' = [tries EXCEPT ![c] = 0]
  /\ UNCHANGED <<config, stored, credVars, refreshRetries, answerVars, outcome, serverVars,
                 raced, lost>>

\* The refresh answers with new tokens: they are stored, and the call's request
\* goes out again.  The helper resends the request it has, its header dropped;
\* an upload builds its request only now.
ReceiveTokens(c) ==
  /\ pc[c] = "refreshWait" /\ reply[c] = "200"
  /\ stored' = newTokens[c]
  /\ pc' = [pc EXCEPT ![c] = "send"]
  /\ refreshed' = [refreshed EXCEPT ![c] = TRUE]
  /\ retries' = [retries EXCEPT ![c] = 0]
  /\ spent' = [spent EXCEPT ![c] = tries[c]]
  /\ tries' = [tries EXCEPT ![c] = 0]
  /\ IF kind[c] = "upload" THEN SetCred(c, "session", newTokens[c]) ELSE UNCHANGED credVars
  /\ UNCHANGED <<config, refreshRetries, answerVars, outcome, serverVars, raced, lost>>

-----------------------------------------------------------------------------

Receive(c) ==
  \/ ReceiveTransient(c) \/ ReceiveExpired(c) \/ ReceiveReload(c) \/ Return(c)
  \/ ReceiveRefreshFailure(c) \/ ReceiveTokens(c)

Next ==
  \/ Expire \/ Rotate
  \/ \E c \in Call : StartCall(c) \/ StartWithRefresh(c) \/ Serve(c) \/ ServeRefresh(c) \/ Receive(c)

\* An answer that has arrived is read.  A query start, a page and a refresh set a
\* request timeout, so those are answered or fail; nothing else is assumed to.
Fairness ==
  \A c \in Call :
    /\ WF_vars(Receive(c))
    /\ WF_vars(kind[c] \in {"start", "page"} /\ Serve(c))
    /\ WF_vars(ServeRefresh(c))

Spec == Init /\ [][Next]_vars /\ Fairness

-----------------------------------------------------------------------------
(* Properties *)

TypeOK ==
  /\ hasToken \in BOOLEAN /\ canReload \in BOOLEAN /\ kind \in [Call -> Kinds]
  /\ stored \in Nat /\ issued \in Nat /\ rotation \in Nat /\ expired \subseteq Nat
  /\ pc \in [Call -> {"idle", "send", "wait", "refreshSend", "refreshWait", "done"}]
  /\ cred \in [Call -> {"none", "session", "auth"}] /\ gen \in [Call -> Nat]
  /\ retries \in [Call -> Nat] /\ refreshRetries \in [Call -> Nat]
  /\ tries \in [Call -> Nat] /\ spent \in [Call -> Nat]
  /\ refreshed \in [Call -> BOOLEAN]
  /\ reply \in [Call -> Failures \cup {"none", "200", "401", "401expired"}]
  /\ newTokens \in [Call -> Nat]
  /\ outcome \in [Call -> Failures \cup {"none", "200", "401", "401expired",
                                         "refreshFailed", "reloadFailed"}]
  /\ raced \subseteq Call /\ lost \subseteq Call

\* retry_count requests, and never less than one.
Attempts == IF RetryCount = 0 THEN 1 ELSE RetryCount

\* However errors, 503s, reloads and a refresh mix, retry_count bounds the
\* requests of a call: that many, and once more that many after its one refresh.
AttemptsBounded ==
  \A c \in Call :
    /\ tries[c] <= (IF UsesHelper(c) THEN Attempts ELSE 1)
    /\ spent[c] <= (IF refreshed[c] /\ UsesHelper(c) THEN Attempts ELSE 0)
    /\ refreshRetries[c] < Attempts

\* A call gives up on a transient error, a 503 or a 401 it can retry only when
\* it has made all its tries (tests/core/retry.rs:341 counts them).
NoEarlyGiveUp ==
  \A c \in Call :
    \/ outcome[c] = "transient" /\ UsesHelper(c)
    \/ outcome[c] = "503" /\ RetryIf503(c)
    \/ outcome[c] \in {"401", "401expired"} /\ ReloadIf401(c) /\ canReload
    => tries[c] = Attempts

\* With no refresh under way the client holds the newest tokens, unless two
\* refreshes overlapped or an answer to one was lost.
NewestStored == (\A c \in Call : ~Refreshing(c)) => stored = issued \/ raced # {} \/ lost # {}

\* A request that is sent again after a successful refresh is authorized.
RefreshedRetryIsAuthorized ==
  \A c \in Call : pc[c] = "send" /\ refreshed[c] => cred[c] # "none"

\* Every query start and every page request comes to an end, refresh included.
CallsReturn ==
  \A c \in Call : (pc[c] # "idle" /\ kind[c] \in {"start", "page"}) ~> (pc[c] = "done")

=============================================================================
