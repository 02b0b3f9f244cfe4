---------------------------- MODULE MCRequestRetry ----------------------------
(* Model-checking instance of RequestRetry: a call of any kind, and a second  *)
(* one, an upload, that is made only while the first is an upload or starts a *)
(* query and the client cannot reload its tokens. That is enough for the      *)
(* tokens of two refreshes to arrive in either order.                         *)
EXTENDS RequestRetry

CONSTANTS a, b

ASSUME CallsAssumption == {a, b} \subseteq Call

Pair == ~canReload /\ kind[a] \in {"start", "upload"}

MCInit == Init /\ kind[b] = "upload"

MCNext == Next /\ (pc'[b] = "idle" \/ Pair)

MCSpec == MCInit /\ [][MCNext]_vars /\ Fairness

=============================================================================
