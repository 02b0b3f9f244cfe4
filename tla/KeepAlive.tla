------------------------------- MODULE KeepAlive -------------------------------
(***************************************************************************)
(* The times of one registered query: need_heartbeat and try_heartbeat     *)
(* (core/src/client.rs), the sleep of the heartbeat loop                   *)
(* (core/src/client_mgr.rs), and the server's result timeout.              *)
(*                                                                         *)
(* Time is counted in ticks, and a second has TicksPerSec of them, because *)
(* as_secs() truncates.  The requests of the query get through; how long   *)
(* they may take is a constant.                                            *)
(***************************************************************************)
EXTENDS Naturals

CONSTANTS
  TicksPerSec,
  Timeout,       \* QueryState::timeout_secs: result_timeout_secs, or 60
  Interval,      \* busy_interval of the loop, in seconds: 15
  RoundTicks,    \* bound: a round of heartbeats, its requests included
  RequestTicks,  \* bound: from the check to the server, retries included
  AnswerTicks    \* bound: from the server to the client's reading the answer,
                 \* the time a program leaves its page future unpolled included

ASSUME KeepAliveAssumption ==
  /\ TicksPerSec \in Nat \ {0}
  /\ Timeout \in Nat /\ Interval \in Nat
  /\ RoundTicks \in Nat /\ RequestTicks \in Nat /\ AnswerTicks \in Nat

VARIABLES
  sinceAccess,  \* ticks since the client's last_access_time
  sinceServed,  \* ticks since the server last heard of the query
  sinceCheck,   \* ticks since the loop last came to this session
  beat,         \* the heartbeat that names the query: "none", "sent", "answered"
  beatAge,      \* ticks since it was answered
  page,         \* a page of the query: "none", "answered"
  pageAge,      \* ticks since it was answered
  registered,   \* the query is in queries_need_heartbeat
  alive         \* the server has the result set

vars == <<sinceAccess, sinceServed, sinceCheck, beat, beatAge, page, pageAge, registered, alive>>

\* wait_for_schema registers the query just after a page was read.
Init ==
  /\ sinceAccess = 0 /\ sinceServed \in 0 .. AnswerTicks
  /\ sinceCheck \in 0 .. Interval * TicksPerSec
  /\ beat = "none" /\ beatAge = 0 /\ page = "none" /\ pageAge = 0
  /\ registered = TRUE /\ alive = TRUE

-----------------------------------------------------------------------------

\* The most ticks between two checks of a session, and the server's timeout.
Period == Interval * TicksPerSec + RoundTicks
Limit == Timeout * TicksPerSec

\* Mutant: the threshold is the timeout, not the half of it.
NeedHeartbeatLate == sinceAccess \div TicksPerSec > Timeout

\* need_heartbeat: whole seconds since the last access, against half the timeout.
NeedHeartbeat == sinceAccess \div TicksPerSec > Timeout \div 2

\* The loop comes to this session; it sends a heartbeat if the query is
\* registered and due.
Check ==
  /\ beat = "none" /\ sinceCheck >= Interval * TicksPerSec
  /\ sinceCheck' = 0
  /\ beat' = IF registered /\ NeedHeartbeat THEN "sent" ELSE "none"
  /\ UNCHANGED <<sinceAccess, sinceServed, beatAge, page, pageAge, registered, alive>>

\* The server takes the heartbeat.
ServeBeat ==
  /\ beat = "sent" /\ alive
  /\ beat' = "answered" /\ beatAge' = 0
  /\ sinceServed' = 0
  /\ UNCHANGED <<sinceAccess, sinceCheck, page, pageAge, registered, alive>>

\* try_heartbeat reads the answer: last_access_time = now.
ReadBeat ==
  /\ beat = "answered"
  /\ beat' = "none" /\ beatAge' = 0
  /\ sinceAccess' = 0
  /\ UNCHANGED <<sinceServed, sinceCheck, page, pageAge, registered, alive>>

\* The program asks for a page, and the server has it.
ServePage ==
  /\ page = "none" /\ registered /\ alive
  /\ page' = "answered" /\ pageAge' = 0
  /\ sinceServed' = 0
  /\ UNCHANGED <<sinceAccess, sinceCheck, beat, beatAge, registered, alive>>

\* poll_next reads the answer: last_access_time = now, however old it is.
ReadPage ==
  /\ page = "answered"
  /\ page' = "none" /\ pageAge' = 0
  /\ sinceAccess' = 0
  /\ UNCHANGED <<sinceServed, sinceCheck, beat, beatAge, registered, alive>>

\* The program drops the result: finalize_query takes it from the map, and its
\* final request does not reach the server.
DropResult ==
  /\ registered
  /\ registered' = FALSE /\ page' = "none" /\ pageAge' = 0
  /\ UNCHANGED <<sinceAccess, sinceServed, sinceCheck, beat, beatAge, alive>>

\* The server gives the result set up.
Expire ==
  /\ alive /\ sinceServed = Limit
  /\ alive' = FALSE
  /\ UNCHANGED <<sinceAccess, sinceServed, sinceCheck, beat, beatAge, page, pageAge, registered>>

\* The loop is not late: it sleeps its interval and takes RoundTicks at most.
LoopOnTime == sinceCheck < Period

\* Time passes while every bound is kept.
Tick ==
  /\ alive /\ sinceServed < Limit
  /\ LoopOnTime
  /\ beat = "sent" => sinceCheck < RequestTicks
  /\ beat = "answered" => beatAge < AnswerTicks
  /\ page = "answered" => pageAge < AnswerTicks
  /\ sinceAccess' = sinceAccess + 1 /\ sinceServed' = sinceServed + 1
  /\ sinceCheck' = sinceCheck + 1
  /\ beatAge' = IF beat = "answered" THEN beatAge + 1 ELSE 0
  /\ pageAge' = IF page = "answered" THEN pageAge + 1 ELSE 0
  /\ UNCHANGED <<beat, page, registered, alive>>

Next == Check \/ ServeBeat \/ ReadBeat \/ ServePage \/ ReadPage \/ DropResult \/ Expire \/ Tick

Spec == Init /\ [][Next]_vars

-----------------------------------------------------------------------------
(* Properties *)

TypeOK ==
  /\ sinceAccess \in Nat /\ sinceServed \in Nat
  /\ sinceCheck \in 0 .. Period
  /\ beat \in {"none", "sent", "answered"} /\ beatAge \in 0 .. AnswerTicks
  /\ page \in {"none", "answered"} /\ pageAge \in 0 .. AnswerTicks
  /\ registered \in BOOLEAN /\ alive \in BOOLEAN

\* Half the timeout and the second that as_secs cuts off, the sleep, the round and
\* the ways there and back fit into the timeout.
Threshold == (Timeout \div 2 + 1) * TicksPerSec
Margin == Threshold + AnswerTicks + Period + RequestTicks <= Limit

\* With that margin the server never gives up a query its client keeps registered,
\* however long the program pauses (client.rs:92-96, client_mgr.rs:53-84).
NeverExpired == Margin /\ registered => alive

=============================================================================
