---------------------------- MODULE SessionService ----------------------------
(***************************************************************************)
(* What the server sees of the sessions of one process: each logs in, is   *)
(* heartbeaten while it is open, one session at a time, at most once more  *)
(* when it has been closed, and ends once, with a logout if and only if    *)
(* the server keeps anything for it at that moment.  How many tasks share  *)
(* a session, which of them closes it, the registry and the sleep of the   *)
(* heartbeat loop are of no interest here.                                 *)
(***************************************************************************)
EXTENDS Naturals

CONSTANTS Client, None

VARIABLES
  phase,   \* phase[c]: "new", "open", "closing", "closed", "gone"
  keeps,   \* sessions for which the server keeps tokens or temporary state
  beating, \* the session whose heartbeat is under way
  strays,  \* strays[c]: heartbeats begun when the session was closed
  logouts  \* logouts[c]: logouts sent

vars == <<phase, keeps, beating, strays, logouts>>

Init ==
  /\ phase = [c \in Client |-> "new"] /\ keeps = {} /\ beating = None
  /\ strays = [c \in Client |-> 0] /\ logouts = [c \in Client |-> 0]

Step(c, from, to) == phase[c] = from /\ phase' = [phase EXCEPT ![c] = to]

Login(c) ==
  /\ Step(c, "new", "open")
  /\ keeps' \in {keeps, keeps \cup {c}}
  /\ UNCHANGED <<beating, strays, logouts>>

\* An answer changes what the server keeps.
Answer(c) ==
  /\ phase[c] # "new"
  /\ keeps' \in {keeps \ {c}, keeps \cup {c}}
  /\ UNCHANGED <<phase, beating, strays, logouts>>

\* Heartbeats go on while a session is closing.
Beat(c) ==
  /\ phase[c] # "new" /\ beating = None
  /\ beating' = c
  /\ IF phase[c] \in {"closed", "gone"}
     THEN strays[c] = 0 /\ strays' = [strays EXCEPT ![c] = 1]
     ELSE UNCHANGED strays
  /\ UNCHANGED <<phase, keeps, logouts>>

\* The loop may have kept the session alive.
EndBeat ==
  /\ beating # None
  /\ beating' = None
  /\ Step(beating, "open", "closing") \/ UNCHANGED phase
  /\ UNCHANGED <<keeps, strays, logouts>>

Close(c) == Step(c, "open", "closing") /\ UNCHANGED <<keeps, beating, strays, logouts>>

Leave(c) == Step(c, "closing", "closed") /\ UNCHANGED <<keeps, beating, strays, logouts>>

End(c) ==
  /\ Step(c, "closed", "gone")
  /\ logouts' = [logouts EXCEPT ![c] = IF c \in keeps THEN 1 ELSE 0]
  /\ UNCHANGED <<keeps, beating, strays>>

Next ==
  \/ EndBeat
  \/ \E c \in Client : Login(c) \/ Answer(c) \/ Beat(c) \/ Close(c) \/ Leave(c) \/ End(c)

Spec == Init /\ [][Next]_vars

=============================================================================
