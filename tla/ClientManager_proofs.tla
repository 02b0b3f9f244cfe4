------------------------ MODULE ClientManager_proofs ------------------------
(***************************************************************************)
(* The safety properties of ClientManager for any set of sessions and any  *)
(* set of tasks.  They follow from one inductive invariant, IInv; the step *)
(* is proved action by action.                                             *)
(***************************************************************************)
EXTENDS ClientManager, TLAPS

USE ClientManagerAssumption

-----------------------------------------------------------------------------
(* The inductive invariant *)

\* A runner opens or closes one session, and no two the same.  A session that
\* is being closed has its flag set and has not been logged out.  The loop closes
\* no session in the middle of a heartbeat.
ClosersOK ==
  /\ \A r \in Runner : work[r] = None <=> stage[r] = "none"
  /\ \A r, s \in Runner : work[r] = work[s] /\ work[r] # None => r = s
  /\ \A r \in Runner : stage[r] \in {"unregister", "logout"}
                       => work[r] \in closed /\ logouts[work[r]] = 0
  /\ beating # None => stage[Loop] = "none"

\* Until it is registered a session belongs to the task that logs in.
OpeningOK ==
  \A r \in Runner : stage[r] = "register" =>
    /\ arcs[work[r]] = {r}
    /\ work[r] \in opened /\ work[r] \notin closed
    /\ work[r] \notin clients /\ work[r] \notin pending /\ work[r] # beating

\* Nothing refers to a session that was never opened.
OpenedOK ==
  /\ clients \subseteq opened /\ pending \subseteq opened
  /\ beating \in opened \cup {None}
  /\ \A c \in Client : arcs[c] # {} => c \in opened

\* Whoever lets the last reference go closes the session.
DroppedOK == \A c \in opened : Alive(c) \/ c \in closed

OpenRegistered ==
  \A c \in opened \ closed : c \in clients \/ \E t \in Task : work[t] = c /\ stage[t] = "register"

ClosedLeaves == \A c \in clients : c \in closed => \E r \in Runner : Unregistering(r, c)

LogoutsOK == \A c \in Client : logouts[c] <= 1 /\ (logouts[c] > 0 => c \in closed)

LogoutChoice ==
  \A c \in closed : (\A r \in Runner : work[r] # c) /\ c \notin late
                    => (logouts[c] = 1 <=> NeedLogout(c))

StrayOK ==
  \A c \in Client : /\ strayBeats[c] <= 1
                    /\ strayBeats[c] > 0 => Unregistered(c) /\ c \notin clients /\ c \notin pending

IInv ==
  /\ TypeOK /\ BusyOrNotified
  /\ ClosersOK /\ OpeningOK /\ OpenedOK /\ DroppedOK /\ OpenRegistered
  /\ ClosedLeaves /\ LogoutsOK /\ LogoutChoice /\ StrayOK

-----------------------------------------------------------------------------

LEMMA InitIInv == Init => IInv
<1> SUFFICES ASSUME Init PROVE IInv
  OBVIOUS
<1> USE DEF Init, Runner, Stages
<1>1. TypeOK
  BY DEF TypeOK
<1>2. BusyOrNotified /\ ClosersOK /\ OpeningOK /\ OpenedOK /\ DroppedOK
  BY DEF BusyOrNotified, ClosersOK, OpeningOK, OpenedOK, DroppedOK
<1>3. OpenRegistered /\ ClosedLeaves /\ LogoutsOK /\ LogoutChoice /\ StrayOK
  BY DEF OpenRegistered, ClosedLeaves, LogoutsOK, LogoutChoice, StrayOK
<1> QED
  BY <1>1, <1>2, <1>3 DEF IInv

-----------------------------------------------------------------------------
(* One lemma per action *)

\* A login opens a session nobody else refers to.
LEMMA LoginKeeps == ASSUME IInv, NEW t \in Task, NEW c \in Client, Login(t, c) PROVE IInv'
<1> USE DEF IInv, TypeOK, Login, Stand, Runner, Stages, sessionVars,
        registryVars, loopVars, historyVars
<1>1. TypeOK'
  OBVIOUS
<1>2. ClosersOK'
  BY DEF ClosersOK, OpeningOK
<1>3. OpeningOK'
  BY DEF OpeningOK, OpenedOK
<1>4. BusyOrNotified' /\ OpenedOK' /\ DroppedOK' /\ OpenRegistered'
  BY DEF BusyOrNotified, OpenedOK, DroppedOK, OpenRegistered, Alive
<1>5. LogoutChoice'
  BY DEF LogoutChoice, ClosersOK, NeedLogout
<1>6. ClosedLeaves' /\ LogoutsOK' /\ StrayOK'
  BY DEF ClosedLeaves, LogoutsOK, StrayOK, Unregistering, Unregistered
<1> QED
  BY <1>1, <1>2, <1>3, <1>4, <1>5, <1>6

\* The session is registered by the task that logged in, once.
LEMMA RegisterKeeps == ASSUME IInv, NEW t \in Task, Register(t) PROVE IInv'
<1> USE DEF IInv, TypeOK, Register, Stand, Runner, Stages, sessionVars,
        registryVars, loopVars, historyVars
<1>1. TypeOK'
  BY DEF ClosersOK
<1>2. OpenedOK'
  BY DEF OpenedOK, OpeningOK
<1>3. BusyOrNotified' /\ ClosersOK' /\ OpeningOK' /\ DroppedOK' /\ OpenRegistered'
  BY DEF BusyOrNotified, ClosersOK, OpeningOK, DroppedOK, OpenRegistered,
        Alive
<1>4. ClosedLeaves'
  BY DEF ClosedLeaves, OpeningOK, Unregistering
<1>5. LogoutChoice'
  BY DEF LogoutChoice, NeedLogout, OpeningOK
<1>6. StrayOK'
  BY DEF StrayOK, OpeningOK, Unregistered, Unregistering
<1>7. LogoutsOK'
  BY DEF LogoutsOK
<1> QED
  BY <1>1, <1>2, <1>3, <1>4, <1>5, <1>6, <1>7

\* Sharing a session concerns nobody but the tasks.
LEMMA CloneArcKeeps == ASSUME IInv, NEW t \in Task, NEW u \in Task, NEW c \in Client, CloneArc(t, u, c) PROVE IInv'
<1> USE DEF IInv, TypeOK, CloneArc, Runner, Stages, sessionVars, registryVars,
        loopVars, historyVars
<1>1. TypeOK'
  OBVIOUS
<1>2. BusyOrNotified' /\ ClosersOK' /\ OpeningOK' /\ OpenedOK' /\ DroppedOK' /\ OpenRegistered'
  BY DEF BusyOrNotified, ClosersOK, OpeningOK, OpenedOK, DroppedOK,
        OpenRegistered, Alive
<1>3. ClosedLeaves' /\ LogoutsOK' /\ LogoutChoice' /\ StrayOK'
  BY DEF ClosedLeaves, LogoutsOK, LogoutChoice, StrayOK, NeedLogout,
        Unregistering, Unregistered
<1> QED
  BY <1>1, <1>2, <1>3

\* An answer changes whether a logout is needed, and marks a late change.
LEMMA HandleSessionKeeps == ASSUME IInv, NEW t \in Task, NEW c \in Client, HandleSession(t, c) PROVE IInv'
<1> USE DEF IInv, TypeOK, HandleSession, Runner, Stages, sessionVars,
        registryVars, loopVars, historyVars
<1>1. TypeOK'
  BY DEF OpenedOK
<1>2. BusyOrNotified' /\ ClosersOK' /\ OpeningOK' /\ OpenedOK' /\ DroppedOK' /\ OpenRegistered'
  BY DEF BusyOrNotified, ClosersOK, OpeningOK, OpenedOK, DroppedOK,
        OpenRegistered, Alive
<1>3. ClosedLeaves' /\ LogoutsOK' /\ LogoutChoice' /\ StrayOK'
  BY DEF ClosedLeaves, LogoutsOK, LogoutChoice, StrayOK, NeedLogout,
        Unregistering, Unregistered
<1> QED
  BY <1>1, <1>2, <1>3

\* The flag makes the closer the only one.
LEMMA CloseKeeps == ASSUME IInv, NEW t \in Task, NEW c \in Client, Close(t, c) PROVE IInv'
<1> USE DEF IInv, TypeOK, Close, CloseWins, Stand, Runner, Stages,
        sessionVars, registryVars, loopVars, historyVars
<1>1. TypeOK'
  BY DEF OpenedOK
<1>2. ClosersOK'
  BY DEF ClosersOK, LogoutsOK, OpeningOK
<1>3. BusyOrNotified' /\ OpeningOK' /\ OpenedOK' /\ DroppedOK' /\ OpenRegistered'
  BY DEF BusyOrNotified, OpeningOK, OpenedOK, DroppedOK, OpenRegistered, Alive
<1>4. LogoutChoice'
  BY DEF LogoutChoice, ClosersOK, NeedLogout
<1>5. ClosedLeaves' /\ LogoutsOK' /\ StrayOK'
  BY DEF ClosedLeaves, LogoutsOK, StrayOK, Unregistering, Unregistered
<1> QED
  BY <1>1, <1>2, <1>3, <1>4, <1>5

\* The last reference closes; a login given up before it registers does too.
LEMMA ReleaseKeeps == ASSUME IInv, NEW t \in Task, NEW c \in Client, Release(t, c) PROVE IInv'
<1> USE DEF IInv, TypeOK, Release, DropClient, CloseWins, CloseLost, Stand,
        Runner, Stages, sessionVars, registryVars, loopVars, historyVars
<1>1. TypeOK'
  BY DEF OpenedOK
<1>2. ClosersOK'
  BY DEF ClosersOK, LogoutsOK, OpeningOK
<1>3. OpenRegistered'
  BY DEF OpenRegistered, OpeningOK
<1>4. BusyOrNotified' /\ OpeningOK' /\ OpenedOK' /\ DroppedOK'
  BY DEF BusyOrNotified, OpeningOK, OpenedOK, DroppedOK, Alive
<1>5. LogoutChoice'
  BY DEF LogoutChoice, ClosersOK, NeedLogout, OpeningOK
<1>6. ClosedLeaves' /\ LogoutsOK' /\ StrayOK'
  BY DEF ClosedLeaves, LogoutsOK, StrayOK, Unregistering, Unregistered
<1> QED
  BY <1>1, <1>2, <1>3, <1>4, <1>5, <1>6

\* The closer removes the entry it is responsible for.
LEMMA UnregisterKeeps == ASSUME IInv, NEW r \in Runner, Unregister(r) PROVE IInv'
<1> USE DEF IInv, TypeOK, Unregister, Stand, Runner, Stages, sessionVars,
        registryVars, loopVars, historyVars
<1>1. TypeOK'
  OBVIOUS
<1>2. OpenRegistered'
  BY DEF OpenRegistered, ClosersOK
<1>3. BusyOrNotified' /\ ClosersOK' /\ OpeningOK' /\ OpenedOK' /\ DroppedOK'
  BY DEF BusyOrNotified, ClosersOK, OpeningOK, OpenedOK, DroppedOK, Alive
<1>4. ClosedLeaves' /\ LogoutsOK' /\ LogoutChoice' /\ StrayOK'
  BY DEF ClosedLeaves, LogoutsOK, LogoutChoice, StrayOK, NeedLogout,
        Unregistering, Unregistered
<1> QED
  BY <1>1, <1>2, <1>3, <1>4

\* The only closer sends the only logout.
LEMMA LogoutKeeps == ASSUME IInv, NEW r \in Runner, Logout(r) PROVE IInv'
<1> USE DEF IInv, TypeOK, Logout, Stand, Runner, Stages, sessionVars,
        registryVars, loopVars, historyVars
<1>1. TypeOK'
  BY DEF ClosersOK
<1>2. BusyOrNotified' /\ ClosersOK' /\ OpeningOK' /\ OpenedOK' /\ DroppedOK' /\ OpenRegistered'
  BY DEF BusyOrNotified, ClosersOK, OpeningOK, OpenedOK, DroppedOK,
        OpenRegistered, Alive
<1>3. LogoutsOK'
  BY DEF LogoutsOK, ClosersOK
<1>4. LogoutChoice'
  BY DEF LogoutChoice, ClosersOK, NeedLogout
<1>5. ClosedLeaves' /\ StrayOK'
  BY DEF ClosedLeaves, StrayOK, Unregistering, Unregistered
<1> QED
  BY <1>1, <1>2, <1>3, <1>4, <1>5

\* The wake-up is consumed into the short interval.
LEMMA NotifiedKeeps == ASSUME IInv, Notified PROVE IInv'
<1> USE DEF IInv, TypeOK, Notified, Runner, Stages, sessionVars, registryVars,
        loopVars, historyVars
<1>1. TypeOK'
  OBVIOUS
<1>2. BusyOrNotified' /\ ClosersOK' /\ OpeningOK' /\ OpenedOK' /\ DroppedOK' /\ OpenRegistered'
  BY DEF BusyOrNotified, ClosersOK, OpeningOK, OpenedOK, DroppedOK,
        OpenRegistered, Alive
<1>3. ClosedLeaves' /\ LogoutsOK' /\ LogoutChoice' /\ StrayOK'
  BY DEF ClosedLeaves, LogoutsOK, LogoutChoice, StrayOK, NeedLogout,
        Unregistering, Unregistered
<1> QED
  BY <1>1, <1>2, <1>3

\* The snapshot holds registered sessions only.
LEMMA TimeoutKeeps == ASSUME IInv, Timeout PROVE IInv'
<1> USE DEF IInv, TypeOK, Timeout, Runner, Stages, sessionVars, registryVars,
        loopVars, historyVars
<1>1. TypeOK'
  OBVIOUS
<1>2. BusyOrNotified' /\ ClosersOK' /\ OpeningOK' /\ OpenedOK' /\ DroppedOK' /\ OpenRegistered'
  BY DEF BusyOrNotified, ClosersOK, OpeningOK, OpenedOK, DroppedOK,
        OpenRegistered, Alive
<1>3. ClosedLeaves' /\ LogoutsOK' /\ LogoutChoice' /\ StrayOK'
  BY DEF ClosedLeaves, LogoutsOK, LogoutChoice, StrayOK, NeedLogout,
        Unregistering, Unregistered
<1> QED
  BY <1>1, <1>2, <1>3

\* The loop goes idle only on an empty map.
LEMMA RecheckKeeps == ASSUME IInv, Recheck PROVE IInv'
<1> USE DEF IInv, TypeOK, Recheck, Runner, Stages, sessionVars, registryVars,
        loopVars, historyVars
<1>1. TypeOK'
  OBVIOUS
<1>2. BusyOrNotified' /\ ClosersOK' /\ OpeningOK' /\ OpenedOK' /\ DroppedOK' /\ OpenRegistered'
  BY DEF BusyOrNotified, ClosersOK, OpeningOK, OpenedOK, DroppedOK,
        OpenRegistered, Alive
<1>3. ClosedLeaves' /\ LogoutsOK' /\ LogoutChoice' /\ StrayOK'
  BY DEF ClosedLeaves, LogoutsOK, LogoutChoice, StrayOK, NeedLogout,
        Unregistering, Unregistered
<1> QED
  BY <1>1, <1>2, <1>3

\* A session that left the map is beaten from the snapshot at most once.
LEMMA StartHeartbeatKeeps == ASSUME IInv, NEW c \in Client, StartHeartbeat(c) PROVE IInv'
<1> USE DEF IInv, TypeOK, StartHeartbeat, Runner, Stages, sessionVars,
        registryVars, loopVars, historyVars
<1>1. TypeOK'
  OBVIOUS
<1>2. BusyOrNotified' /\ ClosersOK' /\ OpeningOK' /\ OpenedOK' /\ DroppedOK' /\ OpenRegistered'
  BY DEF BusyOrNotified, ClosersOK, OpeningOK, OpenedOK, DroppedOK,
        OpenRegistered, Alive
<1>3. StrayOK'
  BY DEF StrayOK, ClosedLeaves, Unregistered, Unregistering
<1>4. ClosedLeaves' /\ LogoutsOK' /\ LogoutChoice'
  BY DEF ClosedLeaves, LogoutsOK, LogoutChoice, NeedLogout, Unregistering
<1> QED
  BY <1>1, <1>2, <1>3, <1>4

\* The loop may hold, and then drops, the last reference.
LEMMA EndHeartbeatKeeps == ASSUME IInv, EndHeartbeat PROVE IInv'
<1> USE DEF IInv, TypeOK, EndHeartbeat, DropClient, CloseWins, CloseLost,
        Stand, Runner, Stages, sessionVars, registryVars, loopVars,
        historyVars
<1>1. TypeOK'
  BY DEF OpenedOK
<1>2. ClosersOK'
  BY DEF ClosersOK, LogoutsOK, OpeningOK
<1>3. BusyOrNotified' /\ OpeningOK' /\ OpenedOK' /\ DroppedOK' /\ OpenRegistered'
  BY DEF BusyOrNotified, OpeningOK, OpenedOK, DroppedOK, OpenRegistered, Alive
<1>4. ClosedLeaves'
  BY DEF ClosedLeaves, ClosersOK, Unregistering
<1>5. LogoutChoice'
  BY DEF LogoutChoice, ClosersOK, NeedLogout
<1>6. LogoutsOK' /\ StrayOK'
  BY DEF LogoutsOK, StrayOK, Unregistering, Unregistered
<1> QED
  BY <1>1, <1>2, <1>3, <1>4, <1>5, <1>6

\* Nothing but the loop's position changes.
LEMMA EndRoundKeeps == ASSUME IInv, EndRound PROVE IInv'
<1> USE DEF IInv, TypeOK, EndRound, Runner, Stages, sessionVars, registryVars,
        loopVars, historyVars
<1>1. TypeOK'
  OBVIOUS
<1>2. BusyOrNotified' /\ ClosersOK' /\ OpeningOK' /\ OpenedOK' /\ DroppedOK' /\ OpenRegistered'
  BY DEF BusyOrNotified, ClosersOK, OpeningOK, OpenedOK, DroppedOK,
        OpenRegistered, Alive
<1>3. ClosedLeaves' /\ LogoutsOK' /\ LogoutChoice' /\ StrayOK'
  BY DEF ClosedLeaves, LogoutsOK, LogoutChoice, StrayOK, NeedLogout,
        Unregistering, Unregistered
<1> QED
  BY <1>1, <1>2, <1>3

LEMMA StutterKeeps == ASSUME IInv, UNCHANGED vars PROVE IInv'
<1> USE DEF IInv, vars, sessionVars, registryVars, loopVars, historyVars
<1>1. TypeOK' /\ BusyOrNotified' /\ ClosersOK' /\ OpeningOK' /\ OpenedOK' /\ DroppedOK'
  BY DEF TypeOK, BusyOrNotified, ClosersOK, OpeningOK, OpenedOK, DroppedOK, Alive
<1>2. OpenRegistered' /\ ClosedLeaves' /\ LogoutsOK' /\ LogoutChoice' /\ StrayOK'
  BY DEF OpenRegistered, ClosedLeaves, LogoutsOK, LogoutChoice, StrayOK, NeedLogout,
         Unregistering, Unregistered
<1> QED
  BY <1>1, <1>2

-----------------------------------------------------------------------------
(* The refinement of SessionService: the phase of a session is read off its *)
(* flags and its closer, and a step moves the phase of one session at most. *)

\* A session is unregistered when its close is past unregister_client.
LEMMA UnregisteredPhase ==
  ASSUME NEW c \in Client, c \in opened PROVE Unregistered(c) <=> Phase(c) \in {"closed", "gone"}
  BY DEF Unregistered, Unregistering, Phase, Closing

\* A session keeps its phase with its flags and its closer.
LEMMA SamePhase ==
  ASSUME NEW c, c \in opened' <=> c \in opened, c \in closed' <=> c \in closed,
         Closing(c, "unregister")' <=> Closing(c, "unregister"),
         Closing(c, "logout")' <=> Closing(c, "logout")
  PROVE  Phase(c)' = Phase(c)
  BY DEF Phase

\* What a runner does to the session at hand is no other's closer.
LEMMA OtherCloser ==
  ASSUME IInv, NEW r \in Runner, NEW c \in Client, NEW x, NEW s, Stand(r, x, s),
         work[r] \in {c, None}, x \in {c, None}, NEW d \in Client \ {c}, NEW p
  PROVE  Closing(d, p)' <=> Closing(d, p)
  BY DEF IInv, TypeOK, Stand, Closing

\* When nothing but c moves, the phases are the old ones except at c.
LEMMA PhaseMoves ==
  ASSUME NEW c \in Client, \A d \in Client \ {c} : Phase(d)' = Phase(d)
  PROVE  Phases' = [Phases EXCEPT ![c] = Phase(c)'] /\ Phases[c] = Phase(c)
<1> DEFINE Now(d) == Phase(d)
           Then(d) == Phase(d)'
<1>1. Phases = [d \in Client |-> Now(d)] /\ Phases' = [d \in Client |-> Then(d)]
  BY DEF Phases
<1>2. \A d \in Client \ {c} : Then(d) = Now(d)
  OBVIOUS
<1>3. Now(c) = Phase(c) /\ Then(c) = Phase(c)'
  OBVIOUS
<1> HIDE DEF Now, Then
<1> QED
  BY <1>1, <1>2, <1>3

LEMMA PhasesStay ==
  ASSUME \A d \in Client : Phase(d)' = Phase(d) PROVE Phases' = Phases
  BY DEF Phases

LEMMA KeepsStay == ASSUME UNCHANGED <<tokens, keepAlive>> PROVE Keeps' = Keeps
  BY DEF Keeps, NeedLogout

\* A step that leaves flags and closers alone leaves the phases alone.
LEMMA FlagsStay ==
  ASSUME UNCHANGED <<opened, closed, work, stage>> PROVE Phases' = Phases
<1>1. \A d \in Client : Phase(d)' = Phase(d)
  BY SamePhase DEF Closing
<1> QED
  BY <1>1, PhasesStay

LEMMA ServiceInit == Init => Service!Init
<1> SUFFICES ASSUME Init PROVE Service!Init
  OBVIOUS
<1>1. Phases = [c \in Client |-> "new"]
  BY DEF Init, Phases, Phase
<1>2. Keeps = {}
  BY DEF Init, Keeps, NeedLogout
<1> QED
  BY <1>1, <1>2 DEF Init, Service!Init

LEMMA LoginServes == ASSUME IInv, NEW t \in Task, NEW c \in Client, Login(t, c) PROVE Service!Login(c)
<1>1. /\ c \notin opened /\ opened' = opened \cup {c} /\ closed' = closed /\ keepAlive' = keepAlive
      /\ Stand(t, c, "register") /\ tokens' \in {tokens, tokens \cup {c}}
      /\ UNCHANGED <<beating, strayBeats, logouts>>
  BY DEF Login, loopVars, historyVars
<1>2. t \in Runner /\ work[t] = None
  BY DEF Runner, IInv, ClosersOK, Login
<1>3. c \notin closed
  BY <1>1 DEF IInv, TypeOK
<1>4. \A d \in Client \ {c} : Phase(d)' = Phase(d)
  BY <1>1, <1>2, OtherCloser, SamePhase
<1>5. Phase(c) = "new" /\ Phase(c)' = "open"
  BY <1>1, <1>3 DEF Phase
<1>6. Phases[c] = "new" /\ Phases' = [Phases EXCEPT ![c] = "open"]
  BY <1>4, <1>5, PhaseMoves
<1>7. Keeps' \in {Keeps, Keeps \cup {c}}
  BY <1>1 DEF Keeps, NeedLogout
<1> QED
  BY <1>1, <1>6, <1>7 DEF Service!Login, Service!Step

LEMMA HandleSessionServes ==
  ASSUME IInv, NEW t \in Task, NEW c \in Client, HandleSession(t, c) PROVE Service!Answer(c)
<1>1. /\ c \in opened /\ UNCHANGED <<opened, closed, work, stage, beating, strayBeats, logouts>>
      /\ tokens' = tokens /\ keepAlive' \in {keepAlive \ {c}, keepAlive \cup {c}}
  BY DEF HandleSession, loopVars, IInv, TypeOK, OpenedOK
<1>2. Phases' = Phases
  BY <1>1, FlagsStay
<1>3. Phases[c] # "new"
  BY <1>1 DEF Phases, Phase
<1>4. Keeps' \in {Keeps \ {c}, Keeps \cup {c}}
  BY <1>1 DEF Keeps, NeedLogout
<1> QED
  BY <1>1, <1>2, <1>3, <1>4 DEF Service!Answer

\* Whoever wins the flag closes the session, whoever loses it does nothing.
LEMMA WinnerCloses ==
  ASSUME IInv, NEW r \in Runner, NEW c \in Client, c \in opened, work[r] \in {c, None}, opened' = opened,
         stage[r] \notin {"unregister", "logout"},
         CloseWins(r, c)
  PROVE  Service!Step(c, "open", "closing")
<1>1. c \notin closed /\ closed' = closed \cup {c} /\ Stand(r, c, "unregister")
  BY DEF CloseWins
<1>2. \A d \in Client \ {c} : Phase(d)' = Phase(d)
  BY <1>1, OtherCloser, SamePhase
<1>3. Closing(c, "unregister")'
  BY <1>1 DEF Closing, Stand, IInv, TypeOK
<1>4. Phase(c) = "open" /\ Phase(c)' = "closing"
  BY <1>1, <1>3 DEF Phase
<1> QED
  BY <1>2, <1>4, PhaseMoves DEF Service!Step

\* Stepping back from the opening of a session closes none.
LEMMA StandsBack ==
  ASSUME IInv, NEW r \in Runner, stage[r] \notin {"unregister", "logout"}, Stand(r, None, "none"),
         UNCHANGED <<opened, closed>>
  PROVE  Phases' = Phases
<1>1. \A d \in Client : \A s \in {"unregister", "logout"} : Closing(d, s)' <=> Closing(d, s)
  BY DEF Closing, Stand, IInv, TypeOK
<1>2. \A d \in Client : Phase(d)' = Phase(d)
  BY <1>1, SamePhase
<1> QED
  BY <1>2, PhasesStay

LEMMA RegisterServes == ASSUME IInv, NEW t \in Task, Register(t) PROVE UNCHANGED Service!vars
<1>1. /\ Stand(t, None, "none") /\ stage[t] = "register"
      /\ UNCHANGED <<opened, closed, tokens, keepAlive, beating, strayBeats, logouts>>
  BY DEF Register, sessionVars, loopVars, historyVars
<1>2. Phases' = Phases
  BY <1>1, StandsBack DEF Runner
<1> QED
  BY <1>1, <1>2, KeepsStay DEF Service!vars

LEMMA CloseServes ==
  ASSUME IInv, NEW t \in Task, NEW c \in Client, Close(t, c) PROVE Service!Close(c)
<1>1. /\ CloseWins(t, c) /\ stage[t] = "none" /\ c \in opened
      /\ UNCHANGED <<opened, tokens, keepAlive, beating, strayBeats, logouts>>
  BY DEF Close, loopVars, historyVars, IInv, TypeOK, OpenedOK
<1>2. t \in Runner /\ work[t] = None
  BY <1>1 DEF Runner, IInv, ClosersOK
<1>3. Service!Step(c, "open", "closing")
  BY <1>1, <1>2, WinnerCloses
<1> QED
  BY <1>1, <1>3, KeepsStay DEF Service!Close

LEMMA ReleaseServes ==
  ASSUME IInv, NEW t \in Task, NEW c \in Client, Release(t, c)
  PROVE  Service!Close(c) \/ UNCHANGED Service!vars
<1>1. /\ stage[t] = "none" \/ (stage[t] = "register" /\ work[t] = c)
      /\ CloseWins(t, c) \/ (UNCHANGED closed /\ Stand(t, None, "none"))
      /\ UNCHANGED <<opened, tokens, keepAlive, beating, strayBeats, logouts>>
  BY DEF Release, DropClient, CloseLost, loopVars, historyVars
<1>2. t \in Runner /\ work[t] \in {c, None} /\ stage[t] \notin {"unregister", "logout"} /\ c \in opened
  BY <1>1 DEF Runner, IInv, ClosersOK, OpenedOK, Release
<1>3. CASE CloseWins(t, c)
  <2>1. Service!Step(c, "open", "closing")
    BY <1>1, <1>2, <1>3, WinnerCloses
  <2> QED
    BY <1>1, <2>1, KeepsStay DEF Service!Close
<1>4. CASE UNCHANGED closed /\ Stand(t, None, "none")
  <2>1. Phases' = Phases
    BY <1>1, <1>2, <1>4, StandsBack
  <2> QED
    BY <1>1, <2>1, KeepsStay DEF Service!vars
<1> QED
  BY <1>1, <1>3, <1>4

LEMMA UnregisterServes ==
  ASSUME IInv, NEW r \in Runner, NEW c \in Client, c = work[r], Unregister(r) PROVE Service!Leave(c)
<1>1. /\ c \in closed /\ c \in opened /\ Closing(c, "unregister") /\ Stand(r, c, "logout")
      /\ UNCHANGED <<opened, closed, tokens, keepAlive, beating, strayBeats, logouts>>
  BY DEF Unregister, Closing, IInv, TypeOK, ClosersOK, sessionVars, loopVars, historyVars
<1>2. Closing(c, "logout")' /\ ~Closing(c, "unregister")'
  BY <1>1 DEF Closing, Stand, IInv, TypeOK, ClosersOK
<1>3. \A d \in Client \ {c} : Phase(d)' = Phase(d)
  BY <1>1, OtherCloser, SamePhase
<1>4. Phase(c) = "closing" /\ Phase(c)' = "closed"
  BY <1>1, <1>2 DEF Phase
<1>5. Service!Step(c, "closing", "closed")
  BY <1>3, <1>4, PhaseMoves DEF Service!Step
<1> QED
  BY <1>1, <1>5, KeepsStay DEF Service!Leave

LEMMA LogoutServes ==
  ASSUME IInv, NEW r \in Runner, NEW c \in Client, c = work[r], Logout(r) PROVE Service!End(c)
<1>1. /\ c \in closed /\ c \in opened /\ Closing(c, "logout") /\ Stand(r, None, "none") /\ logouts[c] = 0
      /\ logouts' = IF NeedLogout(c) THEN [logouts EXCEPT ![c] = @ + 1] ELSE logouts
      /\ UNCHANGED <<opened, closed, tokens, keepAlive, beating, strayBeats>>
  BY DEF Logout, Closing, IInv, TypeOK, ClosersOK, sessionVars, loopVars
<1>2. ~Closing(c, "unregister") /\ ~Closing(c, "logout")' /\ ~Closing(c, "unregister")'
  BY <1>1 DEF Closing, Stand, IInv, TypeOK, ClosersOK, Logout
<1>3. \A d \in Client \ {c} : Phase(d)' = Phase(d)
  BY <1>1, OtherCloser, SamePhase
<1>4. Phase(c) = "closed" /\ Phase(c)' = "gone"
  BY <1>1, <1>2 DEF Phase
<1>5. Service!Step(c, "closed", "gone")
  BY <1>3, <1>4, PhaseMoves DEF Service!Step
<1>6. NeedLogout(c) <=> c \in Keeps
  BY DEF Keeps
<1>7. logouts' = [logouts EXCEPT ![c] = IF c \in Keeps THEN 1 ELSE 0]
  <2>1. logouts \in [Client -> Nat]
    BY DEF IInv, TypeOK
  <2>2. CASE c \in Keeps
    BY <1>1, <1>6, <2>1, <2>2
  <2>3. CASE c \notin Keeps
    <3>1. logouts' = logouts /\ logouts[c] = 0
      BY <1>1, <1>6, <2>3
    <3> QED
      BY <2>1, <2>3, <3>1
  <2> QED
    BY <2>2, <2>3
<1> QED
  BY <1>1, <1>5, <1>7, KeepsStay DEF Service!End

LEMMA StartHeartbeatServes ==
  ASSUME IInv, NEW c \in Client, StartHeartbeat(c) PROVE Service!Beat(c) \/ UNCHANGED Service!vars
<1>1. /\ beating = None /\ c \in pending /\ c \in opened
      /\ UNCHANGED <<opened, closed, tokens, keepAlive, work, stage, logouts>>
      /\ beating' = IF Alive(c) THEN c ELSE None
      /\ strayBeats' = IF Alive(c) /\ Unregistered(c)
                       THEN [strayBeats EXCEPT ![c] = @ + 1] ELSE strayBeats
  BY DEF StartHeartbeat, sessionVars, IInv, OpenedOK
<1>2. Phases' = Phases /\ Keeps' = Keeps
  BY <1>1, FlagsStay, KeepsStay
<1>3. CASE Alive(c)
  <2>1. Phases[c] = Phase(c) /\ Phases[c] # "new"
    BY <1>1 DEF Phases, Phase
  <2>2. Unregistered(c) <=> Phases[c] \in {"closed", "gone"}
    BY <1>1, <2>1, UnregisteredPhase
  <2>3. strayBeats \in [Client -> Nat] /\ strayBeats[c] = 0
    BY <1>1 DEF IInv, TypeOK, StrayOK
  <2>4. CASE Unregistered(c)
    <3>1. strayBeats' = [strayBeats EXCEPT ![c] = 1]
      BY <1>1, <1>3, <2>3, <2>4
    <3> QED
      BY <1>1, <1>2, <1>3, <2>1, <2>2, <2>3, <2>4, <3>1 DEF Service!Beat
  <2>5. CASE ~Unregistered(c)
    BY <1>1, <1>2, <1>3, <2>1, <2>2, <2>5 DEF Service!Beat
  <2> QED
    BY <2>4, <2>5
<1>4. CASE ~Alive(c)
  BY <1>1, <1>2, <1>4 DEF Service!vars
<1> QED
  BY <1>3, <1>4

LEMMA EndHeartbeatServes == ASSUME IInv, EndHeartbeat PROVE Service!EndBeat
<1>1. /\ beating # None /\ beating \in Client /\ beating \in opened /\ beating' = None
      /\ UNCHANGED <<opened, tokens, keepAlive, strayBeats, logouts>>
      /\ Loop \in Runner /\ stage[Loop] = "none" /\ work[Loop] = None
  BY DEF EndHeartbeat, historyVars, Runner, IInv, TypeOK, OpenedOK, ClosersOK
<1>2. CASE CloseWins(Loop, beating)
  <2>1. Service!Step(beating, "open", "closing")
    BY <1>1, <1>2, WinnerCloses
  <2> QED
    BY <1>1, <2>1, KeepsStay DEF Service!EndBeat
<1>3. CASE UNCHANGED closed /\ Stand(Loop, None, "none")
  <2>1. Phases' = Phases
    BY <1>1, <1>3, StandsBack
  <2> QED
    BY <1>1, <2>1, KeepsStay DEF Service!EndBeat
<1>4. CASE UNCHANGED <<closed, work, stage>>
  <2>1. Phases' = Phases
    BY <1>1, <1>4, FlagsStay
  <2> QED
    BY <1>1, <2>1, KeepsStay DEF Service!EndBeat
<1> QED
  BY <1>2, <1>3, <1>4 DEF EndHeartbeat, DropClient, CloseLost

\* The other steps of the loop, and sharing a session, show the server nothing.
LEMMA OthersServe ==
  ASSUME \/ Notified \/ Timeout \/ Recheck \/ EndRound \/ UNCHANGED vars
         \/ \E t, u \in Task, c \in Client : CloneArc(t, u, c)
  PROVE  UNCHANGED Service!vars
<1>1. UNCHANGED <<opened, closed, tokens, keepAlive, work, stage, beating, strayBeats, logouts>>
  BY DEF Notified, Timeout, Recheck, EndRound, CloneArc, vars, sessionVars, loopVars, historyVars
<1> QED
  BY <1>1, FlagsStay, KeepsStay DEF Service!vars

LEMMA StepServes == IInv /\ [Next]_vars => [Service!Next]_(Service!vars)
<1> SUFFICES ASSUME IInv, [Next]_vars PROVE Service!Next \/ UNCHANGED Service!vars
  OBVIOUS
<1>1. CASE LoopStep
  BY <1>1, StartHeartbeatServes, OthersServe DEF LoopStep, Service!Next
<1>2. CASE EndHeartbeat
  BY <1>2, EndHeartbeatServes DEF Service!Next
<1>3. ASSUME NEW r \in Runner, CloseStep(r) PROVE Service!Next
  <2>1. work[r] \in Client
    BY <1>3 DEF CloseStep, Unregister, Logout, IInv, TypeOK, ClosersOK
  <2> QED
    BY <1>3, <2>1, UnregisterServes, LogoutServes DEF CloseStep, Service!Next
<1>4. ASSUME NEW t \in Task, TaskStep(t) PROVE Service!Next \/ UNCHANGED Service!vars
  BY <1>4, RegisterServes, LoginServes, HandleSessionServes, CloseServes, ReleaseServes, OthersServe
     DEF TaskStep, Service!Next
<1>5. CASE UNCHANGED vars
  BY <1>5, OthersServe
<1> QED
  BY <1>1, <1>2, <1>3, <1>4, <1>5 DEF Next

-----------------------------------------------------------------------------
(* The theorems *)

\* IInv holds in every reachable state: every step of the program, of the
\* loop and of a close keeps it.
THEOREM InductiveInvariant == Spec => []IInv
<1>1. Init => IInv
  BY InitIInv
<1>2. IInv /\ [Next]_vars => IInv'
  <2> SUFFICES ASSUME IInv, [Next]_vars PROVE IInv'
    OBVIOUS
  <2>1. ASSUME LoopStep PROVE IInv'
    BY <2>1, NotifiedKeeps, TimeoutKeeps, RecheckKeeps, StartHeartbeatKeeps, EndRoundKeeps
       DEF LoopStep
  <2>2. ASSUME NEW r \in Runner, CloseStep(r) PROVE IInv'
    BY <2>2, UnregisterKeeps, LogoutKeeps DEF CloseStep
  <2>3. ASSUME NEW t \in Task, TaskStep(t) PROVE IInv'
    BY <2>3, RegisterKeeps, LoginKeeps, HandleSessionKeeps, CloseKeeps, ReleaseKeeps,
       CloneArcKeeps DEF TaskStep
  <2> QED
    BY <2>1, <2>2, <2>3, EndHeartbeatKeeps, StutterKeeps DEF Next
<1> QED
  BY <1>1, <1>2, PTL DEF Spec

\* Every variable keeps its type (the shape of the registry of
\* client_mgr.rs:32-35 and of the flags of APIClient, client.rs:105-150).
THEOREM TypeCorrect == Spec => []TypeOK
  BY InductiveInvariant, PTL DEF IInv

\* The loop never sleeps its long interval over a registered session, for any
\* number of sessions and tasks (client_mgr.rs:53-95).
THEOREM NeverIdleOverSessions == Spec => []BusyOrNotified
  BY InductiveInvariant, PTL DEF IInv

\* The registry holds the open sessions and no other: no entry dangles and no
\* open session is missing (register_client, unregister_client, Drop).
THEOREM RegistryIsExact == Spec => []RegistryExact
<1>1. IInv => RegistryExact
  BY DEF IInv, TypeOK, OpenedOK, OpenRegistered, ClosedLeaves, DroppedOK, RegistryExact
<1> QED
  BY <1>1, InductiveInvariant, PTL

\* However a session is closed and dropped, by however many tasks, it is logged
\* out at most once (the compare_exchange of client.rs:1424 and 1442).
THEOREM AtMostOneLogout == Spec => []LogoutOnce
<1>1. IInv => LogoutOnce
  BY DEF IInv, LogoutsOK, LogoutOnce
<1> QED
  BY <1>1, InductiveInvariant, PTL

\* A session that is gone was logged out exactly when the server keeps state for
\* it, unless an answer came after the decision (client.rs:1193-1196).
THEOREM LogoutIffNeeded == Spec => []LogoutWhenNeeded
<1>1. IInv => LogoutWhenNeeded
  BY DEF IInv, TypeOK, DroppedOK, LogoutChoice, LogoutWhenNeeded
<1> QED
  BY <1>1, InductiveInvariant, PTL

\* A session that was unregistered is heartbeaten at most once more
\* (the snapshot of client_mgr.rs:64).
THEOREM AtMostOneStrayBeat == Spec => []OneStrayBeat
<1>1. IInv => OneStrayBeat
  BY DEF IInv, StrayOK, OneStrayBeat
<1> QED
  BY <1>1, InductiveInvariant, PTL

\* Whatever the tasks, the closers and the heartbeat loop do at once, the server sees
\* of each session a login, heartbeats one at a time, at most one of them after
\* the end of the session, and a logout decided by what it keeps at that moment
\* (client_mgr.rs, and close, close_with_spawn and Drop of client.rs).
THEOREM SessionsAreServed == Spec => ImplementsSessionService
<1>1. Spec => Service!Init /\ [][Service!Next]_(Service!vars)
  BY ServiceInit, StepServes, InductiveInvariant, PTL DEF Spec
<1> QED
  BY <1>1 DEF ImplementsSessionService, Service!Spec

=============================================================================
