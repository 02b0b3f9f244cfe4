---------------------------- MODULE ClientManager ----------------------------
(***************************************************************************)
(* The process-wide session registry of core/src/client_mgr.rs, its one    *)
(* heartbeat loop, and the life of the APIClient sessions it watches:      *)
(* login, registration, close / drop, logout (core/src/client.rs).         *)
(*                                                                         *)
(* Any number of tasks share a session through Arc<APIClient>; the registry *)
(* holds Weak references only.  Each action below is one atomic stretch of *)
(* the code, i.e. what runs between two lock acquisitions or awaits.       *)
(***************************************************************************)
EXTENDS Naturals

CONSTANTS
  Client,   \* the sessions the process ever opens (each has its own session id)
  Task,     \* the tasks and threads of the program that hold sessions
  Loop,     \* the heartbeat task, which runs APIClient::drop like any other
  None      \* no session

ASSUME ClientManagerAssumption == Loop \notin Task /\ None \notin Client

Runner == Task \cup {Loop}

VARIABLES
  opened,     \* sessions that have logged in
  closed,     \* sessions whose `closed` flag is set
  arcs,       \* arcs[c]: the tasks holding an Arc of c
  tokens,     \* sessions whose login returned session tokens
  keepAlive,  \* sessions whose session_state.need_keep_alive is true
  work,       \* work[r]: the session runner r is opening or closing
  stage,      \* stage[r]: how far it has come
  clients,    \* the registry: the session ids in the map
  permit,     \* Notify: a notify_one nobody has consumed yet
  interval,   \* the loop's sleep: "idle" (3600 s) or "busy" (15 s)
  loopPc,     \* where the loop stands
  pending,    \* what is left of the loop's snapshot of the registry
  beating,    \* the session whose try_heartbeat the loop awaits
  logouts,    \* history: logout requests sent per session
  strayBeats, \* history: heartbeats started per session after its unregister_client
  late        \* history: sessions answered after their close chose on logout

sessionVars  == <<opened, closed, arcs, tokens, keepAlive>>
registryVars == <<clients, permit>>
loopVars     == <<interval, loopPc, pending, beating>>
historyVars  == <<logouts, strayBeats, late>>
vars == <<sessionVars, work, stage, registryVars, loopVars, historyVars>>

Stages == {"none", "register", "unregister", "logout"}

Init ==
  /\ opened = {} /\ closed = {} /\ tokens = {} /\ keepAlive = {}
  /\ arcs = [c \in Client |-> {}]
  /\ work = [r \in Runner |-> None]
  /\ stage = [r \in Runner |-> "none"]
  /\ clients = {} /\ permit = FALSE
  /\ interval = "idle" /\ loopPc = "wait" /\ pending = {} /\ beating = None
  /\ logouts = [c \in Client |-> 0]
  /\ strayBeats = [c \in Client |-> 0]
  /\ late = {}

-----------------------------------------------------------------------------
(* Helpers *)

\* Weak::upgrade succeeds: somebody holds an Arc, the loop's own included.
Alive(c) == arcs[c] # {} \/ beating = c

NeedLogout(c) == c \in tokens \/ c \in keepAlive

\* Runner r has closed c and is about to call unregister_client.
Unregistering(r, c) == work[r] = c /\ stage[r] = "unregister"
Unregistered(c) == c \in closed /\ \A r \in Runner : ~Unregistering(r, c)

\* Runner r starts, moves along, or ends the opening or closing of c.
Stand(r, c, s) ==
  /\ work' = [work EXCEPT ![r] = c]
  /\ stage' = [stage EXCEPT ![r] = s]

\* Mutant: close without the compare_exchange.
CloseAlwaysWins(r, c) == closed' = closed \cup {c} /\ Stand(r, c, "unregister")

\* The compare_exchange on `closed` at the head of close and close_with_spawn.
CloseWins(r, c) == c \notin closed /\ closed' = closed \cup {c} /\ Stand(r, c, "unregister")
CloseLost(r, c) == c \in closed /\ UNCHANGED closed /\ Stand(r, None, "none")

\* Mutant: no Drop for APIClient.
DropForgotten(r, c) == UNCHANGED closed /\ Stand(r, None, "none")

\* Drop for APIClient, run by whoever gives up the last reference.
DropClient(r, c) == CloseWins(r, c) \/ CloseLost(r, c)

-----------------------------------------------------------------------------
(* Sessions *)

\* APIClient::new up to check_presign: the session is usable but unknown to
\* the registry.
Login(t, c) ==
  /\ stage[t] = "none" /\ c \notin opened
  /\ opened' = opened \cup {c}
  /\ arcs' = [arcs EXCEPT ![c] = {t}]
  /\ \E withTokens \in BOOLEAN :
        tokens' = IF withTokens THEN tokens \cup {c} ELSE tokens
  /\ Stand(t, c, "register")
  /\ UNCHANGED <<closed, keepAlive, registryVars, loopVars, historyVars>>

\* Mutant: register_client without notify_one.
RegisterSilently(t) ==
  /\ stage[t] = "register"
  /\ clients' = clients \cup {work[t]}
  /\ Stand(t, None, "none")
  /\ UNCHANGED <<sessionVars, permit, loopVars, historyVars>>

\* register_client: insert, and notify the loop if the map has one entry now.
Register(t) ==
  /\ stage[t] = "register"
  /\ clients' = clients \cup {work[t]}
  /\ permit' = (permit \/ clients' = {work[t]})
  /\ Stand(t, None, "none")
  /\ UNCHANGED <<sessionVars, loopVars, historyVars>>

\* Another task gets a clone of the Arc: a shared connection, a Pages stream,
\* a spawned finalize_query.
CloneArc(t, u, c) ==
  /\ stage[t] = "none" /\ t \in arcs[c] /\ u \in Task \ arcs[c]
  /\ arcs' = [arcs EXCEPT ![c] = @ \cup {u}]
  /\ UNCHANGED <<opened, closed, tokens, keepAlive, work, stage, registryVars,
                 loopVars, historyVars>>

\* handle_session replaces the session state by the server's, need_keep_alive
\* with it.  Nothing looks at `closed` before a request is sent.
HandleSession(t, c) ==
  /\ stage[t] = "none" /\ t \in arcs[c]
  /\ keepAlive' = IF c \in keepAlive THEN keepAlive \ {c} ELSE keepAlive \cup {c}
  /\ late' = IF c \in closed /\ \A r \in Runner : work[r] # c
             THEN late \cup {c} ELSE late
  /\ UNCHANGED <<opened, closed, arcs, tokens, work, stage, registryVars,
                 loopVars, logouts, strayBeats>>

\* close, and close_with_spawn called by Connection::drop.
Close(t, c) ==
  /\ stage[t] = "none" /\ t \in arcs[c]
  /\ CloseWins(t, c)
  /\ UNCHANGED <<opened, arcs, tokens, keepAlive, registryVars, loopVars, historyVars>>

\* A task lets its Arc go; with the last reference the session is dropped.  A
\* cancelled APIClient::new does this before it has registered.
Release(t, c) ==
  /\ t \in arcs[c]
  /\ stage[t] = "none" \/ (stage[t] = "register" /\ work[t] = c)
  /\ arcs' = [arcs EXCEPT ![c] = @ \ {t}]
  /\ IF arcs[c] = {t} /\ beating # c
     THEN DropClient(t, c)
     ELSE UNCHANGED closed /\ Stand(t, None, "none")
  /\ UNCHANGED <<opened, tokens, keepAlive, registryVars, loopVars, historyVars>>

\* unregister_client.
Unregister(r) ==
  /\ stage[r] = "unregister"
  /\ clients' = clients \ {work[r]}
  /\ Stand(r, work[r], "logout")
  /\ UNCHANGED <<sessionVars, permit, loopVars, historyVars>>

\* Mutant: need_logout looks at the tokens only.
LogoutByTokens(r) ==
  /\ stage[r] = "logout"
  /\ logouts' = IF work[r] \in tokens THEN [logouts EXCEPT ![work[r]] = @ + 1] ELSE logouts
  /\ Stand(r, None, "none")
  /\ UNCHANGED <<sessionVars, registryVars, loopVars, strayBeats, late>>

\* need_logout decides; the request is awaited (close) or spawned
\* (close_with_spawn), in both cases without a retry.
Logout(r) ==
  /\ stage[r] = "logout"
  /\ logouts' = IF NeedLogout(work[r]) THEN [logouts EXCEPT ![work[r]] = @ + 1]
                                       ELSE logouts
  /\ Stand(r, None, "none")
  /\ UNCHANGED <<sessionVars, registryVars, loopVars, strayBeats, late>>

-----------------------------------------------------------------------------
(* The heartbeat loop *)

\* Mutant: the wake-up does not shorten the sleep.
NotifiedStaysIdle ==
  /\ loopPc = "wait" /\ permit
  /\ permit' = FALSE
  /\ UNCHANGED <<sessionVars, work, stage, clients, loopVars, historyVars>>

\* timeout_at polls notified() before the deadline: a stored permit wins.
Notified ==
  /\ loopPc = "wait" /\ permit
  /\ permit' = FALSE
  /\ interval' = "busy"
  /\ UNCHANGED <<sessionVars, work, stage, clients, loopPc, pending, beating, historyVars>>

\* The sleep is over: snapshot the map, then release its lock.
Timeout ==
  /\ loopPc = "wait" /\ ~permit /\ stage[Loop] = "none"
  /\ pending' = clients
  /\ loopPc' = IF clients = {} THEN "recheck" ELSE "beat"
  /\ UNCHANGED <<sessionVars, work, stage, registryVars, interval, beating, historyVars>>

\* Mutant: never go idle.
RecheckStaysBusy ==
  /\ loopPc = "recheck"
  /\ loopPc' = "wait"
  /\ UNCHANGED <<sessionVars, work, stage, registryVars, interval, pending, beating, historyVars>>

\* The snapshot was empty: go idle only if the map is still empty.
Recheck ==
  /\ loopPc = "recheck"
  /\ interval' = IF clients = {} THEN "idle" ELSE interval
  /\ loopPc' = "wait"
  /\ UNCHANGED <<sessionVars, work, stage, registryVars, pending, beating, historyVars>>

\* upgrade() and, when it succeeds, try_heartbeat on the next of the snapshot.
StartHeartbeat(c) ==
  /\ loopPc = "beat" /\ stage[Loop] = "none" /\ beating = None /\ c \in pending
  /\ pending' = pending \ {c}
  /\ beating' = IF Alive(c) THEN c ELSE None
  /\ strayBeats' = IF Alive(c) /\ Unregistered(c)
                   THEN [strayBeats EXCEPT ![c] = @ + 1] ELSE strayBeats
  /\ UNCHANGED <<sessionVars, work, stage, registryVars, interval, loopPc, logouts, late>>

\* Mutant: the loop keeps its Arc's drop from closing the session.
EndHeartbeatLeaks ==
  /\ beating # None
  /\ beating' = None
  /\ UNCHANGED <<sessionVars, work, stage, registryVars, interval, loopPc, pending, historyVars>>

\* try_heartbeat returns, with or without an error, and the loop lets its Arc
\* go; if the program has let the session go meanwhile, the loop drops it.
EndHeartbeat ==
  /\ beating # None
  /\ beating' = None
  /\ IF arcs[beating] = {} THEN DropClient(Loop, beating) ELSE UNCHANGED <<closed, work, stage>>
  /\ UNCHANGED <<opened, arcs, tokens, keepAlive, registryVars, interval, loopPc,
                 pending, historyVars>>

\* The snapshot is used up.
EndRound ==
  /\ loopPc = "beat" /\ pending = {} /\ beating = None /\ stage[Loop] = "none"
  /\ loopPc' = "wait"
  /\ UNCHANGED <<sessionVars, work, stage, registryVars, interval, pending, beating, historyVars>>

-----------------------------------------------------------------------------

LoopStep ==
  \/ Notified \/ Timeout \/ Recheck \/ EndRound
  \/ \E c \in Client : StartHeartbeat(c)

CloseStep(r) == Unregister(r) \/ Logout(r)

TaskStep(t) ==
  \/ Register(t)
  \/ \E c \in Client : Login(t, c) \/ HandleSession(t, c) \/ Close(t, c) \/ Release(t, c)
  \/ \E u \in Task, c \in Client : CloneArc(t, u, c)

Next ==
  \/ LoopStep
  \/ EndHeartbeat
  \/ \E r \in Runner : CloseStep(r)
  \/ \E t \in Task : TaskStep(t)

\* The runtime polls the loop's task and finishes a close that has begun.  The
\* end of a heartbeat is not fair: its request carries no timeout.
Fairness ==
  /\ WF_vars(LoopStep)
  /\ \A r \in Runner : WF_vars(CloseStep(r))

Spec == Init /\ [][Next]_vars /\ Fairness

-----------------------------------------------------------------------------
(* Properties *)

TypeOK ==
  /\ opened \subseteq Client /\ closed \subseteq opened
  /\ arcs \in [Client -> SUBSET Task]
  /\ tokens \subseteq opened /\ keepAlive \subseteq opened
  /\ work \in [Runner -> Client \cup {None}]
  /\ stage \in [Runner -> Stages]
  /\ clients \subseteq Client /\ permit \in BOOLEAN
  /\ interval \in {"idle", "busy"}
  /\ loopPc \in {"wait", "recheck", "beat"}
  /\ pending \subseteq Client /\ beating \in Client \cup {None}
  /\ logouts \in [Client -> Nat] /\ strayBeats \in [Client -> Nat]
  /\ late \subseteq Client

\* The loop never sleeps an hour over a registered session: while the map has
\* an entry, the interval is the short one or a wake-up is on its way (the
\* empty check, the second lock and notify_one of client_mgr.rs:53-95).
BusyOrNotified == clients # {} => interval = "busy" \/ permit

\* The map holds every session that is open and none that is not: an open
\* session is registered or about to be, an entry of a closed one has a closer
\* on its way to remove it, and no entry's Weak reference is left dangling.
RegistryExact ==
  /\ \A c \in opened \ closed : c \in clients \/ \E t \in Task : work[t] = c /\ stage[t] = "register"
  /\ \A c \in clients :
       (Alive(c) /\ c \notin closed) \/ \E r \in Runner : Unregistering(r, c)

\* However many tasks close or drop a session at once, one logout is sent.
LogoutOnce == \A c \in Client : logouts[c] <= 1

\* A session that is gone was logged out if the server keeps state for it,
\* unless an answer changed its state after the close had decided.
LogoutWhenNeeded ==
  \A c \in opened : (~Alive(c) /\ \A r \in Runner : work[r] # c)
                    => (c \in late \/ (logouts[c] = 1 <=> NeedLogout(c)))

\* The loop may still beat a session it took in its last snapshot, once.
OneStrayBeat == \A c \in Client : strayBeats[c] <= 1

\* However the tasks, the closers and the heartbeat loop interleave, the server sees of each
\* session what SessionService promises: register_client, unregister_client, close, Drop and
\* the loop of client_mgr.rs together.
Closing(c, s) == \E r \in Runner : work[r] = c /\ stage[r] = s
Phase(c) ==
  IF c \notin opened THEN "new"
  ELSE IF c \notin closed THEN "open"
  ELSE IF Closing(c, "unregister") THEN "closing"
  ELSE IF Closing(c, "logout") THEN "closed" ELSE "gone"
Phases == [c \in Client |-> Phase(c)]
Keeps == {c \in Client : NeedLogout(c)}

Service == INSTANCE SessionService WITH phase <- Phases, keeps <- Keeps, strays <- strayBeats

ImplementsSessionService == Service!Spec

\* A session that stays registered is heartbeaten again and again, at the short
\* interval, as long as the heartbeats of the sessions before it return.
RegisteredIsBeaten ==
  []<>(beating = None) =>
    \A c \in Client : (c \in clients) ~> ((beating = c /\ interval = "busy") \/ c \notin clients)

\* A session nobody refers to any more leaves the map, and its close finishes.
ReleasedIsClosed ==
  \A c \in Client : (c \in opened /\ ~Alive(c)) ~> (c \notin clients /\ \A r \in Runner : work[r] # c)

\* When the program has no session left, the loop falls back to the long sleep.
BackToIdle == <>[](clients = {}) /\ []<>(beating = None) => <>[](interval = "idle")

=============================================================================
