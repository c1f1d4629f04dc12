--------------------------- MODULE AlertDelivery ---------------------------
(***************************************************************************)
(* How an alert reaches the clients: the worker threads that run client    *)
(* sessions (clientSession::run), keepalives (UdpHandler::handleKeepalive) *)
(* and alerts (IpcHandler, AlertManager, UdpHandler::broadcastMessage),    *)
(* sharing the SessionManager registry and the EventQueue.                 *)
(*                                                                         *)
(* One worker at a time runs a given session (EPOLLONESHOT); different     *)
(* sessions, keepalives and alerts are run by different workers and        *)
(* interleave at every access to shared state.  The UDP address of a       *)
(* client is identified with the session object made for its connection.   *)
(***************************************************************************)
EXTENDS SessionManager, Naturals, Sequences, FiniteSets

CONSTANTS Alerts,     \* alerts sent by the sensors, one UNIX connection each
          QueueSize,  \* Config::getQueueSize
          NoUser,     \* m_clientID.empty()
          NoAlert     \* no event held

ASSUME DeliveryAssumption ==
    /\ QueueSize \in Nat \ {0}
    /\ NoUser \notin Users
    /\ NoAlert \notin Alerts

VARIABLES session,    \* the state of each clientSession and of its worker
          keepalive,  \* the keepalive between getSession and setUdpAddress
          task,       \* the worker that handles each alert
          eventQueue  \* EventQueue::m_eventQueueMap

\* What the server did for each alert, and who was there: read by properties.
VARIABLES sent,       \* sent[a]: addresses broadcastMessage sent a to
          delayed,    \* delayed[a]: addresses handleEventQueue sent a to
          pushed,     \* pushed[u]: events pushed for u, oldest first
          popped,     \* popped[u]: events popped for u
          steady      \* steady[a]: users that stay as they were during the broadcast

INSTANCE EventQueue WITH Recipients <- Users, Events <- Alerts

sessionVars == <<session, keepalive>>
observerVars == <<sent, delayed, pushed, popped, steady>>
vars == <<registryVars, sessionVars, task, eventQueue, observerVars>>

NoKeepalive == [from |-> NoSession, to |-> NoSession]
NewSession == [pc |-> "unborn", clientID |-> NoUser, udpAddress |-> NoSession,
               keep |-> TRUE, event |-> NoAlert]
NewTask == [pc |-> "arriving", offline |-> {}, user |-> NoUser]

Init ==
    /\ RegistryInit
    /\ EventQueueInit
    /\ session = [s \in Sessions |-> NewSession]
    /\ keepalive = NoKeepalive
    /\ task = [a \in Alerts |-> NewTask]
    /\ sent = [a \in Alerts |-> {}]
    /\ delayed = [a \in Alerts |-> {}]
    /\ pushed = [u \in Users |-> <<>>]
    /\ popped = [u \in Users |-> {}]
    /\ steady = [a \in Alerts |-> {}]

-----------------------------------------------------------------------------
(***************************************************************************)
(* Threads inside EventQueue.  pushEvent writes the map, a popEvent that    *)
(* empties a deque erases from it, and any other popEvent only reads the   *)
(* map and writes its own user's deque.  Two threads inside with           *)
(* conflicting accesses are a data race.                                   *)
(***************************************************************************)
Popping == {s \in Sessions : session[s].pc = "popping"}
Pushing == {a \in Alerts : task[a].pc = "pushing"}

PopsConflict(s, t) ==
    \/ Len(eventQueue[session[s].clientID]) = 1
    \/ Len(eventQueue[session[t].clientID]) = 1
    \/ session[s].clientID = session[t].clientID /\ hasEvent(session[s].clientID)

Racing ==
    \/ \E a, b \in Pushing : a # b
    \/ Pushing # {} /\ Popping # {}
    \/ \E s, t \in Popping : s # t /\ PopsConflict(s, t)

\* A registration of u changed: u no longer stays as it was for the broadcasts
\* that are between their two looks at the registry.
Disturb(u) ==
    steady' = [a \in Alerts |->
        IF task[a].pc = "offline" THEN steady[a] \ {u} ELSE steady[a]]

Register(u, s) == registerSession(u, s) /\ Disturb(u)
Unregister(u) == unregisterSession(u) /\ Disturb(u)
UNCHANGED_registry == UNCHANGED <<registryVars, steady>>

\* Unregistering is skipped for a session that never logged in.
UnregisterIfLoggedIn(s) ==
    IF session[s].clientID = NoUser THEN UNCHANGED_registry
                                    ELSE Unregister(session[s].clientID)

-----------------------------------------------------------------------------
(***************************************************************************)
(* clientSession::run, one action per access to shared state.              *)
(***************************************************************************)
At(s, pc) == session[s].pc = pc
Authenticated(s) == session[s].clientID # NoUser
Goto(s, pc) == session' = [session EXCEPT ![s] = [@ EXCEPT !.pc = pc]]
UNCHANGED_delivery == UNCHANGED <<eventQueue, task, sent, delayed, pushed, popped>>

\* Server::handleTcpConnection: accept, make the session, arm its descriptor.
Accept(s) ==
    /\ At(s, "unborn")
    /\ Goto(s, "armed")
    /\ UNCHANGED_registry /\ UNCHANGED keepalive /\ UNCHANGED_delivery

\* read() returns 0: the client disconnected.
ReadEOF(s) ==
    /\ At(s, "armed")
    /\ Goto(s, "closed")
    /\ UnregisterIfLoggedIn(s)
    /\ UNCHANGED keepalive /\ UNCHANGED_delivery

\* read() fails (not EAGAIN): the session ends but is not unregistered.
ReadError(s) ==
    /\ At(s, "armed")
    /\ Goto(s, "closed")
    /\ UNCHANGED_registry /\ UNCHANGED keepalive /\ UNCHANGED_delivery

LoginTwice(s, u) ==
    /\ At(s, "armed")
    /\ session' = [session EXCEPT ![s] = [@ EXCEPT !.pc = "replied", !.clientID = u, !.keep = TRUE]]
    /\ Register(u, s)
    /\ UNCHANGED keepalive /\ UNCHANGED_delivery

\* processMessage on a login that Authenticator::authenticate accepts.
Login(s, u) ==
    /\ At(s, "armed") /\ ~Authenticated(s)
    /\ session' = [session EXCEPT ![s] = [@ EXCEPT !.pc = "replied", !.clientID = u, !.keep = TRUE]]
    /\ Register(u, s)
    /\ UNCHANGED keepalive /\ UNCHANGED_delivery

\* processMessage on anything else: a command, a rejected login, bad input.
\* keep is processResult.second, FALSE for end and for internal errors.
Request(s, keep) ==
    /\ At(s, "armed")
    /\ session' = [session EXCEPT ![s] = [@ EXCEPT !.pc = "replied", !.keep = keep]]
    /\ UNCHANGED_registry /\ UNCHANGED keepalive /\ UNCHANGED_delivery

\* write() fails (not EAGAIN): unregister and end, without handleEventQueue.
WriteError(s) ==
    /\ At(s, "replied")
    /\ Goto(s, "closed")
    /\ UnregisterIfLoggedIn(s)
    /\ UNCHANGED keepalive /\ UNCHANGED_delivery

AfterRun(s) == IF session[s].keep THEN "armed" ELSE "closing"

\* write() succeeds, or the reply is kept as pending: on to handleEventQueue.
WriteReply(s) ==
    /\ At(s, "replied")
    /\ Goto(s, IF Authenticated(s) THEN "popping" ELSE AfterRun(s))
    /\ UNCHANGED_registry /\ UNCHANGED keepalive /\ UNCHANGED_delivery

\* handleEventQueue: popEvent finds an event, kept in a local variable.
PopEvent(s) ==
    LET u == session[s].clientID IN
    /\ At(s, "popping")
    /\ \E e \in Alerts :
        /\ popEvent(u, e)
        /\ session' = [session EXCEPT ![s] = [@ EXCEPT !.pc = "sending", !.event = e]]
        /\ popped' = [popped EXCEPT ![u] = @ \cup {e}]
    /\ UNCHANGED_registry /\ UNCHANGED <<keepalive, task, sent, delayed, pushed>>

PopNothing(s) ==
    /\ At(s, "popping") /\ ~hasEvent(session[s].clientID)
    /\ Goto(s, AfterRun(s))
    /\ UNCHANGED_registry /\ UNCHANGED keepalive /\ UNCHANGED_delivery

\* The address is looked at again after up to 100 ms of sleep; one event per run.
SendEvent(s) ==
    /\ At(s, "sending") /\ session[s].udpAddress # NoSession
    /\ delayed' = [delayed EXCEPT ![session[s].event] = @ \cup {session[s].udpAddress}]
    /\ session' = [session EXCEPT ![s] = [@ EXCEPT !.pc = AfterRun(s), !.event = NoAlert]]
    /\ UNCHANGED_registry /\ UNCHANGED <<keepalive, task, eventQueue, sent, pushed, popped>>

\* Still no address: the popped event is logged and forgotten.
DropEvent(s) ==
    /\ At(s, "sending") /\ session[s].udpAddress = NoSession
    /\ session' = [session EXCEPT ![s] = [@ EXCEPT !.pc = AfterRun(s), !.event = NoAlert]]
    /\ UNCHANGED_registry /\ UNCHANGED keepalive /\ UNCHANGED_delivery

\* processResult.second is FALSE: unregister and end the session.
CloseSession(s) ==
    /\ At(s, "closing")
    /\ Goto(s, "closed")
    /\ UnregisterIfLoggedIn(s)
    /\ UNCHANGED keepalive /\ UNCHANGED_delivery

-----------------------------------------------------------------------------
(***************************************************************************)
(* UdpHandler::handleKeepalive.  A client sends keepalives from its login  *)
(* on; a datagram may be lost, duplicated, or arrive after its session     *)
(* ended.  The session is looked up under m_mutex and written under its    *)
(* own mutex, so the registry may change in between.  One keepalive at a   *)
(* time is between the two steps.  A keepalive that finds its session      *)
(* before the reply of a request in progress is written is the same as one *)
(* that came before the request.                                           *)
(***************************************************************************)
UNCHANGED_sessions == UNCHANGED_registry /\ UNCHANGED sessionVars

FindSession(s) ==
    LET u == session[s].clientID IN
    /\ keepalive = NoKeepalive
    /\ Authenticated(s) /\ ~At(s, "replied")
    /\ isClientRegistered(u)
    /\ keepalive' = [from |-> s, to |-> getSession(u)]
    /\ UNCHANGED session /\ UNCHANGED_registry /\ UNCHANGED_delivery

SetUdpAddress ==
    /\ keepalive # NoKeepalive
    /\ session' = [session EXCEPT ![keepalive.to] = [@ EXCEPT !.udpAddress = keepalive.from]]
    /\ keepalive' = NoKeepalive
    /\ UNCHANGED_registry /\ UNCHANGED_delivery

-----------------------------------------------------------------------------
(***************************************************************************)
(* An alert: IpcHandler::handleConnection, AlertManager::processAlert and  *)
(* UdpHandler::broadcastMessage in one worker.                             *)
(***************************************************************************)
\* The non-blocking read finds no data yet, an error, or end of file, or the
\* alert does not parse: it is never looked at again.
RejectAlert(a) ==
    /\ task[a].pc = "arriving"
    /\ task' = [task EXCEPT ![a] = [@ EXCEPT !.pc = "rejected"]]
    /\ UNCHANGED_sessions /\ UNCHANGED <<eventQueue, sent, delayed, pushed, popped>>

KnownUdpAddresses == {session[s].udpAddress : s \in Sessions} \ {NoSession}

ActiveUdpAddresses ==
    {session[getSession(u)].udpAddress : u \in {v \in Users : isClientRegistered(v)}} \ {NoSession}

HasAddress(u) == isClientRegistered(u) /\ session[getSession(u)].udpAddress # NoSession

\* getActiveUdpAddresses, and a sendto for each address.
BroadcastActive(a) ==
    /\ task[a].pc = "arriving"
    /\ task' = [task EXCEPT ![a] = [@ EXCEPT !.pc = "offline"]]
    /\ sent' = [sent EXCEPT ![a] = ActiveUdpAddresses]
    /\ steady' = [steady EXCEPT ![a] = offlineUsers \cup {u \in Users : HasAddress(u)}]
    /\ UNCHANGED <<registryVars, sessionVars, eventQueue, delayed, pushed, popped>>

NextPush(remaining) == IF remaining = {} THEN "done" ELSE "queueing"

\* getOfflineUsers, in a critical section of its own.
BroadcastOffline(a) ==
    /\ task[a].pc = "offline"
    /\ task' = [task EXCEPT ![a] = [@ EXCEPT !.pc = NextPush(offlineUsers), !.offline = offlineUsers]]
    /\ UNCHANGED_sessions /\ UNCHANGED <<eventQueue, sent, delayed, pushed, popped>>

\* The loop over the offline users enters pushEvent for one of them ...
EnterPush(a, u) ==
    /\ task[a].pc = "queueing" /\ u \in task[a].offline
    /\ task' = [task EXCEPT ![a] = [@ EXCEPT !.pc = "pushing", !.user = u]]
    /\ UNCHANGED_sessions /\ UNCHANGED <<eventQueue, sent, delayed, pushed, popped>>

\* ... and leaves it.
PushEvent(a) ==
    LET u == task[a].user
        remaining == task[a].offline \ {u}
    IN
    /\ task[a].pc = "pushing"
    /\ pushEvent(u, a)
    /\ pushed' = [pushed EXCEPT ![u] = Append(@, a)]
    /\ task' = [task EXCEPT ![a] = [pc |-> NextPush(remaining), offline |-> remaining, user |-> NoUser]]
    /\ UNCHANGED_sessions /\ UNCHANGED <<sent, delayed, popped>>

-----------------------------------------------------------------------------
\* The process dies and is started again: only the database survives, and
\* neither the registry nor the event queue is in it.
Crash ==
    /\ activeSessions' = [u \in Users |-> NoSession]
    /\ offlineUsers' = {}
    /\ connectedUsers' = {}
    /\ eventQueue' = [u \in Users |-> <<>>]
    /\ session' = [s \in Sessions |-> IF At(s, "unborn") THEN NewSession
                     ELSE [NewSession EXCEPT !.pc = "closed", !.clientID = session[s].clientID]]
    /\ keepalive' = NoKeepalive
    /\ task' = [a \in Alerts |-> IF task[a].pc = "arriving" THEN NewTask
                                 ELSE [NewTask EXCEPT !.pc = "rejected"]]
    /\ sent' = [a \in Alerts |-> {}]
    /\ delayed' = [a \in Alerts |-> {}]
    /\ pushed' = [u \in Users |-> <<>>]
    /\ popped' = [u \in Users |-> {}]
    /\ steady' = [a \in Alerts |-> {}]

SessionStep(s) ==
    \/ Accept(s) \/ ReadEOF(s) \/ ReadError(s)
    \/ \E u \in Users : Login(s, u)
    \/ \E keep \in BOOLEAN : Request(s, keep)
    \/ WriteError(s) \/ WriteReply(s)
    \/ PopEvent(s) \/ PopNothing(s) \/ SendEvent(s) \/ DropEvent(s)
    \/ CloseSession(s)

AlertStep(a) ==
    \/ RejectAlert(a) \/ BroadcastActive(a) \/ BroadcastOffline(a)
    \/ \E u \in Users : EnterPush(a, u)
    \/ PushEvent(a)

\* What the program does after a data race is undefined: a crash is the only
\* continuation modelled.
Next ==
    \/ ~Racing /\ \E s \in Sessions : SessionStep(s) \/ FindSession(s)
    \/ ~Racing /\ SetUdpAddress
    \/ ~Racing /\ \E a \in Alerts : AlertStep(a)
    \/ Crash

Spec == Init /\ [][Next]_vars

-----------------------------------------------------------------------------
SessionRecord ==
    [pc : {"unborn", "armed", "replied", "popping", "sending", "closing", "closed"},
     clientID : Users \cup {NoUser}, udpAddress : Sessions \cup {NoSession},
     keep : BOOLEAN, event : Alerts \cup {NoAlert}]

TaskRecord ==
    [pc : {"arriving", "rejected", "offline", "queueing", "pushing", "done"},
     offline : SUBSET Users, user : Users \cup {NoUser}]

(***************************************************************************)
(* Every variable has its type, and no user's deque outgrows the queue     *)
(* size, whichever workers push and pop.                                   *)
(***************************************************************************)
TypeOK ==
    /\ RegistryTypeOK
    /\ EventQueueTypeOK
    /\ session \in [Sessions -> SessionRecord]
    /\ keepalive \in [from : Sessions \cup {NoSession}, to : Sessions \cup {NoSession}]
    /\ task \in [Alerts -> TaskRecord]
    /\ sent \in [Alerts -> SUBSET Sessions]
    /\ delayed \in [Alerts -> SUBSET Sessions]
    /\ pushed \in [Users -> Seq(Alerts)]
    /\ popped \in [Users -> SUBSET Alerts]
    /\ steady \in [Alerts -> SUBSET Users]

Elements(q) == {q[i] : i \in 1..Len(q)}
SentTo(a, u) == \E s \in sent[a] : session[s].clientID = u
QueuedFor(a, u) == a \in Elements(pushed[u])

(***************************************************************************)
(* The registry serves a user with a session that logged in as that user,  *)
(* even if the session has ended since.  A user listed as offline while    *)
(* one of its sessions is live has had another session: unregisterSession  *)
(* removes the user's entry whichever of the two it belongs to.            *)
(***************************************************************************)
HasLiveSession(u) ==
    \E s \in Sessions : session[s].clientID = u /\ session[s].pc \notin {"unborn", "closed"}

RegistryMatchesSessions ==
    \A u \in Users :
        /\ isClientRegistered(u) => session[getSession(u)].clientID = u
        /\ u \in offlineUsers /\ HasLiveSession(u) =>
              \E s, t \in Sessions : s # t /\ session[s].clientID = u /\ session[t].clientID = u

(***************************************************************************)
(* The UDP address kept for a session is one from which a client of the    *)
(* same user sent a keepalive, though handleKeepalive looks the session up *)
(* and writes it in two critical sections: a session never changes user.   *)
(***************************************************************************)
AddressBelongsToUser ==
    \A s \in Sessions :
        LET x == session[s].udpAddress IN
        x # NoSession => Authenticated(s) /\ session[x].clientID = session[s].clientID

(***************************************************************************)
(* When broadcastMessage returns, a user whose registration did not change *)
(* between its two looks at the registry was sent the alert or had it      *)
(* queued, and not both.                                                   *)
(***************************************************************************)
ExactlyOneChannel ==
    \A a \in Alerts : task[a].pc = "done" =>
        \A u \in steady[a] : SentTo(a, u) # QueuedFor(a, u)

(***************************************************************************)
(* What a full deque drops is the oldest: of the newest QueueSize alerts   *)
(* pushed for a user each is still queued or was popped by a session, and  *)
(* not both, nor queued twice; duplicate sessions of one user take         *)
(* different events from the deque (pushEvent, popEvent).                  *)
(***************************************************************************)
NewestEventsKept ==
    \A u \in Users :
        /\ \A i \in 1..Len(pushed[u]) :
              i + QueueSize > Len(pushed[u]) =>
                  pushed[u][i] \in Elements(eventQueue[u]) \cup popped[u]
        /\ Elements(eventQueue[u]) \cap popped[u] = {}
        /\ Cardinality(Elements(eventQueue[u])) = Len(eventQueue[u])

-----------------------------------------------------------------------------
(***************************************************************************)
(* What the documents and comments say.                                    *)
(***************************************************************************)
\* REPORT: the event queue is safe when several workers process events.
NoRace == ~Racing
=============================================================================
