---------------------------- MODULE Connections ----------------------------
(***************************************************************************)
(* The life of a connection in the server (server.cpp, clientSession.cpp,  *)
(* ipcHandler.cpp): descriptors, epoll registrations, the map from         *)
(* descriptors to sessions, and the references that keep a session alive.  *)
(*                                                                         *)
(* The main thread accepts connections and turns epoll events into tasks;  *)
(* workers run the tasks and close what has ended.  A descriptor is a      *)
(* number: once closed it is given to the next connection, and whoever     *)
(* still holds the number acts on that one.  A session object dies with    *)
(* its last shared_ptr (the map, a task, the registry of SessionManager or *)
(* the main thread), and ~clientSession closes its number once more.       *)
(*                                                                         *)
(* A session is named by the TCP connection it was made for.               *)
(***************************************************************************)
EXTENDS SessionManager, Naturals, FiniteSets

CONSTANTS Sensors,      \* UNIX connections of alert sensors
          Tasks,        \* places for tasks, queued or running (a bound)
          MaxFD,        \* descriptors left for connections: 1..MaxFD
          MaxConns,     \* bound: connections that arrive
          MaxDeferred,  \* bound: replies that have to wait, in m_pendingMessages
          NullSession,  \* a map entry whose shared_ptr is null
          NoUser        \* m_clientID.empty()

ASSUME ConnectionsAssumption ==
    /\ MaxFD \in Nat \ {0} /\ MaxConns \in Nat /\ MaxDeferred \in Nat
    /\ Sessions \cap Sensors = {}
    /\ NoSession \notin Sensors /\ NullSession \notin Sessions \cup Sensors \cup {NoSession}
    /\ NoUser \notin Users

VARIABLES arrived,         \* how far each connection has come to the server
          socket,          \* what is open under each descriptor
          watch,           \* how epoll watches it, or why nobody does
          clientSessions,  \* m_clientSessions
          session,         \* the fields of each clientSession
          main,            \* the main thread: the connection it is accepting
          batch,           \* events returned by epoll_wait, not yet handled
          task             \* the tasks given to the pool

\* Observers.
VARIABLES ended,           \* sessions whose run returned false, or lost in a race
          deferred         \* how many replies had to wait for their sockets

netVars == <<arrived, socket, watch>>
serverVars == <<clientSessions, session, main, batch, task, registryVars>>
observerVars == <<ended, deferred>>
vars == <<netVars, serverVars, observerVars>>

FDs == 1..MaxFD
Conns == Sessions \cup Sensors
Closed == [conn |-> NoSession, peer |-> "shut", data |-> FALSE]
Opened(c) == [conn |-> c, peer |-> "open", data |-> FALSE]
Looping == [pc |-> "loop", conn |-> NoSession, fd |-> 0]
NewSession == [fd |-> 0, clientID |-> NoUser, pending |-> 0]
FreeTask == [pc |-> "free", session |-> NoSession, fd |-> 0, keep |-> TRUE]

Init ==
    /\ RegistryInit
    /\ arrived = [c \in Conns |-> "away"]
    /\ socket = [f \in FDs |-> Closed]
    /\ watch = [f \in FDs |-> "none"]
    /\ clientSessions = [f \in FDs |-> NoSession]
    /\ session = [s \in Sessions |-> NewSession]
    /\ main = Looping
    /\ batch = {}
    /\ task = [t \in Tasks |-> FreeTask]
    /\ ended = {} /\ deferred = 0

-----------------------------------------------------------------------------
(***************************************************************************)
(* The clients and sensors, and the kernel's side of a descriptor.         *)
(***************************************************************************)
Connect(c) ==
    /\ arrived[c] = "away" /\ Cardinality({d \in Conns : arrived[d] # "away"}) < MaxConns
    /\ arrived' = [arrived EXCEPT ![c] = "waiting"]
    /\ UNCHANGED <<socket, watch, serverVars, observerVars>>

Send(f) ==
    /\ socket[f].peer = "open" /\ ~socket[f].data
    /\ socket' = [socket EXCEPT ![f].data = TRUE]
    /\ UNCHANGED <<arrived, watch, serverVars, observerVars>>

\* The other end closes (what it sent can still be read) or resets.
Hangup(f, how) ==
    /\ socket[f].peer = "open"
    /\ socket' = [socket EXCEPT ![f].peer = how, ![f].data = @ /\ how = "shut"]
    /\ UNCHANGED <<arrived, watch, serverVars, observerVars>>

IsClosed(f) == socket[f] = Closed
FreeFDs == {f \in FDs : IsClosed(f)}
LowestFree(f) == IsClosed(f) /\ \A g \in FreeFDs : f <= g

\* What read() on a descriptor returns.
ReadResult(f) ==
    IF IsClosed(f) \/ socket[f].peer = "reset" THEN "error"
    ELSE IF socket[f].data THEN "data"
    ELSE IF socket[f].peer = "shut" THEN "eof"
    ELSE "again"

\* What write() may return; the socket buffer may be full at any time.
WriteResults(f) ==
    IF IsClosed(f) \/ socket[f].peer = "reset" THEN {"error"}
    ELSE {"ok", "again"} \cup (IF socket[f].peer = "shut" THEN {"error"} ELSE {})

Consumed(f) == [socket EXCEPT ![f].data = FALSE]

(***************************************************************************)
(* References.  When a step drops the last one of a session, its           *)
(* destructor closes m_clientSocket, whatever is open there by then.       *)
(***************************************************************************)
Refs == Sessions \cap
    (  {clientSessions[f] : f \in FDs} \cup {task[t].session : t \in Tasks}
    \cup {activeSessions[u] : u \in Users} \cup {main.conn})

\* A mutant: the session has no destructor.
CloseWithoutDestructor(newSocket, newWatch, closing) ==
    /\ socket' = [f \in FDs |-> IF f \in closing THEN Closed ELSE newSocket[f]]
    /\ watch' = [f \in FDs |-> IF f \in closing THEN "none" ELSE newWatch[f]]

\* close() of the descriptors in closing and of those of the sessions destroyed,
\* given what the step does to sockets and registrations before: a closed
\* descriptor leaves epoll.  The last conjunct of a step.
Close(newSocket, newWatch, closing) ==
    LET gone == closing \cup {session[s].fd : s \in Refs \ Refs'} IN
    /\ socket' = [f \in FDs |-> IF f \in gone THEN Closed ELSE newSocket[f]]
    /\ watch' = [f \in FDs |-> IF f \in gone THEN "none" ELSE newWatch[f]]

DestroyUnreferenced == Close(socket, watch, {})

\* epoll_ctl fails on a descriptor that is not registered.
EpollMod(f, events) ==
    IF watch[f] \in {"none", "early"} THEN watch ELSE [watch EXCEPT ![f] = events]

-----------------------------------------------------------------------------
(***************************************************************************)
(* The main thread: Server::run, handleTcpConnection, handleUNIXConnection,*)
(* tcpHandling and pendingMessages.                                        *)
(***************************************************************************)
Idle == main.pc = "loop"
Erasing == \E t \in Tasks : task[t].pc = "erase"
FreeSlot(t) == task[t].pc = "free"

\* accept() takes the lowest free number, and epoll watches it.
AcceptTcp(s, f) ==
    /\ Idle /\ arrived[s] = "waiting" /\ LowestFree(f)
    /\ arrived' = [arrived EXCEPT ![s] = "accepted"]
    /\ socket' = [socket EXCEPT ![f] = Opened(s)]
    /\ watch' = [watch EXCEPT ![f] = "in"]
    /\ session' = [session EXCEPT ![s].fd = f]
    /\ main' = [pc |-> "accept", conn |-> s, fd |-> f]
    /\ UNCHANGED <<clientSessions, batch, task, registryVars, observerVars>>

\* epoll does not take it, and it is closed again.
AcceptFails(s) ==
    /\ Idle /\ arrived[s] = "waiting" /\ FreeFDs # {}
    /\ arrived' = [arrived EXCEPT ![s] = "accepted"]
    /\ UNCHANGED <<socket, watch, serverVars, observerVars>>

\* The entry is written over whatever was there, and the welcome message sent,
\* or kept if the socket is not ready.  The write may race with an erase in a
\* worker and be lost.
StoreSession(lost, kept) ==
    LET s == main.conn
        f == main.fd
    IN
    /\ main.pc = "accept"
    /\ lost => Erasing
    /\ clientSessions' = [clientSessions EXCEPT ![f] = IF lost THEN NoSession ELSE s]
    /\ kept => "again" \in WriteResults(f) /\ deferred < MaxDeferred
    /\ session' = [session EXCEPT ![s].pending = IF kept THEN 1 ELSE 0]
    /\ deferred' = IF kept THEN deferred + 1 ELSE deferred
    /\ ended' = IF lost THEN ended \cup {s} ELSE ended
    /\ main' = Looping
    /\ UNCHANGED <<arrived, batch, task, registryVars>>
    /\ DestroyUnreferenced

\* A UNIX connection is not watched: one task reads it once.
AcceptUnix(c, t, f) ==
    /\ Idle /\ arrived[c] = "waiting" /\ LowestFree(f) /\ FreeSlot(t)
    /\ arrived' = [arrived EXCEPT ![c] = "accepted"]
    /\ socket' = [socket EXCEPT ![f] = Opened(c)]
    /\ task' = [task EXCEPT ![t] = [FreeTask EXCEPT !.pc = "ipc", !.fd = f]]
    /\ UNCHANGED <<watch, clientSessions, session, main, batch, registryVars, observerVars>>

Readable(f) == ReadResult(f) # "again"
Watched(f) == watch[f] \in {"in", "inout", "level"}

\* epoll_wait: everything that is ready, when the last batch is done.  writable
\* are the descriptors whose sockets take data; a oneshot is used up.
EpollWait(writable) ==
    LET Out(f) == watch[f] = "inout" /\ f \in writable
        ready == {f \in FDs : Watched(f) /\ (Readable(f) \/ Out(f))}
    IN
    /\ Idle /\ batch = {} /\ ready # {}
    /\ batch' = {[fd |-> f, out |-> Out(f)] : f \in ready}
    /\ watch' = [f \in FDs |-> IF f \in ready /\ watch[f] # "level" THEN "off" ELSE watch[f]]
    /\ UNCHANGED <<arrived, socket, clientSessions, session, main, task, registryVars, observerVars>>

Handled(e) == Idle /\ e \in batch /\ batch' = batch \ {e}

\* No session is found.  A write event looks the entry up with operator[],
\* which leaves a null one behind.
IgnoreEvent(e) ==
    LET s == clientSessions[e.fd] IN
    /\ Handled(e)
    /\ s \notin Sessions
    /\ clientSessions' = [clientSessions EXCEPT ![e.fd] = IF e.out THEN NullSession ELSE s]
    /\ UNCHANGED <<netVars, session, main, task, registryVars, observerVars>>

\* The lookup races with an erase in a worker, and misses the entry.
MissEvent(e) ==
    /\ Handled(e)
    /\ Erasing /\ clientSessions[e.fd] \in Sessions
    /\ watch' = EpollMod(e.fd, IF watch[e.fd] = "off" THEN "missed" ELSE watch[e.fd])
    /\ UNCHANGED <<arrived, socket, clientSessions, session, main, task, registryVars, observerVars>>

\* pendingMessages for a write event: one message is sent, or none is.  With
\* none left epoll watches for reads, no longer with EPOLLONESHOT.
TrySendPending(s, n) ==
    /\ n \in {session[s].pending, session[s].pending - 1} \cap Nat
    /\ session' = [session EXCEPT ![s].pending = n]
    /\ watch' = IF n = 0 THEN EpollMod(session[s].fd, "level") ELSE watch

\* A session is found: pendingMessages first, then tcpHandling makes a task.
Dispatch(e, t) ==
    LET s == clientSessions[e.fd] IN
    /\ Handled(e)
    /\ s \in Sessions /\ FreeSlot(t)
    /\ IF e.out THEN \E n \in 0..MaxDeferred : TrySendPending(s, n)
                ELSE UNCHANGED <<session, watch>>
    /\ task' = [task EXCEPT ![t] = [FreeTask EXCEPT !.pc = "run", !.session = s, !.fd = e.fd]]
    /\ UNCHANGED <<arrived, socket, clientSessions, main, registryVars, observerVars>>

-----------------------------------------------------------------------------
(***************************************************************************)
(* A worker with a session: the lambda of tcpHandling and                  *)
(* clientSession::run.  Reads and writes go to the number m_clientSocket.  *)
(***************************************************************************)
At(t, pc) == task[t].pc = pc
Goto(t, pc) == task' = [task EXCEPT ![t].pc = pc, ![t].keep = TRUE]
End(t) == Goto(t, "del") /\ ended' = ended \cup {task[t].session}
MainUnchanged == UNCHANGED <<clientSessions, main, batch>>

UnregisterIfLoggedIn(s) ==
    IF session[s].clientID = NoUser THEN UNCHANGED registryVars
                                    ELSE unregisterSession(session[s].clientID)

ReadNothing(t) ==
    /\ At(t, "run") /\ ReadResult(task[t].fd) = "again"
    /\ Goto(t, "rearm")
    /\ MainUnchanged /\ UNCHANGED <<netVars, session, registryVars, observerVars>>

\* The session ends; after an error it stays registered.
ReadEnd(t) ==
    /\ At(t, "run") /\ ReadResult(task[t].fd) \in {"eof", "error"}
    /\ End(t)
    /\ IF ReadResult(task[t].fd) = "eof" THEN UnregisterIfLoggedIn(task[t].session)
                                         ELSE UNCHANGED registryVars
    /\ MainUnchanged /\ UNCHANGED <<arrived, session, deferred>>
    /\ DestroyUnreferenced

\* processMessage on a login that is accepted.
ReadLogin(t, u) ==
    LET s == task[t].session IN
    /\ At(t, "run") /\ ReadResult(task[t].fd) = "data" /\ session[s].clientID = NoUser
    /\ session' = [session EXCEPT ![s].clientID = u]
    /\ registerSession(u, s)
    /\ Goto(t, "write")
    /\ MainUnchanged /\ UNCHANGED <<arrived, observerVars>>
    /\ Close(Consumed(task[t].fd), watch, {})

\* processMessage on anything else; keep is processResult.second.
ReadRequest(t, keep) ==
    /\ At(t, "run") /\ ReadResult(task[t].fd) = "data"
    /\ socket' = Consumed(task[t].fd)
    /\ task' = [task EXCEPT ![t].pc = "write", ![t].keep = keep]
    /\ MainUnchanged /\ UNCHANGED <<arrived, watch, session, registryVars, observerVars>>

\* The reply is written, or kept for later, and the session goes on or ends.
WriteReply(t, result) ==
    LET s == task[t].session
        kept == result = "again"
    IN
    /\ At(t, "write") /\ result \in WriteResults(task[t].fd) \ {"error"}
    /\ kept => deferred < MaxDeferred
    /\ session' = IF kept THEN [session EXCEPT ![s].pending = @ + 1] ELSE session
    /\ deferred' = IF kept THEN deferred + 1 ELSE deferred
    /\ IF task[t].keep
         THEN Goto(t, "rearm") /\ UNCHANGED <<registryVars, ended>>
         ELSE End(t) /\ UnregisterIfLoggedIn(s)
    /\ MainUnchanged /\ UNCHANGED arrived
    /\ DestroyUnreferenced

WriteError(t) ==
    /\ At(t, "write") /\ "error" \in WriteResults(task[t].fd)
    /\ End(t)
    /\ UnregisterIfLoggedIn(task[t].session)
    /\ MainUnchanged /\ UNCHANGED <<arrived, session, deferred>>
    /\ DestroyUnreferenced

\* Mutants of Rearm: without EPOLLONESHOT, only while replies are pending, and
\* with the erase of the other branch.
RearmLevel(t) ==
    LET s == task[t].session IN
    /\ At(t, "rearm")
    /\ task' = [task EXCEPT ![t] = FreeTask]
    /\ MainUnchanged /\ UNCHANGED <<arrived, session, registryVars, observerVars>>
    /\ Close(socket, EpollMod(task[t].fd, IF session[s].pending > 0 THEN "inout" ELSE "level"), {})

RearmIfPending(t) ==
    LET s == task[t].session IN
    /\ At(t, "rearm")
    /\ task' = [task EXCEPT ![t] = FreeTask]
    /\ MainUnchanged /\ UNCHANGED <<arrived, session, registryVars, observerVars>>
    /\ Close(socket, IF session[s].pending > 0 THEN EpollMod(task[t].fd, "inout") ELSE watch, {})

RearmAndErase(t) ==
    LET s == task[t].session IN
    /\ At(t, "rearm")
    /\ task' = [task EXCEPT ![t] = FreeTask]
    /\ clientSessions' = [clientSessions EXCEPT ![task[t].fd] = NoSession]
    /\ UNCHANGED <<main, batch, arrived, session, registryVars, observerVars>>
    /\ Close(socket, EpollMod(task[t].fd, IF session[s].pending > 0 THEN "inout" ELSE "in"), {})

\* run returned true: watch the descriptor again, for writes too while replies
\* are pending, and let go of the session.
Rearm(t) ==
    LET s == task[t].session IN
    /\ At(t, "rearm")
    /\ task' = [task EXCEPT ![t] = FreeTask]
    /\ MainUnchanged /\ UNCHANGED <<arrived, session, registryVars, observerVars>>
    /\ Close(socket, EpollMod(task[t].fd, IF session[s].pending > 0 THEN "inout" ELSE "in"), {})

\* run returned false: EPOLL_CTL_DEL, close, erase, and the lambda is destroyed.
EpollDel(t) ==
    /\ At(t, "del")
    /\ Goto(t, "close")
    /\ watch' = EpollMod(task[t].fd, "none")
    /\ MainUnchanged /\ UNCHANGED <<arrived, socket, session, registryVars, observerVars>>

CloseSocket(t) ==
    /\ At(t, "close")
    /\ Goto(t, "erase")
    /\ MainUnchanged /\ UNCHANGED <<arrived, session, registryVars, observerVars>>
    /\ Close(socket, watch, {task[t].fd})

Erase(t) ==
    /\ At(t, "erase")
    /\ clientSessions' = [clientSessions EXCEPT ![task[t].fd] = NoSession]
    /\ Goto(t, "release")
    /\ UNCHANGED <<arrived, session, main, batch, registryVars, observerVars>>
    /\ DestroyUnreferenced

Release(t) ==
    /\ At(t, "release")
    /\ task' = [task EXCEPT ![t] = FreeTask]
    /\ MainUnchanged /\ UNCHANGED <<arrived, registryVars, observerVars>>
    /\ session' = [s \in Sessions |->
           IF s \in Refs \ Refs' THEN [NewSession EXCEPT !.fd = session[s].fd] ELSE session[s]]
    /\ DestroyUnreferenced

(***************************************************************************)
(* A worker with a UNIX connection: IpcHandler::handleConnection.          *)
(***************************************************************************)
\* With no data yet it returns, and nobody will read or close the connection.
IpcNoData(t) ==
    /\ At(t, "ipc") /\ ReadResult(task[t].fd) = "again"
    /\ task' = [task EXCEPT ![t] = FreeTask]
    /\ watch' = [watch EXCEPT ![task[t].fd] = IF @ = "none" THEN "early" ELSE @]
    /\ MainUnchanged /\ UNCHANGED <<arrived, socket, session, registryVars, observerVars>>

IpcRead(t) ==
    /\ At(t, "ipc") /\ ReadResult(task[t].fd) # "again"
    /\ socket' = IF ReadResult(task[t].fd) = "data" THEN Consumed(task[t].fd) ELSE socket
    /\ Goto(t, "ipcclose")
    /\ MainUnchanged /\ UNCHANGED <<arrived, watch, session, registryVars, observerVars>>

IpcClose(t) ==
    /\ At(t, "ipcclose")
    /\ task' = [task EXCEPT ![t] = FreeTask]
    /\ MainUnchanged /\ UNCHANGED <<arrived, session, registryVars, observerVars>>
    /\ Close(socket, watch, {task[t].fd})

(***************************************************************************)
(* The loop ends on a signal, and ~Server waits for the tasks that have    *)
(* begun, forgets the others, and lets go of the map and of the registry.  *)
(***************************************************************************)
Stop ==
    /\ Idle /\ batch = {}
    /\ \A t \in Tasks : task[t].pc \in {"free", "run", "ipc"}
    /\ task' = [t \in Tasks |-> FreeTask]
    /\ clientSessions' = [f \in FDs |-> NoSession]
    /\ activeSessions' = [u \in Users |-> NoSession]
    /\ offlineUsers' = {} /\ connectedUsers' = {}
    /\ main' = [Looping EXCEPT !.pc = "stopped"]
    /\ UNCHANGED <<arrived, session, batch, observerVars>>
    /\ DestroyUnreferenced

-----------------------------------------------------------------------------
WorkerStep(t) ==
    \/ ReadNothing(t) \/ ReadEnd(t)
    \/ \E u \in Users : ReadLogin(t, u)
    \/ \E keep \in BOOLEAN : ReadRequest(t, keep)
    \/ \E result \in {"ok", "again"} : WriteReply(t, result)
    \/ WriteError(t) \/ Rearm(t)
    \/ EpollDel(t) \/ CloseSocket(t) \/ Erase(t) \/ Release(t)
    \/ IpcNoData(t) \/ IpcRead(t) \/ IpcClose(t)

MainStep ==
    \/ \E s \in Sessions : AcceptFails(s) \/ \E f \in FDs : AcceptTcp(s, f)
    \/ \E c \in Sensors, t \in Tasks, f \in FDs : AcceptUnix(c, t, f)
    \/ \E lost, kept \in BOOLEAN : StoreSession(lost, kept)
    \/ \E writable \in SUBSET FDs : EpollWait(writable)
    \/ \E e \in batch : IgnoreEvent(e) \/ MissEvent(e)
    \/ \E e \in batch, t \in Tasks : Dispatch(e, t)

PeerStep ==
    \/ \E c \in Conns : Connect(c)
    \/ \E f \in FDs : Send(f) \/ \E how \in {"shut", "reset"} : Hangup(f, how)

Next ==
    \/ PeerStep
    \/ MainStep
    \/ \E t \in Tasks : WorkerStep(t)
    \/ Stop

Spec == Init /\ [][Next]_vars

-----------------------------------------------------------------------------
Busy(f) == \E t \in Tasks : task[t].pc # "free" /\ task[t].fd = f

(***************************************************************************)
(* No descriptor is left without somebody to close it: a TCP descriptor is *)
(* open only while its own session object is referenced, and a UNIX one    *)
(* only while a task still has it or after its single read came too early. *)
(* A stopped server has closed every TCP connection.                       *)
(***************************************************************************)
DescriptorsOwned ==
    \A f \in FDs :
        /\ socket[f].conn \in Sessions => socket[f].conn \in Refs
        /\ socket[f].conn \in Sensors => Busy(f) \/ watch[f] = "early" \/ main.pc = "stopped"

(***************************************************************************)
(* A connection is never forgotten: with no task and no event under way    *)
(* for its descriptor, epoll watches it, so the next request is noticed.   *)
(* Only a lookup that raced with an erase breaks this.                     *)
(***************************************************************************)
NeverForgotten ==
    \A f \in FDs :
        LET s == socket[f].conn IN
        s \in Sessions /\ clientSessions[f] = s /\ main.conn # s =>
            \/ Watched(f) \/ watch[f] = "missed"
            \/ Busy(f) \/ \E e \in batch : e.fd = f

(***************************************************************************)
(* Until run says that its session has ended, a connection keeps its       *)
(* descriptor and its entry, unless another session had or has the same    *)
(* number: closing before erasing, and closing again in the destructor,    *)
(* can only hurt a connection that reuses a number.                        *)
(***************************************************************************)
KeptUntilEnded ==
    \A s \in Sessions :
        LET f == session[s].fd IN
        f # 0 /\ main.conn # s /\ main.pc # "stopped" /\ s \notin ended =>
            \/ socket[f].conn = s /\ clientSessions[f] = s
            \/ \E r \in Sessions \ {s} : session[r].fd = f

(***************************************************************************)
(* As long as no reply ever had to wait for its socket, no two tasks run   *)
(* one session: every registration is a oneshot.  A deferred reply breaks  *)
(* this (REPORT: "only one thread handles a given FD at a time"), because  *)
(* pendingMessages registers the descriptor without EPOLLONESHOT.  So may  *)
(* a number with three sessions: the destructor of the first closes the    *)
(* second, whose task then re-arms the number under a task of the third.   *)
(***************************************************************************)
Overlap(s) == \E t, r \in Tasks : t # r /\ task[t].session = s /\ task[r].session = s
OneWorkerUnlessDeferred ==
    deferred = 0 =>
        \A s \in Sessions : Overlap(s) =>
            \E p, q \in Sessions \ {s} :
                p # q /\ session[p].fd = session[s].fd /\ session[q].fd = session[s].fd

=============================================================================
