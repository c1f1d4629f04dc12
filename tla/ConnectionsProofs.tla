------------------------- MODULE ConnectionsProofs -------------------------
(***************************************************************************)
(* Proofs about Connections, for every number of sessions, sensors, users, *)
(* descriptors and places for tasks:                                       *)
(*   - every open descriptor has somebody to close it (Owned);             *)
(*   - no connection is forgotten by epoll (Remembered).                   *)
(*                                                                         *)
(* The actions are first described by what they do to connections, numbers *)
(* and tasks: every step is one of the kinds below (Kinds), and the        *)
(* invariants are shown for the kinds.                                     *)
(***************************************************************************)
EXTENDS Connections, TLAPS

TcpPcs == {"run", "write", "rearm", "del", "close", "erase", "release"}
IpcPcs == {"ipc", "ipcclose"}

SocketStates == [FDs -> [conn : Conns \cup {NoSession}, peer : {"open", "shut", "reset"}, data : BOOLEAN]]
WatchStates == [FDs -> {"none", "early", "in", "inout", "level", "off", "missed"}]
SessionStates == [Sessions -> [fd : FDs \cup {0}, clientID : Users \cup {NoUser}, pending : Nat]]
MainStates == [pc : {"loop", "accept", "stopped"}, conn : Sessions \cup {NoSession}, fd : FDs \cup {0}]
TaskStates == [Tasks -> [pc : TcpPcs \cup IpcPcs \cup {"free"}, session : Sessions \cup {NoSession},
                         fd : FDs \cup {0}, keep : BOOLEAN]]

TypeOK ==
    /\ arrived \in [Conns -> {"away", "waiting", "accepted"}]
    /\ socket \in SocketStates /\ watch \in WatchStates
    /\ clientSessions \in [FDs -> Sessions \cup {NoSession, NullSession}]
    /\ session \in SessionStates /\ main \in MainStates
    /\ batch \subseteq [fd : FDs, out : BOOLEAN]
    /\ task \in TaskStates
    /\ activeSessions \in [Users -> Sessions \cup {NoSession}]
    /\ ended \subseteq Sessions /\ deferred \in Nat

\* A closed descriptor is not registered, and only a step in the middle of an
\* accept, or a task of a session, has one.
SocketShape == \A f \in FDs : socket[f].conn = NoSession => socket[f] = Closed /\ watch[f] = "none"

MainShape ==
    /\ main.pc = "accept" => main.conn \in Sessions /\ main.fd \in FDs
    /\ main.pc # "accept" => main.conn = NoSession

TaskShape ==
    \A t \in Tasks : /\ task[t].pc \in TcpPcs => task[t].session \in Sessions /\ task[t].fd \in FDs
                     /\ task[t].pc \in IpcPcs => task[t].session = NoSession /\ task[t].fd \in FDs
                     /\ task[t].pc = "free" => task[t].session = NoSession

\* A session keeps the number it was accepted with, and whoever refers to it
\* by a number has this one.
Numbers ==
    /\ \A s \in Sessions : session[s].fd # 0 => arrived[s] = "accepted"
    /\ \A f \in FDs : clientSessions[f] \in Sessions => session[clientSessions[f]].fd = f
    /\ \A f \in FDs : socket[f].conn \in Sessions => session[socket[f].conn].fd = f
    /\ \A t \in Tasks : task[t].session \in Sessions => session[task[t].session].fd = task[t].fd
    /\ main.conn \in Sessions => session[main.conn].fd = main.fd
    /\ \A u \in Users : activeSessions[u] \in Sessions => session[activeSessions[u]].fd # 0

Shapes == SocketShape /\ MainShape /\ TaskShape
BaseInv == TypeOK /\ Shapes /\ Numbers

-----------------------------------------------------------------------------
(***************************************************************************)
(* The kinds of steps.  Of a socket only its connection matters, of a      *)
(* session its number and whether replies are pending.                     *)
(***************************************************************************)
Dies(s) == s \in Refs /\ s \notin Refs'
Swept(f, closing) == f \in closing \/ \E s \in Sessions : Dies(s) /\ session[s].fd = f

Sweeps(closing) ==
    \A f \in FDs : /\ Swept(f, closing) => socket'[f].conn = NoSession /\ watch'[f] = "none"
                   /\ ~Swept(f, closing) => socket'[f].conn = socket[f].conn

WatchKept(closing) == \A f \in FDs : ~Swept(f, closing) => watch'[f] = watch[f]
KeepsConns == \A f \in FDs : socket'[f].conn = socket[f].conn
KeepsNumbers == \A s \in Sessions : session'[s].fd = session[s].fd
KeepsAccepted == \A c \in Conns : arrived[c] = "accepted" => arrived'[c] = "accepted"
Registered(f) == watch[f] \notin {"none", "early"}
Observed ==
    /\ deferred # 0 => deferred' # 0
    /\ deferred' = 0 => \A s \in Sessions : session'[s].pending \in {0, session[s].pending}
OthersKept(t) == \A r \in Tasks \ {t} : task'[r] = task[r]
Moves(t, pc) ==
    /\ task'[t].pc = pc /\ task'[t].session = task[t].session /\ task'[t].fd = task[t].fd
    /\ OthersKept(t)
Frees(t) == task'[t].pc = "free" /\ task'[t].session = NoSession /\ task'[t].fd = 0 /\ OthersKept(t)

\* Outside the server: peers act, or a connection is refused.
Outside ==
    /\ KeepsConns /\ KeepsAccepted
    /\ UNCHANGED <<watch, clientSessions, session, main, batch, task, activeSessions, ended, deferred>>

Accepts(s, f) ==
    /\ main.pc = "loop" /\ arrived[s] = "waiting" /\ socket[f].conn = NoSession
    /\ arrived'[s] = "accepted" /\ KeepsAccepted
    /\ socket'[f].conn = s /\ watch'[f] = "in"
    /\ \A g \in FDs \ {f} : socket'[g].conn = socket[g].conn /\ watch'[g] = watch[g]
    /\ session'[s].fd = f /\ session'[s].pending = session[s].pending
    /\ \A r \in Sessions \ {s} : session'[r] = session[r]
    /\ main'.pc = "accept" /\ main'.conn = s /\ main'.fd = f
    /\ UNCHANGED <<clientSessions, batch, task, activeSessions, ended, deferred>>

Stores(lost) ==
    /\ main.pc = "accept" /\ main'.pc = "loop" /\ main'.conn = NoSession
    /\ clientSessions'[main.fd] = IF lost THEN NoSession ELSE main.conn
    /\ \A f \in FDs \ {main.fd} : clientSessions'[f] = clientSessions[f]
    /\ ended' = IF lost THEN ended \cup {main.conn} ELSE ended
    /\ KeepsNumbers /\ Observed
    /\ UNCHANGED <<arrived, batch, task, activeSessions>>
    /\ Sweeps({}) /\ WatchKept({})

AcceptsUnix(c, t, f) ==
    /\ main.pc = "loop" /\ socket[f].conn = NoSession /\ task[t].pc = "free"
    /\ socket'[f].conn = c /\ \A g \in FDs \ {f} : socket'[g].conn = socket[g].conn
    /\ task'[t].pc = "ipc" /\ task'[t].session = NoSession /\ task'[t].fd = f /\ OthersKept(t)
    /\ KeepsAccepted
    /\ UNCHANGED <<watch, clientSessions, session, main, batch, activeSessions, ended, deferred>>

Waits(ready) ==
    /\ main.pc = "loop" /\ batch = {}
    /\ \A f \in ready : Watched(f)
    /\ \A e \in batch' : e.fd \in ready /\ (e.out => watch[e.fd] = "inout")
    /\ \A f \in ready : \E e \in batch' : e.fd = f
    /\ \A f \in ready : watch'[f] = IF watch[f] = "level" THEN "level" ELSE "off"
    /\ \A f \in FDs \ ready : watch'[f] = watch[f]
    /\ UNCHANGED <<arrived, socket, clientSessions, session, main, task, activeSessions, ended, deferred>>

Handles(e) == main.pc = "loop" /\ e \in batch /\ batch' = batch \ {e}

Ignores(e) ==
    /\ Handles(e) /\ clientSessions[e.fd] \notin Sessions /\ clientSessions'[e.fd] \notin Sessions
    /\ \A f \in FDs \ {e.fd} : clientSessions'[f] = clientSessions[f]
    /\ UNCHANGED <<arrived, socket, watch, session, main, task, activeSessions, ended, deferred>>

Misses(e) ==
    /\ Handles(e)
    /\ watch'[e.fd] = IF watch[e.fd] = "off" THEN "missed" ELSE watch[e.fd]
    /\ \A f \in FDs \ {e.fd} : watch'[f] = watch[f]
    /\ UNCHANGED <<arrived, socket, clientSessions, session, main, task, activeSessions, ended, deferred>>

Dispatches(e, t) ==
    /\ Handles(e) /\ clientSessions[e.fd] \in Sessions /\ task[t].pc = "free"
    /\ task'[t].pc = "run" /\ task'[t].session = clientSessions[e.fd] /\ task'[t].fd = e.fd
    /\ OthersKept(t) /\ KeepsNumbers
    /\ ~e.out => UNCHANGED <<session, watch>>
    /\ \A f \in FDs : watch'[f] = watch[f] \/ (Registered(f) /\ watch'[f] = "level")
    /\ UNCHANGED <<arrived, socket, clientSessions, main, activeSessions, ended, deferred>>

\* clientSession::run goes on, or returns with its verdict.
Runs(t, pc) ==
    /\ task[t].pc \in {"run", "write"} /\ pc \in {"write", "rearm", "del"} /\ Moves(t, pc)
    /\ ended' = IF pc = "del" THEN ended \cup {task[t].session} ELSE ended
    /\ \A u \in Users : activeSessions'[u] \in {activeSessions[u], NoSession, task[t].session}
    /\ KeepsNumbers /\ Observed
    /\ UNCHANGED <<arrived, clientSessions, main, batch>>
    /\ Sweeps({}) /\ WatchKept({})

Rearms(t) ==
    /\ task[t].pc = "rearm" /\ Frees(t)
    /\ UNCHANGED <<arrived, clientSessions, session, main, batch, activeSessions, ended, deferred>>
    /\ Sweeps({})
    /\ \A f \in FDs : ~Swept(f, {}) =>
         watch'[f] = IF f # task[t].fd \/ ~Registered(f) THEN watch[f]
                     ELSE IF session[task[t].session].pending > 0 THEN "inout" ELSE "in"

Unwatches(t) ==
    /\ task[t].pc = "del" /\ Moves(t, "close")
    /\ \A f \in FDs : watch'[f] = IF f = task[t].fd /\ Registered(f) THEN "none" ELSE watch[f]
    /\ UNCHANGED <<arrived, socket, clientSessions, session, main, batch, activeSessions, ended, deferred>>

Closes(t) ==
    /\ task[t].pc = "close" /\ Moves(t, "erase")
    /\ UNCHANGED <<arrived, clientSessions, session, main, batch, activeSessions, ended, deferred>>
    /\ Sweeps({task[t].fd}) /\ WatchKept({task[t].fd})

Erases(t) ==
    /\ task[t].pc = "erase" /\ Moves(t, "release")
    /\ clientSessions'[task[t].fd] = NoSession
    /\ \A f \in FDs \ {task[t].fd} : clientSessions'[f] = clientSessions[f]
    /\ UNCHANGED <<arrived, session, main, batch, activeSessions, ended, deferred>>
    /\ Sweeps({}) /\ WatchKept({})

Releases(t) ==
    /\ task[t].pc = "release" /\ Frees(t)
    /\ KeepsNumbers /\ Observed
    /\ UNCHANGED <<arrived, clientSessions, main, batch, activeSessions, ended, deferred>>
    /\ Sweeps({}) /\ WatchKept({})

GivesUp(t) ==
    /\ task[t].pc = "ipc" /\ Frees(t)
    /\ watch'[task[t].fd] = IF watch[task[t].fd] = "none" THEN "early" ELSE watch[task[t].fd]
    /\ \A f \in FDs \ {task[t].fd} : watch'[f] = watch[f]
    /\ UNCHANGED <<arrived, socket, clientSessions, session, main, batch, activeSessions, ended, deferred>>

ReadsAlert(t) ==
    /\ task[t].pc = "ipc" /\ Moves(t, "ipcclose") /\ KeepsConns
    /\ UNCHANGED <<arrived, watch, clientSessions, session, main, batch, activeSessions, ended, deferred>>

ClosesAlert(t) ==
    /\ task[t].pc = "ipcclose" /\ Frees(t)
    /\ UNCHANGED <<arrived, clientSessions, session, main, batch, activeSessions, ended, deferred>>
    /\ Sweeps({task[t].fd}) /\ WatchKept({task[t].fd})

Stops ==
    /\ main.pc = "loop" /\ batch = {} /\ main'.pc = "stopped" /\ main'.conn = NoSession
    /\ \A t \in Tasks : task'[t].pc = "free" /\ task'[t].session = NoSession /\ task'[t].fd = 0
    /\ \A f \in FDs : clientSessions'[f] = NoSession
    /\ \A u \in Users : activeSessions'[u] = NoSession
    /\ UNCHANGED <<arrived, session, batch, ended, deferred>>
    /\ Sweeps({}) /\ WatchKept({})

WorkerKind(t) ==
    \/ \E pc \in {"write", "rearm", "del"} : Runs(t, pc)
    \/ Rearms(t) \/ Unwatches(t) \/ Closes(t) \/ Erases(t) \/ Releases(t)
    \/ GivesUp(t) \/ ReadsAlert(t) \/ ClosesAlert(t)

MainKind ==
    \/ \E s \in Sessions, f \in FDs : Accepts(s, f)
    \/ \E lost \in BOOLEAN : Stores(lost)
    \/ \E c \in Sensors, t \in Tasks, f \in FDs : AcceptsUnix(c, t, f)
    \/ \E ready \in SUBSET FDs : Waits(ready)
    \/ \E e \in batch : Ignores(e) \/ Misses(e)
    \/ \E e \in batch, t \in Tasks : Dispatches(e, t)

Kind == Outside \/ MainKind \/ Stops \/ \E t \in Tasks : WorkerKind(t)

-----------------------------------------------------------------------------
(***************************************************************************)
(* Every step is of one of the kinds, and the types are kept.              *)
(***************************************************************************)
\* NoSession is no connection and no session, and 0 no descriptor.
LEMMA Distinct ==
  /\ NoSession \notin Sessions /\ NoSession \notin Sensors /\ NullSession \notin Sessions
  /\ \A s \in Sessions : s \notin Sensors
  /\ 0 \notin FDs
  BY NoSessionAssumption, ConnectionsAssumption DEF FDs

\* What Close() does to connections and registrations.
LEMMA CloseEffect ==
  ASSUME NEW newSocket, NEW newWatch, NEW closing, Close(newSocket, newWatch, closing),
         \A f \in FDs : newSocket[f].conn = socket[f].conn
  PROVE  /\ Sweeps(closing)
         /\ \A f \in FDs : ~Swept(f, closing) => watch'[f] = newWatch[f]
  <1> DEFINE gone == closing \cup {session[s].fd : s \in Refs \ Refs'}
  <1>1. /\ socket' = [f \in FDs |-> IF f \in gone THEN Closed ELSE newSocket[f]]
        /\ watch' = [f \in FDs |-> IF f \in gone THEN "none" ELSE newWatch[f]]
    BY DEF Close
  <1>2. \A f : f \in gone <=> Swept(f, closing)
    BY DEF Swept, Dies, Refs
  <1> HIDE DEF gone
  <1> QED
    BY <1>1, <1>2 DEF Sweeps, Closed

\* And to the types and the shape of sockets.
LEMMA CloseTypes ==
  ASSUME NEW newSocket \in SocketStates, NEW newWatch \in WatchStates, NEW closing,
         Close(newSocket, newWatch, closing),
         \A f \in FDs : newSocket[f].conn = NoSession => newSocket[f] = Closed /\ newWatch[f] = "none"
  PROVE  socket' \in SocketStates /\ watch' \in WatchStates /\ SocketShape'
  <1> DEFINE gone == closing \cup {session[s].fd : s \in Refs \ Refs'}
  <1>1. /\ socket' = [f \in FDs |-> IF f \in gone THEN Closed ELSE newSocket[f]]
        /\ watch' = [f \in FDs |-> IF f \in gone THEN "none" ELSE newWatch[f]]
    BY DEF Close
  <1> HIDE DEF gone
  <1>2. socket' \in SocketStates
    BY <1>1 DEF SocketStates, Closed
  <1>3. watch' \in WatchStates
    BY <1>1 DEF WatchStates
  <1> QED
    BY <1>1, <1>2, <1>3, Zenon DEF SocketShape, Closed

\* The common case: nothing else is closed or registered.
LEMMA DestroyEffect ==
  ASSUME BaseInv, NEW closing, Close(socket, watch, closing)
  PROVE  /\ Sweeps(closing) /\ WatchKept(closing)
         /\ socket' \in SocketStates /\ watch' \in WatchStates /\ SocketShape'
  <1>1. Sweeps(closing) /\ WatchKept(closing)
    BY CloseEffect DEF WatchKept
  <1>2. socket \in SocketStates /\ watch \in WatchStates
    BY DEF BaseInv, TypeOK
  <1>3. \A f \in FDs : socket[f].conn = NoSession => socket[f] = Closed /\ watch[f] = "none"
    BY DEF BaseInv, Shapes, SocketShape
  <1> QED
    BY <1>1, <1>2, <1>3, CloseTypes

\* Reading consumes data of an open socket.
LEMMA ConsumedEffect ==
  ASSUME BaseInv, NEW f \in FDs, socket[f].conn # NoSession
  PROVE  /\ Consumed(f) \in SocketStates
         /\ \A g \in FDs : Consumed(f)[g].conn = socket[g].conn
         /\ \A g \in FDs : socket[g].conn = NoSession => Consumed(f)[g] = Closed
  <1>1. socket \in SocketStates /\ \A g \in FDs : socket[g].conn = NoSession => socket[g] = Closed
    BY DEF BaseInv, TypeOK, Shapes, SocketShape
  <1> DEFINE q == Consumed(f)
  <1>2. \A g \in FDs : q[g] = IF g = f THEN [socket[f] EXCEPT !.data = FALSE] ELSE socket[g]
    BY <1>1 DEF Consumed, SocketStates
  <1>3. q \in SocketStates
    BY <1>1, Zenon DEF Consumed, SocketStates
  <1> HIDE DEF q
  <1>4. \A g \in FDs : q[g].conn = socket[g].conn
    BY <1>1, <1>2 DEF SocketStates
  <1>5. \A g \in FDs : socket[g].conn = NoSession => q[g] = Closed
    BY <1>1, <1>2
  <1>6. q \in SocketStates /\ (\A g \in FDs : q[g].conn = socket[g].conn)
        /\ (\A g \in FDs : socket[g].conn = NoSession => q[g] = Closed)
    BY <1>3, <1>4, <1>5
  <1> QED
    BY <1>6 DEF q

\* epoll_ctl changes the registration of a registered descriptor.
LEMMA EpollModEffect ==
  ASSUME BaseInv, NEW f \in FDs, NEW events \in {"none", "early", "in", "inout", "level", "off", "missed"}
  PROVE  /\ EpollMod(f, events) \in WatchStates
         /\ \A g \in FDs : EpollMod(f, events)[g] = IF g = f /\ Registered(f) THEN events ELSE watch[g]
  <1>1. watch \in WatchStates
    BY DEF BaseInv, TypeOK
  <1> QED
    BY <1>1 DEF EpollMod, Registered, WatchStates

\* A task that goes on.
LEMMA GotoEffect ==
  ASSUME TypeOK, NEW t \in Tasks, NEW pc \in TcpPcs \cup IpcPcs, NEW keep \in BOOLEAN,
         task' = [task EXCEPT ![t].pc = pc, ![t].keep = keep]
  PROVE  Moves(t, pc) /\ task' \in TaskStates
  <1>1. task \in TaskStates
    BY DEF TypeOK
  <1>2. task' \in TaskStates
    BY <1>1, ZenonT(60) DEF TaskStates
  <1> QED
    BY <1>1, <1>2 DEF TaskStates, Moves, OthersKept

\* A task that is done.
LEMMA FreeEffect ==
  ASSUME TypeOK, NEW t \in Tasks, task' = [task EXCEPT ![t] = FreeTask]
  PROVE  Frees(t) /\ task' \in TaskStates
  <1>1. task \in TaskStates
    BY DEF TypeOK
  <1>2. task' \in TaskStates
    BY <1>1 DEF TaskStates, FreeTask
  <1> QED
    BY <1>1, <1>2 DEF TaskStates, Frees, FreeTask, OthersKept

\* With the same references nobody dies, and a step that closes nothing sweeps
\* nothing.
LEMMA NobodyDies ==
  ASSUME UNCHANGED <<clientSessions, main, activeSessions>>,
         \A t \in Tasks : task'[t].session = task[t].session
  PROVE  \A s \in Sessions : ~Dies(s)
  <1>1. Refs' = Refs
    BY DEF Refs
  <1> QED
    BY <1>1 DEF Dies

\* Peers, and a connection that epoll does not take.
LEMMA OutsideKind ==
  ASSUME BaseInv, PeerStep \/ (\E s \in Sessions : AcceptFails(s)) \/ UNCHANGED vars
  PROVE  TypeOK' /\ SocketShape' /\ Outside
  <1>0. TypeOK /\ SocketShape /\ socket \in SocketStates
    BY DEF BaseInv, Shapes, TypeOK
  <1>1. ASSUME NEW c \in Conns, NEW a \in {"away", "waiting", "accepted"}, arrived[c] # "accepted",
               arrived' = [arrived EXCEPT ![c] = a], UNCHANGED <<socket, watch, serverVars, observerVars>>
        PROVE  TypeOK' /\ SocketShape' /\ Outside
    <2>1. arrived' \in [Conns -> {"away", "waiting", "accepted"}] /\ KeepsAccepted
      BY <1>0, <1>1 DEF TypeOK, KeepsAccepted
    <2>2. TypeOK' /\ SocketShape'
      BY <1>0, <1>1, <2>1 DEF TypeOK, SocketShape, serverVars, observerVars, registryVars
    <2>3. KeepsConns
      BY <1>1 DEF KeepsConns
    <2> QED
      BY <1>1, <2>1, <2>2, <2>3 DEF Outside, serverVars, observerVars, registryVars
  <1>2. ASSUME NEW f \in FDs, socket[f].peer = "open", socket' \in SocketStates,
               \A g \in FDs \ {f} : socket'[g] = socket[g], socket'[f].conn = socket[f].conn,
               UNCHANGED <<arrived, watch, serverVars, observerVars>>
        PROVE  TypeOK' /\ SocketShape' /\ Outside
    <2>1. socket[f].conn # NoSession
      BY <1>0, <1>2 DEF SocketShape, Closed
    <2>2. KeepsConns /\ KeepsAccepted
      BY <1>2 DEF KeepsConns, KeepsAccepted
    <2>3. SocketShape'
      BY <1>0, <1>2, <2>1 DEF SocketShape
    <2>4. TypeOK'
      BY <1>0, <1>2 DEF TypeOK, serverVars, observerVars, registryVars
    <2> QED
      BY <1>2, <2>2, <2>3, <2>4 DEF Outside, serverVars, observerVars, registryVars
  <1>3. ASSUME NEW c \in Conns, Connect(c) PROVE TypeOK' /\ SocketShape' /\ Outside
    BY <1>1, <1>3, Zenon DEF Connect
  <1>4. ASSUME NEW s \in Sessions, AcceptFails(s) PROVE TypeOK' /\ SocketShape' /\ Outside
    BY <1>1, <1>4, Zenon DEF AcceptFails, Conns
  <1>5. ASSUME NEW f \in FDs, Send(f) PROVE TypeOK' /\ SocketShape' /\ Outside
    <2>1. socket' \in SocketStates /\ socket'[f].conn = socket[f].conn /\ \A g \in FDs \ {f} : socket'[g] = socket[g]
      BY <1>0, <1>5, Zenon DEF Send, SocketStates
    <2> QED
      BY <1>2, <1>5, <2>1 DEF Send
  <1>6. ASSUME NEW f \in FDs, NEW how \in {"shut", "reset"}, Hangup(f, how)
        PROVE  TypeOK' /\ SocketShape' /\ Outside
    <2>1. socket' \in SocketStates /\ socket'[f].conn = socket[f].conn /\ \A g \in FDs \ {f} : socket'[g] = socket[g]
      BY <1>0, <1>6, ZenonT(60) DEF Hangup, SocketStates
    <2> QED
      BY <1>2, <1>6, <2>1, Zenon DEF Hangup
  <1>7. CASE UNCHANGED vars
    <2>1. TypeOK' /\ SocketShape'
      BY <1>0, <1>7 DEF TypeOK, SocketShape, vars, netVars, serverVars, observerVars, registryVars
    <2> QED
      BY <1>7, <2>1 DEF Outside, KeepsConns, KeepsAccepted, vars, netVars, serverVars, observerVars, registryVars
  <1> QED
    BY <1>3, <1>4, <1>5, <1>6, <1>7 DEF PeerStep

\* handleTcpConnection up to epoll_ctl.
LEMMA AcceptTcpKind ==
  ASSUME BaseInv, NEW s \in Sessions, NEW f \in FDs, AcceptTcp(s, f)
  PROVE  TypeOK' /\ SocketShape' /\ Accepts(s, f)
  <1>0. TypeOK /\ SocketShape
    BY DEF BaseInv, Shapes
  <1>1. IsClosed(f)
    BY DEF AcceptTcp, LowestFree
  <1>2. /\ arrived[s] = "waiting" /\ main.pc = "loop" /\ arrived' = [arrived EXCEPT ![s] = "accepted"]
        /\ socket' = [socket EXCEPT ![f] = Opened(s)] /\ watch' = [watch EXCEPT ![f] = "in"]
        /\ session' = [session EXCEPT ![s].fd = f] /\ main' = [pc |-> "accept", conn |-> s, fd |-> f]
        /\ UNCHANGED <<clientSessions, batch, task, registryVars, observerVars>>
    BY DEF AcceptTcp, Idle
  <1>3. socket' \in SocketStates /\ socket'[f] = Opened(s) /\ \A g \in FDs \ {f} : socket'[g] = socket[g]
    BY <1>0, <1>2 DEF TypeOK, SocketStates, Opened, Conns
  <1>4. watch' \in WatchStates /\ watch'[f] = "in" /\ \A g \in FDs \ {f} : watch'[g] = watch[g]
    BY <1>0, <1>2 DEF TypeOK, WatchStates
  <1>5. /\ session' \in SessionStates /\ session'[s].fd = f /\ session'[s].pending = session[s].pending
        /\ \A r \in Sessions \ {s} : session'[r] = session[r]
    BY <1>0, <1>2, SMTT(30) DEF TypeOK, SessionStates
  <1>6. /\ arrived' \in [Conns -> {"away", "waiting", "accepted"}]
        /\ arrived'[s] = "accepted" /\ KeepsAccepted
    BY <1>0, <1>2 DEF TypeOK, Conns, KeepsAccepted
  <1>7. main' \in MainStates
    BY <1>2 DEF MainStates
  <1>8. TypeOK'
    BY <1>0, <1>2, <1>3, <1>4, <1>5, <1>6, <1>7 DEF TypeOK, registryVars, observerVars
  <1>9. SocketShape'
    BY <1>0, <1>3, <1>4, Distinct DEF SocketShape, Opened
  <1>10. Accepts(s, f)
    BY <1>1, <1>2, <1>3, <1>4, <1>5, <1>6 DEF Accepts, IsClosed, Closed, Opened, registryVars, observerVars
  <1> QED
    BY <1>8, <1>9, <1>10

\* handleTcpConnection after epoll_ctl.
LEMMA StoreSessionKind ==
  ASSUME BaseInv, NEW lost \in BOOLEAN, NEW kept \in BOOLEAN, StoreSession(lost, kept)
  PROVE  TypeOK' /\ SocketShape' /\ Stores(lost)
  <1>0. TypeOK /\ main.pc = "accept" /\ main.conn \in Sessions /\ main.fd \in FDs
    BY DEF BaseInv, Shapes, MainShape, StoreSession
  <1>1. PICK s \in Sessions, f \in FDs : s = main.conn /\ f = main.fd
    BY <1>0
  <1>2. /\ clientSessions' = [clientSessions EXCEPT ![f] = IF lost THEN NoSession ELSE s]
        /\ session' = [session EXCEPT ![s].pending = IF kept THEN 1 ELSE 0]
        /\ deferred' = IF kept THEN deferred + 1 ELSE deferred
        /\ ended' = IF lost THEN ended \cup {s} ELSE ended
        /\ main' = Looping
        /\ UNCHANGED <<arrived, batch, task, registryVars>>
        /\ Close(socket, watch, {})
    BY <1>1 DEF StoreSession, DestroyUnreferenced
  <1>3. /\ Sweeps({}) /\ WatchKept({})
        /\ socket' \in SocketStates /\ watch' \in WatchStates /\ SocketShape'
    BY <1>2, DestroyEffect
  <1>4. /\ clientSessions' \in [FDs -> Sessions \cup {NoSession, NullSession}]
        /\ clientSessions'[f] = (IF lost THEN NoSession ELSE s)
        /\ \A g \in FDs \ {f} : clientSessions'[g] = clientSessions[g]
    BY <1>0, <1>2 DEF TypeOK
  <1>5. /\ session' \in SessionStates /\ KeepsNumbers
        /\ session'[s].pending = (IF kept THEN 1 ELSE 0)
        /\ \A r \in Sessions \ {s} : session'[r] = session[r]
    BY <1>0, <1>2 DEF TypeOK, SessionStates, KeepsNumbers
  <1>6. Observed
    BY <1>0, <1>2, <1>5 DEF Observed, TypeOK
  <1>7. main' \in MainStates /\ main'.pc = "loop" /\ main'.conn = NoSession
    BY <1>2 DEF MainStates, Looping
  <1>8. ended' \subseteq Sessions /\ deferred' \in Nat
    BY <1>0, <1>2 DEF TypeOK
  <1>9. TypeOK'
    BY <1>0, <1>2, <1>3, <1>4, <1>5, <1>7, <1>8, SMTT(30) DEF TypeOK, registryVars
  <1>10. Stores(lost)
    BY <1>0, <1>1, <1>2, <1>3, <1>4, <1>5, <1>6, <1>7 DEF Stores, registryVars
  <1> QED
    BY <1>3, <1>9, <1>10

\* handleUNIXConnection.
LEMMA AcceptUnixKind ==
  ASSUME BaseInv, NEW c \in Sensors, NEW t \in Tasks, NEW f \in FDs, AcceptUnix(c, t, f)
  PROVE  TypeOK' /\ SocketShape' /\ AcceptsUnix(c, t, f)
  <1>0. TypeOK /\ SocketShape
    BY DEF BaseInv, Shapes
  <1>1. IsClosed(f)
    BY DEF AcceptUnix, LowestFree
  <1>2. /\ arrived[c] = "waiting" /\ main.pc = "loop" /\ arrived' = [arrived EXCEPT ![c] = "accepted"]
        /\ task[t].pc = "free"
        /\ socket' = [socket EXCEPT ![f] = Opened(c)]
        /\ task' = [task EXCEPT ![t] = [FreeTask EXCEPT !.pc = "ipc", !.fd = f]]
        /\ UNCHANGED <<watch, clientSessions, session, main, batch, registryVars, observerVars>>
    BY DEF AcceptUnix, Idle, FreeSlot
  <1>3. socket' \in SocketStates /\ socket'[f] = Opened(c) /\ \A g \in FDs \ {f} : socket'[g] = socket[g]
    BY <1>0, <1>2 DEF TypeOK, SocketStates, Opened, Conns
  <1>4. /\ task' \in TaskStates /\ task'[t].pc = "ipc" /\ task'[t].session = NoSession /\ task'[t].fd = f
        /\ OthersKept(t)
    <2> DEFINE q == [FreeTask EXCEPT !.pc = "ipc", !.fd = f]
    <2>1. q.pc = "ipc" /\ q.session = NoSession /\ q.fd = f
      BY DEF FreeTask
    <2>2. task \in TaskStates /\ task' = [task EXCEPT ![t] = q]
      BY <1>0, <1>2 DEF TypeOK
    <2>4. q \in [pc : TcpPcs \cup IpcPcs \cup {"free"}, session : Sessions \cup {NoSession},
                fd : FDs \cup {0}, keep : BOOLEAN]
      BY Zenon DEF IpcPcs, FreeTask
    <2> HIDE DEF q
    <2>3. task'[t] = q /\ OthersKept(t)
      BY <2>2 DEF TaskStates, OthersKept
    <2>5. task' \in TaskStates
      BY <2>2, <2>4 DEF TaskStates
    <2> QED
      BY <2>1, <2>3, <2>5
  <1>5. arrived' \in [Conns -> {"away", "waiting", "accepted"}] /\ KeepsAccepted
    BY <1>0, <1>2 DEF TypeOK, Conns, KeepsAccepted
  <1>6. TypeOK'
    BY <1>0, <1>2, <1>3, <1>4, <1>5 DEF TypeOK, registryVars, observerVars
  <1>7. SocketShape'
    BY <1>0, <1>2, <1>3, Distinct DEF SocketShape, Opened
  <1>8. AcceptsUnix(c, t, f)
    BY <1>1, <1>2, <1>3, <1>4, <1>5 DEF AcceptsUnix, IsClosed, Closed, Opened, registryVars, observerVars
  <1> QED
    BY <1>6, <1>7, <1>8

\* epoll_wait.
LEMMA EpollWaitKind ==
  ASSUME BaseInv, NEW writable \in SUBSET FDs, EpollWait(writable)
  PROVE  TypeOK' /\ SocketShape' /\ \E ready \in SUBSET FDs : Waits(ready)
  <1>0. TypeOK /\ SocketShape
    BY DEF BaseInv, Shapes
  <1> DEFINE Out(f) == watch[f] = "inout" /\ f \in writable
             ready == {f \in FDs : Watched(f) /\ (Readable(f) \/ Out(f))}
  <1>1. /\ main.pc = "loop" /\ batch = {}
        /\ batch' = {[fd |-> f, out |-> Out(f)] : f \in ready}
        /\ watch' = [f \in FDs |-> IF f \in ready /\ watch[f] # "level" THEN "off" ELSE watch[f]]
        /\ UNCHANGED <<arrived, socket, clientSessions, session, main, task, registryVars, observerVars>>
    BY DEF EpollWait, Idle
  <1>2. ready \subseteq FDs /\ \A f \in ready : Watched(f)
    OBVIOUS
  <1> HIDE DEF ready
  <1>3. /\ batch' \subseteq [fd : FDs, out : BOOLEAN]
        /\ \A e \in batch' : e.fd \in ready /\ (e.out => watch[e.fd] = "inout")
        /\ \A f \in ready : \E e \in batch' : e.fd = f
    <2>1. \A e \in batch' : \E f \in ready : e = [fd |-> f, out |-> Out(f)]
      BY <1>1
    <2>2. \A f \in ready : [fd |-> f, out |-> Out(f)] \in batch'
      BY <1>1
    <2>3. \A f : Out(f) \in BOOLEAN
      OBVIOUS
    <2>4. \A f : Out(f) => watch[f] = "inout"
      OBVIOUS
    <2> HIDE DEF Out
    <2>5. batch' \subseteq [fd : FDs, out : BOOLEAN]
      BY <1>2, <2>1, <2>3
    <2>6. \A e \in batch' : e.fd \in ready /\ (e.out => watch[e.fd] = "inout")
      <3> SUFFICES ASSUME NEW e \in batch' PROVE e.fd \in ready /\ (e.out => watch[e.fd] = "inout")
        OBVIOUS
      <3>1. PICK f \in ready : e = [fd |-> f, out |-> Out(f)]
        BY <2>1
      <3>2. e.fd = f /\ e.out = Out(f)
        BY <3>1
      <3> QED
        BY <3>2, <2>4, Zenon
    <2>7. \A f \in ready : \E e \in batch' : e.fd = f
      <3> SUFFICES ASSUME NEW f \in ready PROVE \E e \in batch' : e.fd = f
        OBVIOUS
      <3>1. [fd |-> f, out |-> Out(f)] \in batch' /\ [fd |-> f, out |-> Out(f)].fd = f
        BY <2>2
      <3> QED
        BY <3>1, Zenon
    <2> QED
      BY <2>5, <2>6, <2>7
  <1>4. watch' \in WatchStates
    BY <1>0, <1>1, Zenon DEF TypeOK, WatchStates
  <1>5. TypeOK'
    BY <1>0, <1>1, <1>3, <1>4, Zenon DEF TypeOK, registryVars, observerVars
  <1>6. /\ \A f \in ready : watch'[f] = IF watch[f] = "level" THEN "level" ELSE "off"
        /\ \A f \in FDs \ ready : watch'[f] = watch[f]
    BY <1>1, <1>2
  <1>7. SocketShape'
    <2>1. \A f \in FDs : socket[f].conn = NoSession => f \notin ready
      BY <1>0, <1>2, SMTT(30) DEF SocketShape, Watched
    <2> QED
      BY <1>0, <1>1, <1>6, <2>1 DEF SocketShape
  <1>8. Waits(ready)
    BY <1>1, <1>2, <1>3, <1>6 DEF Waits, registryVars, observerVars
  <1> QED
    BY <1>2, <1>5, <1>7, <1>8

\* An event whose descriptor has no session.
LEMMA IgnoreEventKind ==
  ASSUME BaseInv, NEW e \in batch, IgnoreEvent(e)
  PROVE  TypeOK' /\ SocketShape' /\ Ignores(e)
  <1>0. TypeOK /\ SocketShape /\ e.fd \in FDs
    BY DEF BaseInv, Shapes, TypeOK
  <1>1. PICK f \in FDs : f = e.fd
    BY <1>0
  <1>2. PICK c \in {clientSessions[f], NullSession} : clientSessions' = [clientSessions EXCEPT ![f] = c]
    BY <1>1, Zenon DEF IgnoreEvent
  <1>3. /\ main.pc = "loop" /\ batch' = batch \ {e} /\ clientSessions[f] \notin Sessions
        /\ UNCHANGED <<arrived, socket, watch, session, main, task, registryVars, observerVars>>
    BY <1>1 DEF IgnoreEvent, Handled, Idle, netVars
  <1>4. /\ clientSessions' \in [FDs -> Sessions \cup {NoSession, NullSession}]
        /\ clientSessions'[f] \notin Sessions
        /\ \A g \in FDs \ {f} : clientSessions'[g] = clientSessions[g]
    BY <1>0, <1>2, <1>3, Distinct DEF TypeOK
  <1>5. TypeOK' /\ SocketShape'
    BY <1>0, <1>3, <1>4, Zenon DEF TypeOK, SocketShape, registryVars, observerVars
  <1>6. Ignores(e)
    BY <1>1, <1>3, <1>4 DEF Ignores, Handles, registryVars, observerVars
  <1> QED
    BY <1>5, <1>6

\* A lookup that misses the entry.
LEMMA MissEventKind ==
  ASSUME BaseInv, NEW e \in batch, MissEvent(e)
  PROVE  TypeOK' /\ SocketShape' /\ Misses(e)
  <1>0. TypeOK /\ SocketShape /\ e.fd \in FDs
    BY DEF BaseInv, Shapes, TypeOK
  <1>1. PICK f \in FDs : f = e.fd
    BY <1>0
  <1>2. PICK w \in {"none", "early", "in", "inout", "level", "off", "missed"} :
            w = IF watch[f] = "off" THEN "missed" ELSE watch[f]
    BY <1>0 DEF TypeOK, WatchStates
  <1>3. /\ main.pc = "loop" /\ batch' = batch \ {e} /\ watch' = EpollMod(f, w)
        /\ UNCHANGED <<arrived, socket, clientSessions, session, main, task, registryVars, observerVars>>
    BY <1>1, <1>2, Zenon DEF MissEvent, Handled, Idle
  <1>4. /\ watch' \in WatchStates /\ watch'[f] = (IF watch[f] = "off" THEN "missed" ELSE watch[f])
        /\ \A g \in FDs \ {f} : watch'[g] = watch[g]
    BY <1>2, <1>3, EpollModEffect DEF Registered
  <1>5. TypeOK' /\ SocketShape'
    BY <1>0, <1>3, <1>4, Zenon DEF TypeOK, SocketShape, registryVars, observerVars
  <1>6. Misses(e)
    BY <1>1, <1>3, <1>4 DEF Misses, Handles, registryVars, observerVars
  <1> QED
    BY <1>5, <1>6

\* pendingMessages and tcpHandling.
LEMMA DispatchKind ==
  ASSUME BaseInv, NEW e \in batch, NEW t \in Tasks, Dispatch(e, t)
  PROVE  TypeOK' /\ SocketShape' /\ Dispatches(e, t)
  <1>0. TypeOK /\ SocketShape /\ Numbers /\ e.fd \in FDs
    BY DEF BaseInv, Shapes, TypeOK
  <1>1. clientSessions[e.fd] \in Sessions
    BY DEF Dispatch
  <1>2. PICK s \in Sessions, f \in FDs : s = clientSessions[e.fd] /\ f = e.fd /\ session[s].fd = f
    BY <1>0, <1>1 DEF Numbers
  <1>3. /\ main.pc = "loop" /\ batch' = batch \ {e} /\ task[t].pc = "free"
        /\ IF e.out THEN \E n \in 0..MaxDeferred : TrySendPending(s, n) ELSE UNCHANGED <<session, watch>>
        /\ task' = [task EXCEPT ![t] = [FreeTask EXCEPT !.pc = "run", !.session = s, !.fd = f]]
        /\ UNCHANGED <<arrived, socket, clientSessions, main, registryVars, observerVars>>
    BY <1>2 DEF Dispatch, Handled, Idle, FreeSlot
  <1>4. /\ task' \in TaskStates /\ task'[t].pc = "run" /\ task'[t].session = s /\ task'[t].fd = f
        /\ OthersKept(t)
    <2> DEFINE q == [FreeTask EXCEPT !.pc = "run", !.session = s, !.fd = f]
    <2>1. q.pc = "run" /\ q.session = s /\ q.fd = f
      BY DEF FreeTask
    <2>2. task \in TaskStates /\ task' = [task EXCEPT ![t] = q]
      BY <1>0, <1>3 DEF TypeOK
    <2>3. q \in [pc : TcpPcs \cup IpcPcs \cup {"free"}, session : Sessions \cup {NoSession},
                 fd : FDs \cup {0}, keep : BOOLEAN]
      BY Zenon DEF TcpPcs, FreeTask
    <2> HIDE DEF q
    <2>4. task'[t] = q /\ OthersKept(t)
      BY <2>2 DEF TaskStates, OthersKept
    <2>5. task' \in TaskStates
      BY <2>2, <2>3 DEF TaskStates
    <2> QED
      BY <2>1, <2>4, <2>5
  <1>5. /\ session' \in SessionStates /\ KeepsNumbers
        /\ watch' \in WatchStates
        /\ \A g \in FDs : watch'[g] = watch[g] \/ (Registered(g) /\ watch'[g] = "level")
    <2>1. CASE ~e.out
      BY <1>0, <1>3, <2>1 DEF TypeOK, KeepsNumbers
    <2>2. CASE e.out
      <3>1. PICK n \in 0..MaxDeferred : TrySendPending(s, n)
        BY <1>3, <2>2
      <3>2. n \in Nat /\ session' = [session EXCEPT ![s].pending = n]
        BY <3>1, ConnectionsAssumption DEF TrySendPending
      <3>3. watch' = watch \/ watch' = EpollMod(f, "level")
        BY <1>2, <3>1 DEF TrySendPending
      <3>4. session' \in SessionStates /\ KeepsNumbers
        BY <1>0, <3>2 DEF TypeOK, SessionStates, KeepsNumbers
      <3>5. /\ EpollMod(f, "level") \in WatchStates
            /\ \A g \in FDs : EpollMod(f, "level")[g] = IF g = f /\ Registered(f) THEN "level" ELSE watch[g]
        BY EpollModEffect
      <3>6. /\ watch' \in WatchStates
            /\ \A g \in FDs : watch'[g] = watch[g] \/ (Registered(g) /\ watch'[g] = "level")
        BY <1>0, <3>3, <3>5 DEF TypeOK
      <3> QED
        BY <3>4, <3>6
    <2> QED
      BY <2>1, <2>2
  <1>6. TypeOK'
    BY <1>0, <1>3, <1>4, <1>5 DEF TypeOK, registryVars, observerVars
  <1>7. SocketShape'
    BY <1>0, <1>3, <1>5 DEF SocketShape, Registered
  <1>8. Dispatches(e, t)
    BY <1>1, <1>2, <1>3, <1>4, <1>5 DEF Dispatches, Handles, registryVars, observerVars
  <1> QED
    BY <1>6, <1>7, <1>8

\* Nobody dies and nothing is closed: nothing is swept.
LEMMA NothingSwept ==
  ASSUME \A s \in Sessions : ~Dies(s), KeepsConns, UNCHANGED watch
  PROVE  Sweeps({}) /\ WatchKept({})
  BY DEF Swept, Sweeps, WatchKept, KeepsConns

\* unregisterSession takes the entry of a user away, if any.
LEMMA UnregisterEffect ==
  ASSUME TypeOK, NEW s \in Sessions, UnregisterIfLoggedIn(s) \/ UNCHANGED registryVars
  PROVE  /\ activeSessions' \in [Users -> Sessions \cup {NoSession}]
         /\ \A u \in Users : activeSessions'[u] \in {activeSessions[u], NoSession}
  BY Zenon DEF TypeOK, UnregisterIfLoggedIn, unregisterSession, registryVars

\* What a task of a session knows.
LEMMA TcpTask ==
  ASSUME BaseInv, NEW t \in Tasks, task[t].pc \in TcpPcs
  PROVE  task[t].session \in Sessions /\ task[t].fd \in FDs /\ session[task[t].session].fd = task[t].fd
  BY Zenon DEF BaseInv, Shapes, TaskShape, Numbers

\* And only such a task has a session.
LEMMA SessionTask ==
  ASSUME BaseInv, NEW t \in Tasks, task[t].session \in Sessions
  PROVE  task[t].pc \in TcpPcs /\ task[t].fd \in FDs /\ session[task[t].session].fd = task[t].fd
  <1>1. task[t].pc \notin IpcPcs /\ task[t].pc # "free"
    BY Distinct DEF BaseInv, Shapes, TaskShape
  <1>2. task[t].pc \in TcpPcs \cup IpcPcs \cup {"free"}
    BY DEF BaseInv, TypeOK, TaskStates, TcpPcs, IpcPcs
  <1> QED
    BY <1>1, <1>2, TcpTask

\* clientSession::run has nothing to read, or reads a request that is no login.
LEMMA ReadKind ==
  ASSUME BaseInv, NEW t \in Tasks, ReadNothing(t) \/ \E keep \in BOOLEAN : ReadRequest(t, keep)
  PROVE  TypeOK' /\ SocketShape' /\ \E pc \in {"write", "rearm", "del"} : Runs(t, pc)
  <1>0. TypeOK /\ SocketShape /\ task[t].pc = "run"
    BY DEF BaseInv, Shapes, ReadNothing, ReadRequest, At
  <1>1. task[t].session \in Sessions /\ task[t].fd \in FDs
    BY <1>0, TcpTask DEF TcpPcs
  <1>2. UNCHANGED <<arrived, watch, session, clientSessions, main, batch, registryVars, observerVars>>
    BY DEF ReadNothing, ReadRequest, MainUnchanged, netVars
  <1>3. PICK pc \in {"write", "rearm"}, keep \in BOOLEAN : task' = [task EXCEPT ![t].pc = pc, ![t].keep = keep]
    BY Zenon DEF ReadNothing, ReadRequest, Goto
  <1>4. Moves(t, pc) /\ task' \in TaskStates
    BY <1>0, <1>3, GotoEffect, Zenon DEF TcpPcs
  <1>5. socket' \in SocketStates /\ KeepsConns /\ SocketShape'
    <2>1. CASE ReadNothing(t)
      BY <1>0, <2>1, Zenon DEF TypeOK, KeepsConns, SocketShape, ReadNothing, netVars
    <2>2. CASE \E k \in BOOLEAN : ReadRequest(t, k)
      <3>1. socket' = Consumed(task[t].fd) /\ ReadResult(task[t].fd) = "data"
        BY <2>2, Zenon DEF ReadRequest
      <3>2. socket[task[t].fd].conn # NoSession
        BY <1>0, <1>1, <3>1, Zenon DEF SocketShape, ReadResult, IsClosed
      <3>3. /\ Consumed(task[t].fd) \in SocketStates
            /\ \A g \in FDs : Consumed(task[t].fd)[g].conn = socket[g].conn
            /\ \A g \in FDs : socket[g].conn = NoSession => Consumed(task[t].fd)[g] = Closed
        BY <1>1, <3>2, ConsumedEffect, ZenonT(60)
      <3> QED
        BY <1>0, <1>2, <3>1, <3>3 DEF KeepsConns, SocketShape
    <2> QED
      BY <2>1, <2>2, Zenon
  <1>6. TypeOK'
    BY <1>0, <1>2, <1>4, <1>5 DEF TypeOK, registryVars, observerVars
  <1>7. \A r \in Tasks : task'[r].session = task[r].session
    BY <1>4, Zenon DEF Moves, OthersKept
  <1>8. Sweeps({}) /\ WatchKept({})
    BY <1>2, <1>5, <1>7, NobodyDies, NothingSwept, ZenonT(60) DEF registryVars
  <1>9. Runs(t, pc)
    BY <1>0, <1>2, <1>4, <1>8 DEF Runs, Observed, KeepsNumbers, registryVars, observerVars
  <1> QED
    BY <1>5, <1>6, <1>9

\* A login.
LEMMA ReadLoginKind ==
  ASSUME BaseInv, NEW t \in Tasks, NEW u \in Users, ReadLogin(t, u)
  PROVE  TypeOK' /\ SocketShape' /\ Runs(t, "write")
  <1>0. TypeOK /\ SocketShape /\ task[t].pc = "run"
    BY DEF BaseInv, Shapes, ReadLogin, At
  <1>1. PICK s \in Sessions, f \in FDs : s = task[t].session /\ f = task[t].fd
    BY <1>0, TcpTask DEF TcpPcs
  <1>2. /\ ReadResult(f) = "data" /\ session' = [session EXCEPT ![s].clientID = u]
        /\ activeSessions' = [activeSessions EXCEPT ![u] = s]
        /\ task' = [task EXCEPT ![t].pc = "write", ![t].keep = TRUE]
        /\ UNCHANGED <<arrived, clientSessions, main, batch, ended, deferred>>
        /\ Close(Consumed(f), watch, {})
    BY <1>1 DEF ReadLogin, registerSession, Goto, MainUnchanged, observerVars
  <1>3. Moves(t, "write") /\ task' \in TaskStates
    BY <1>0, <1>2, GotoEffect, Zenon DEF TcpPcs
  <1>4. socket[f].conn # NoSession
    BY <1>0, <1>2 DEF SocketShape, ReadResult, IsClosed
  <1>5. /\ Consumed(f) \in SocketStates
        /\ \A g \in FDs : Consumed(f)[g].conn = socket[g].conn
        /\ \A g \in FDs : socket[g].conn = NoSession => Consumed(f)[g] = Closed
    BY <1>4, ConsumedEffect
  <1>6. Sweeps({}) /\ WatchKept({})
    BY <1>2, <1>5, CloseEffect DEF WatchKept
  <1>7. socket' \in SocketStates /\ watch' \in WatchStates /\ SocketShape'
    <2>1. watch \in WatchStates /\ \A g \in FDs : socket[g].conn = NoSession => watch[g] = "none"
      BY <1>0 DEF TypeOK, SocketShape
    <2>2. \A g \in FDs : Consumed(f)[g].conn = NoSession => Consumed(f)[g] = Closed /\ watch[g] = "none"
      BY <1>5, <2>1
    <2> QED
      BY <1>2, <1>5, <2>1, <2>2, CloseTypes, Zenon
  <1>8. session' \in SessionStates /\ KeepsNumbers /\ \A r \in Sessions : session'[r].pending = session[r].pending
    BY <1>0, <1>2 DEF TypeOK, SessionStates, KeepsNumbers
  <1>9. /\ activeSessions' \in [Users -> Sessions \cup {NoSession}]
        /\ \A v \in Users : activeSessions'[v] \in {activeSessions[v], s}
    BY <1>0, <1>2 DEF TypeOK
  <1>10. TypeOK'
    BY <1>0, <1>2, <1>3, <1>7, <1>8, <1>9, Zenon DEF TypeOK
  <1>11. Runs(t, "write")
    BY <1>0, <1>1, <1>2, <1>3, <1>6, <1>8, <1>9 DEF Runs, Observed
  <1> QED
    BY <1>7, <1>10, <1>11

\* clientSession::run returns false, or goes on after a reply.
LEMMA ReplyKind ==
  ASSUME BaseInv, NEW t \in Tasks,
         ReadEnd(t) \/ WriteError(t) \/ \E result \in {"ok", "again"} : WriteReply(t, result)
  PROVE  TypeOK' /\ SocketShape' /\ \E pc \in {"write", "rearm", "del"} : Runs(t, pc)
  <1>0. TypeOK /\ task[t].pc \in {"run", "write"}
    BY DEF BaseInv, ReadEnd, WriteError, WriteReply, At
  <1>1. PICK s \in Sessions : s = task[t].session
    BY <1>0, TcpTask DEF TcpPcs
  <1>2. /\ UNCHANGED <<arrived, clientSessions, main, batch>>
        /\ Close(socket, watch, {})
        /\ UnregisterIfLoggedIn(s) \/ UNCHANGED registryVars
    BY <1>1, Zenon DEF ReadEnd, WriteError, WriteReply, MainUnchanged, DestroyUnreferenced
  <1>3. PICK pc \in {"rearm", "del"} :
            /\ task' = [task EXCEPT ![t].pc = pc, ![t].keep = TRUE]
            /\ ended' = IF pc = "del" THEN ended \cup {s} ELSE ended
    BY <1>1 DEF ReadEnd, WriteError, WriteReply, Goto, End
  <1>4. Moves(t, pc) /\ task' \in TaskStates
    BY <1>0, <1>3, GotoEffect, Zenon DEF TcpPcs
  <1>5. /\ Sweeps({}) /\ WatchKept({})
        /\ socket' \in SocketStates /\ watch' \in WatchStates /\ SocketShape'
    BY <1>2, DestroyEffect, Zenon
  <1>6. /\ activeSessions' \in [Users -> Sessions \cup {NoSession}]
        /\ \A u \in Users : activeSessions'[u] \in {activeSessions[u], NoSession}
    BY <1>0, <1>2, UnregisterEffect
  <1>7. /\ session' \in SessionStates /\ KeepsNumbers
        /\ deferred' \in Nat /\ Observed
    <2>1. CASE UNCHANGED <<session, deferred>>
      BY <1>0, <2>1 DEF TypeOK, KeepsNumbers, Observed
    <2>2. CASE \E result \in {"ok", "again"} : WriteReply(t, result)
      <3>1. PICK kept \in BOOLEAN : /\ session' = IF kept THEN [session EXCEPT ![s].pending = @ + 1] ELSE session
                                    /\ deferred' = IF kept THEN deferred + 1 ELSE deferred
        BY <1>1, <2>2, Zenon DEF WriteReply
      <3>2. session' \in SessionStates /\ KeepsNumbers
        BY <1>0, <3>1 DEF TypeOK, SessionStates, KeepsNumbers
      <3>3. deferred' \in Nat /\ Observed
        BY <1>0, <3>1 DEF TypeOK, Observed
      <3> QED
        BY <3>2, <3>3
    <2> QED
      BY <2>1, <2>2 DEF ReadEnd, WriteError
  <1>8. ended' \subseteq Sessions
    BY <1>0, <1>3, Zenon DEF TypeOK
  <1>9. TypeOK'
    BY <1>0, <1>2, <1>4, <1>5, <1>6, <1>7, <1>8, SMTT(30) DEF TypeOK
  <1>10. Runs(t, pc)
    BY <1>0, <1>1, <1>2, <1>3, <1>4, <1>5, <1>6, <1>7, SMTT(30) DEF Runs
  <1> QED
    BY <1>5, <1>9, <1>10

\* run returned true.
LEMMA RearmKind ==
  ASSUME BaseInv, NEW t \in Tasks, Rearm(t)
  PROVE  TypeOK' /\ SocketShape' /\ Rearms(t)
  <1>0. TypeOK /\ SocketShape /\ task[t].pc = "rearm"
    BY DEF BaseInv, Shapes, Rearm, At
  <1>1. PICK f \in FDs : f = task[t].fd
    BY <1>0, TcpTask, Zenon DEF TcpPcs
  <1>2. PICK events \in {"in", "inout"} :
            /\ events = IF session[task[t].session].pending > 0 THEN "inout" ELSE "in"
            /\ Close(socket, EpollMod(f, events), {})
    BY <1>1, Zenon DEF Rearm
  <1>3. /\ task' = [task EXCEPT ![t] = FreeTask]
        /\ UNCHANGED <<arrived, clientSessions, session, main, batch, registryVars, observerVars>>
    BY Zenon DEF Rearm, MainUnchanged
  <1>4. /\ EpollMod(f, events) \in WatchStates
        /\ \A g \in FDs : EpollMod(f, events)[g] = IF g = f /\ Registered(f) THEN events ELSE watch[g]
    BY EpollModEffect
  <1>5. Sweeps({}) /\ \A g \in FDs : ~Swept(g, {}) => watch'[g] = EpollMod(f, events)[g]
    BY <1>2, CloseEffect, ZenonT(60)
  <1>6. socket' \in SocketStates /\ watch' \in WatchStates /\ SocketShape'
    <2>1. socket \in SocketStates
      BY <1>0, ZenonT(60) DEF TypeOK
    <2>2. \A g \in FDs : socket[g].conn = NoSession => socket[g] = Closed /\ EpollMod(f, events)[g] = "none"
      BY <1>0, <1>4 DEF SocketShape, Registered
    <2> QED
      BY <1>2, <1>4, <2>1, <2>2, CloseTypes
  <1>7. Frees(t) /\ task' \in TaskStates
    BY <1>0, <1>3, FreeEffect, Zenon
  <1>8. TypeOK'
    BY <1>0, <1>3, <1>6, <1>7 DEF TypeOK, registryVars, observerVars
  <1>9. Rearms(t)
    BY <1>0, <1>1, <1>2, <1>3, <1>4, <1>5, <1>7, Zenon DEF Rearms, registryVars, observerVars
  <1> QED
    BY <1>6, <1>8, <1>9

\* run returned false: EPOLL_CTL_DEL.
LEMMA EpollDelKind ==
  ASSUME BaseInv, NEW t \in Tasks, EpollDel(t)
  PROVE  TypeOK' /\ SocketShape' /\ Unwatches(t)
  <1>0. TypeOK /\ SocketShape /\ task[t].pc = "del"
    BY SMTT(30) DEF BaseInv, Shapes, EpollDel, At
  <1>1. PICK f \in FDs : f = task[t].fd
    BY <1>0, TcpTask DEF TcpPcs
  <1>2. /\ task' = [task EXCEPT ![t].pc = "close", ![t].keep = TRUE]
        /\ watch' = EpollMod(f, "none")
        /\ UNCHANGED <<arrived, socket, clientSessions, session, main, batch, registryVars, observerVars>>
    BY <1>1 DEF EpollDel, Goto, MainUnchanged
  <1>3. /\ watch' \in WatchStates
        /\ \A g \in FDs : watch'[g] = IF g = f /\ Registered(f) THEN "none" ELSE watch[g]
    BY <1>2, EpollModEffect
  <1>4. Moves(t, "close") /\ task' \in TaskStates
    BY <1>0, <1>2, GotoEffect, Zenon DEF TcpPcs
  <1>5. TypeOK'
    BY <1>0, <1>2, <1>3, <1>4 DEF TypeOK, registryVars, observerVars
  <1>6. SocketShape'
    BY <1>0, <1>2, <1>3 DEF SocketShape
  <1>7. Unwatches(t)
    BY <1>0, <1>1, <1>2, <1>3, <1>4 DEF Unwatches, registryVars, observerVars
  <1> QED
    BY <1>5, <1>6, <1>7, SMTT(30)

\* close, and the close of an alert.
LEMMA CloseSocketKind ==
  ASSUME BaseInv, NEW t \in Tasks, CloseSocket(t)
  PROVE  TypeOK' /\ SocketShape' /\ Closes(t)
  <1>0. TypeOK /\ task[t].pc = "close"
    BY DEF BaseInv, CloseSocket, At
  <1>1. /\ task' = [task EXCEPT ![t].pc = "erase", ![t].keep = TRUE]
        /\ Close(socket, watch, {task[t].fd})
        /\ UNCHANGED <<arrived, clientSessions, session, main, batch, registryVars, observerVars>>
    BY DEF CloseSocket, Goto, MainUnchanged
  <1>2. /\ Sweeps({task[t].fd}) /\ WatchKept({task[t].fd})
        /\ socket' \in SocketStates /\ watch' \in WatchStates /\ SocketShape'
    BY <1>1, DestroyEffect
  <1>3. Moves(t, "erase") /\ task' \in TaskStates
    BY <1>0, <1>1, GotoEffect, Zenon DEF TcpPcs
  <1>4. TypeOK'
    BY <1>0, <1>1, <1>2, <1>3 DEF TypeOK, registryVars, observerVars
  <1> QED
    BY <1>0, <1>1, <1>2, <1>3, <1>4 DEF Closes, registryVars, observerVars

\* The entry is erased.
LEMMA EraseKind ==
  ASSUME BaseInv, NEW t \in Tasks, Erase(t)
  PROVE  TypeOK' /\ SocketShape' /\ Erases(t)
  <1>0. TypeOK /\ task[t].pc = "erase"
    BY SMTT(30) DEF BaseInv, Erase, At
  <1>1. PICK f \in FDs : f = task[t].fd
    BY <1>0, TcpTask DEF TcpPcs
  <1>2. /\ task' = [task EXCEPT ![t].pc = "release", ![t].keep = TRUE]
        /\ Close(socket, watch, {}) /\ clientSessions' = [clientSessions EXCEPT ![f] = NoSession]
        /\ UNCHANGED <<arrived, session, main, batch, registryVars, observerVars>>
    BY <1>1 DEF Erase, Goto, DestroyUnreferenced
  <1>3. /\ Sweeps({}) /\ WatchKept({})
        /\ socket' \in SocketStates /\ watch' \in WatchStates /\ SocketShape'
    BY <1>2, DestroyEffect
  <1>4. Moves(t, "release") /\ task' \in TaskStates
    BY <1>0, <1>2, GotoEffect, Zenon DEF TcpPcs
  <1>5. /\ clientSessions' \in [FDs -> Sessions \cup {NoSession, NullSession}]
        /\ clientSessions'[f] = NoSession /\ \A g \in FDs \ {f} : clientSessions'[g] = clientSessions[g]
    BY <1>0, <1>2 DEF TypeOK
  <1>6. TypeOK'
    BY <1>0, <1>2, <1>3, <1>4, <1>5, SMTT(30) DEF TypeOK, registryVars, observerVars
  <1> QED
    BY <1>0, <1>1, <1>2, <1>3, <1>4, <1>5, <1>6, SMTT(30) DEF Erases, registryVars, observerVars

\* The lambda is destroyed.
LEMMA ReleaseKind ==
  ASSUME BaseInv, NEW t \in Tasks, Release(t)
  PROVE  TypeOK' /\ SocketShape' /\ Releases(t)
  <1>0. TypeOK /\ task[t].pc = "release"
    BY DEF BaseInv, Release, At
  <1>1. /\ task' = [task EXCEPT ![t] = FreeTask]
        /\ Close(socket, watch, {})
        /\ UNCHANGED <<arrived, clientSessions, main, batch, registryVars, observerVars>>
    BY DEF Release, MainUnchanged, DestroyUnreferenced
  <1>2. /\ Sweeps({}) /\ WatchKept({})
        /\ socket' \in SocketStates /\ watch' \in WatchStates /\ SocketShape'
    BY <1>1, DestroyEffect
  <1>3. Frees(t) /\ task' \in TaskStates
    BY <1>0, <1>1, FreeEffect, Zenon
  <1>4. session' \in SessionStates /\ KeepsNumbers /\ Observed
    <2>1. session' = [s \in Sessions |->
              IF s \in Refs \ Refs' THEN [NewSession EXCEPT !.fd = session[s].fd] ELSE session[s]]
      BY Zenon DEF Release
    <2>2. ASSUME NEW s \in Sessions
          PROVE  /\ session'[s] \in [fd : FDs \cup {0}, clientID : Users \cup {NoUser}, pending : Nat]
                 /\ session'[s].fd = session[s].fd /\ session'[s].pending \in {0, session[s].pending}
      <3>0. session[s] \in [fd : FDs \cup {0}, clientID : Users \cup {NoUser}, pending : Nat]
        BY <1>0 DEF TypeOK, SessionStates
      <3> DEFINE q == [NewSession EXCEPT !.fd = session[s].fd]
      <3>1. /\ q \in [fd : FDs \cup {0}, clientID : Users \cup {NoUser}, pending : Nat]
            /\ q.fd = session[s].fd /\ q.pending = 0
        BY <3>0 DEF NewSession
      <3>2. session'[s] = q \/ session'[s] = session[s]
        BY <2>1
      <3> HIDE DEF q
      <3> QED
        BY <3>0, <3>1, <3>2, Zenon
    <2>3. session' \in SessionStates
      BY <2>1, <2>2, Zenon DEF SessionStates
    <2>4. KeepsNumbers /\ Observed
      BY <1>1, <2>2, Zenon DEF KeepsNumbers, Observed, observerVars
    <2> QED
      BY <2>3, <2>4
  <1>5. TypeOK'
    BY <1>0, <1>1, <1>2, <1>3, <1>4, Zenon DEF TypeOK, registryVars, observerVars
  <1> QED
    BY <1>0, <1>1, <1>2, <1>3, <1>4, <1>5 DEF Releases, registryVars, observerVars

\* IpcHandler::handleConnection.
LEMMA IpcKind ==
  ASSUME BaseInv, NEW t \in Tasks, IpcNoData(t) \/ IpcRead(t) \/ IpcClose(t)
  PROVE  TypeOK' /\ SocketShape' /\ (GivesUp(t) \/ ReadsAlert(t) \/ ClosesAlert(t))
  <1>0. TypeOK /\ SocketShape /\ task[t].pc \in IpcPcs
    BY Zenon DEF BaseInv, Shapes, IpcNoData, IpcRead, IpcClose, At, IpcPcs
  <1>1. PICK f \in FDs : f = task[t].fd
    BY <1>0, Zenon DEF BaseInv, Shapes, TaskShape
  <1>2. UNCHANGED <<arrived, clientSessions, session, main, batch, registryVars, observerVars>>
    BY DEF IpcNoData, IpcRead, IpcClose, MainUnchanged
  <1>3. CASE IpcNoData(t)
    <2>1. /\ task[t].pc = "ipc" /\ task' = [task EXCEPT ![t] = FreeTask] /\ UNCHANGED socket
          /\ watch' = [watch EXCEPT ![f] = IF @ = "none" THEN "early" ELSE @] /\ ReadResult(f) = "again"
      BY <1>1, <1>3, Zenon DEF IpcNoData, At
    <2>2. socket[f].conn # NoSession
      BY <1>0, <2>1, Zenon DEF SocketShape, ReadResult, IsClosed
    <2>3. /\ watch' \in WatchStates /\ watch'[f] = (IF watch[f] = "none" THEN "early" ELSE watch[f])
          /\ \A g \in FDs \ {f} : watch'[g] = watch[g]
      BY <1>0, <2>1 DEF TypeOK, WatchStates
    <2>4. Frees(t) /\ task' \in TaskStates
      BY <1>0, <2>1, FreeEffect, Zenon
    <2>5. TypeOK'
      BY <1>0, <1>2, <2>1, <2>3, <2>4, Zenon DEF TypeOK, registryVars, observerVars
    <2>6. SocketShape'
      BY <1>0, <2>1, <2>2, <2>3, Zenon DEF SocketShape
    <2>7. GivesUp(t)
      BY <1>1, <1>2, <2>1, <2>3, <2>4 DEF GivesUp, registryVars, observerVars
    <2> QED
      BY <2>5, <2>6, <2>7, Zenon
  <1>4. CASE IpcRead(t)
    <2>1. /\ task[t].pc = "ipc" /\ task' = [task EXCEPT ![t].pc = "ipcclose", ![t].keep = TRUE] /\ UNCHANGED watch
          /\ socket' = IF ReadResult(f) = "data" THEN Consumed(f) ELSE socket
      BY <1>1, <1>4 DEF IpcRead, At, Goto
    <2>2. socket' \in SocketStates /\ KeepsConns /\ SocketShape'
      <3>1. CASE ReadResult(f) = "data"
        <4>1. socket[f].conn # NoSession
          BY <1>0, <3>1, ZenonT(60) DEF SocketShape, ReadResult, IsClosed
        <4>2. /\ Consumed(f) \in SocketStates
              /\ \A g \in FDs : Consumed(f)[g].conn = socket[g].conn
              /\ \A g \in FDs : socket[g].conn = NoSession => Consumed(f)[g] = Closed
          BY <4>1, ConsumedEffect
        <4> QED
          BY <1>0, <2>1, <3>1, <4>2, Zenon DEF KeepsConns, SocketShape
      <3>2. CASE ReadResult(f) # "data"
        BY <1>0, <2>1, <3>2 DEF TypeOK, KeepsConns, SocketShape
      <3> QED
        BY <3>1, <3>2
    <2>3. Moves(t, "ipcclose") /\ task' \in TaskStates
      BY <1>0, <2>1, GotoEffect, Zenon DEF IpcPcs
    <2>4. TypeOK'
      BY <1>0, <1>2, <2>1, <2>2, <2>3, Zenon DEF TypeOK, registryVars, observerVars
    <2> QED
      BY <1>2, <2>1, <2>2, <2>3, <2>4 DEF ReadsAlert, registryVars, observerVars
  <1>5. CASE IpcClose(t)
    <2>1. /\ task[t].pc = "ipcclose" /\ task' = [task EXCEPT ![t] = FreeTask]
          /\ Close(socket, watch, {task[t].fd})
      BY <1>5 DEF IpcClose, At
    <2>2. /\ Sweeps({task[t].fd}) /\ WatchKept({task[t].fd})
          /\ socket' \in SocketStates /\ watch' \in WatchStates /\ SocketShape'
      BY <2>1, DestroyEffect
    <2>3. Frees(t) /\ task' \in TaskStates
      BY <1>0, <2>1, FreeEffect, Zenon
    <2>4. TypeOK'
      BY <1>0, <1>2, <2>2, <2>3 DEF TypeOK, registryVars, observerVars
    <2> QED
      BY <1>2, <2>1, <2>2, <2>3, <2>4 DEF ClosesAlert, registryVars, observerVars
  <1> QED
    BY <1>3, <1>4, <1>5, Zenon

\* ~Server.
LEMMA StopKind ==
  ASSUME BaseInv, Stop
  PROVE  TypeOK' /\ SocketShape' /\ Stops
  <1>0. TypeOK /\ main.pc = "loop" /\ batch = {}
    BY DEF BaseInv, Stop, Idle
  <1>1. /\ task' = [t \in Tasks |-> FreeTask]
        /\ clientSessions' = [f \in FDs |-> NoSession]
        /\ activeSessions' = [u \in Users |-> NoSession]
        /\ main' = [Looping EXCEPT !.pc = "stopped"]
        /\ UNCHANGED <<arrived, session, batch, observerVars>>
        /\ Close(socket, watch, {})
    BY DEF Stop, DestroyUnreferenced
  <1>2. /\ Sweeps({}) /\ WatchKept({})
        /\ socket' \in SocketStates /\ watch' \in WatchStates /\ SocketShape'
    BY <1>1, DestroyEffect
  <1>3. task' \in TaskStates /\ \A t \in Tasks : task'[t].pc = "free" /\ task'[t].session = NoSession /\ task'[t].fd = 0
    BY <1>1 DEF TaskStates, FreeTask
  <1>4. main' \in MainStates /\ main'.pc = "stopped" /\ main'.conn = NoSession
    BY <1>1 DEF MainStates, Looping
  <1>5. TypeOK'
    BY <1>0, <1>1, <1>2, <1>3, <1>4 DEF TypeOK, observerVars
  <1> QED
    BY <1>0, <1>1, <1>2, <1>3, <1>4, <1>5 DEF Stops, observerVars

\* Every step is of a kind.
LEMMA Kinds ==
  ASSUME BaseInv, [Next]_vars
  PROVE  TypeOK' /\ SocketShape' /\ Kind
  <1>1. CASE PeerStep \/ (\E s \in Sessions : AcceptFails(s)) \/ UNCHANGED vars
    BY <1>1, OutsideKind DEF Kind
  <1>2. CASE MainStep /\ ~\E s \in Sessions : AcceptFails(s)
    <2>1. TypeOK' /\ SocketShape' /\ MainKind
      BY <1>2, AcceptTcpKind, StoreSessionKind, AcceptUnixKind, EpollWaitKind, IgnoreEventKind, MissEventKind,
         DispatchKind DEF MainStep, MainKind
    <2> QED
      BY <2>1, Zenon DEF Kind
  <1>3. CASE \E t \in Tasks : WorkerStep(t)
    <2>1. PICK t \in Tasks : WorkerStep(t)
      BY <1>3, Zenon
    <2>2. TypeOK' /\ SocketShape' /\ WorkerKind(t)
      BY <2>1, ReadKind, ReadLoginKind, ReplyKind, RearmKind, EpollDelKind, CloseSocketKind, EraseKind,
         ReleaseKind, IpcKind DEF WorkerStep, WorkerKind
    <2> QED
      BY <2>2 DEF Kind
  <1>4. CASE Stop
    BY <1>4, StopKind DEF Kind
  <1> QED
    BY <1>1, <1>2, <1>3, <1>4 DEF Next

-----------------------------------------------------------------------------
(***************************************************************************)
(* Types, shapes and numbers.                                              *)
(***************************************************************************)
Shrinks == \A f \in FDs : socket'[f].conn \in {socket[f].conn, NoSession}

\* A sweep opens nothing.
LEMMA SweepShrinks == ASSUME NEW closing, Sweeps(closing) PROVE Shrinks
  BY DEF Sweeps, Shrinks

\* At first nothing is open and no session has a number.
LEMMA BaseInit == Init => BaseInv
  <1> SUFFICES ASSUME Init PROVE BaseInv
    OBVIOUS
  <1>1. TypeOK
    <2>1. socket \in SocketStates /\ watch \in WatchStates
      BY Zenon DEF Init, SocketStates, WatchStates, Closed
    <2>2. session \in SessionStates /\ main \in MainStates
      BY Zenon DEF Init, SessionStates, MainStates, NewSession, Looping
    <2>3. task \in TaskStates
      BY DEF Init, TaskStates, FreeTask
    <2> QED
      BY <2>1, <2>2, <2>3, Zenon DEF Init, TypeOK, RegistryInit
  <1>2. Shapes
    <2>1. SocketShape
      BY Zenon DEF Init, SocketShape
    <2>2. MainShape
      BY Zenon DEF Init, MainShape, Looping
    <2>3. TaskShape
      BY ZenonT(60) DEF Init, TaskShape, FreeTask, TcpPcs, IpcPcs
    <2> QED
      BY <2>1, <2>2, <2>3 DEF Shapes
  <1>3. Numbers
    BY Distinct DEF Init, RegistryInit, Numbers, NewSession, Closed, FreeTask, Looping
  <1> QED
    BY <1>1, <1>2, <1>3 DEF BaseInv

\* What all steps of a worker have in common.
WorkerChanges(t) ==
    /\ UNCHANGED <<arrived, main, batch>> /\ KeepsNumbers /\ OthersKept(t)
    /\ \/ Frees(t)
       \/ \E pc \in TcpPcs : Moves(t, pc) /\ task[t].pc \in TcpPcs
       \/ \E pc \in IpcPcs : Moves(t, pc) /\ task[t].pc \in IpcPcs
    /\ \A f \in FDs : clientSessions'[f] \in {clientSessions[f], NoSession}
    /\ \A u \in Users : activeSessions'[u] \in {activeSessions[u], NoSession, task[t].session}
    /\ \A s \in ended : s \in ended'
    /\ deferred # 0 => deferred' # 0
    /\ Shrinks

\* And that they have it.
LEMMA WorkerFrame == ASSUME NEW t \in Tasks, WorkerKind(t) PROVE WorkerChanges(t)
  <1>1. ASSUME NEW pc \in {"write", "rearm", "del"}, Runs(t, pc) PROVE WorkerChanges(t)
    BY <1>1, SweepShrinks, ZenonT(60) DEF Runs, WorkerChanges, Moves, TcpPcs, Observed
  <1>2. CASE Rearms(t)
    BY <1>2, SweepShrinks DEF Rearms, WorkerChanges, Frees, KeepsNumbers
  <1>3. CASE Unwatches(t)
    BY <1>3, Zenon DEF Unwatches, WorkerChanges, Moves, TcpPcs, KeepsNumbers, Shrinks
  <1>4. CASE Closes(t)
    BY <1>4, SweepShrinks, Zenon DEF Closes, WorkerChanges, Moves, TcpPcs, KeepsNumbers
  <1>5. CASE Erases(t)
    BY <1>5, SweepShrinks, Zenon DEF Erases, WorkerChanges, Moves, TcpPcs, KeepsNumbers
  <1>6. CASE Releases(t)
    BY <1>6, SweepShrinks, Zenon DEF Releases, WorkerChanges, Frees
  <1>7. CASE GivesUp(t)
    BY <1>7, ZenonT(60) DEF GivesUp, WorkerChanges, Frees, KeepsNumbers, Shrinks
  <1>8. CASE ReadsAlert(t)
    BY <1>8, Zenon DEF ReadsAlert, WorkerChanges, Moves, IpcPcs, KeepsNumbers, Shrinks, KeepsConns
  <1>9. CASE ClosesAlert(t)
    BY <1>9, SweepShrinks, Zenon DEF ClosesAlert, WorkerChanges, Frees, KeepsNumbers
  <1> QED
    BY <1>1, <1>2, <1>3, <1>4, <1>5, <1>6, <1>7, <1>8, <1>9, Zenon DEF WorkerKind

\* A step of a worker keeps the shape of tasks and the numbers.
LEMMA WorkerBase ==
  ASSUME BaseInv, NEW t \in Tasks, WorkerKind(t)
  PROVE  MainShape' /\ TaskShape' /\ Numbers'
  <1>0. TaskShape /\ MainShape /\ Numbers
    BY DEF BaseInv, Shapes
  <1>1. UNCHANGED <<arrived, main, batch>> /\ KeepsNumbers
    BY WorkerFrame, Zenon DEF WorkerChanges
  <1>2. MainShape'
    BY <1>0, <1>1, ZenonT(60) DEF MainShape
  <1>3. TaskShape'
    <2>1. OthersKept(t)
      BY WorkerFrame, Zenon DEF WorkerChanges
    <2>2. \/ Frees(t)
          \/ \E pc \in TcpPcs : Moves(t, pc) /\ task[t].pc \in TcpPcs
          \/ \E pc \in IpcPcs : Moves(t, pc) /\ task[t].pc \in IpcPcs
      BY WorkerFrame, Zenon DEF WorkerChanges
    <2>3. "free" \notin TcpPcs /\ "free" \notin IpcPcs /\ TcpPcs \cap IpcPcs = {}
      BY Zenon DEF TcpPcs, IpcPcs
    <2> QED
      BY <1>0, <2>1, <2>2, <2>3 DEF TaskShape, Moves, Frees, OthersKept
  <1>4. Shrinks
    BY WorkerFrame, Zenon DEF WorkerChanges
  <1>5. \A f \in FDs : clientSessions'[f] \in {clientSessions[f], NoSession}
    BY WorkerFrame, Zenon DEF WorkerChanges
  <1>6. \A r \in Tasks : /\ task'[r].session \in {task[r].session, NoSession}
                         /\ task'[r].session \in Sessions => task'[r].fd = task[r].fd
    BY WorkerFrame, Distinct, Zenon DEF WorkerChanges, Moves, Frees, OthersKept
  <1>7. \A u \in Users : activeSessions'[u] \in {activeSessions[u], NoSession, task[t].session}
    BY WorkerFrame, Zenon DEF WorkerChanges
  <1>8. Numbers'
    <2>1. \A s \in Sessions : session'[s].fd # 0 => arrived'[s] = "accepted"
      BY <1>0, <1>1, Zenon DEF Numbers, KeepsNumbers
    <2>2. \A f \in FDs : clientSessions'[f] \in Sessions => session'[clientSessions'[f]].fd = f
      <3> SUFFICES ASSUME NEW f \in FDs, clientSessions'[f] \in Sessions PROVE session'[clientSessions'[f]].fd = f
        OBVIOUS
      <3>1. clientSessions'[f] = clientSessions[f]
        BY <1>5, Distinct, Zenon
      <3>2. session[clientSessions[f]].fd = f
        BY <1>0, <3>1, Zenon DEF Numbers
      <3> QED
        BY <1>1, <3>1, <3>2, ZenonT(60) DEF KeepsNumbers
    <2>3. \A f \in FDs : socket'[f].conn \in Sessions => session'[socket'[f].conn].fd = f
      <3> SUFFICES ASSUME NEW f \in FDs, socket'[f].conn \in Sessions PROVE session'[socket'[f].conn].fd = f
        OBVIOUS
      <3>1. socket'[f].conn = socket[f].conn
        BY <1>4, Distinct, Zenon DEF Shrinks
      <3>2. session[socket[f].conn].fd = f
        BY <1>0, <3>1, Zenon DEF Numbers
      <3> QED
        BY <1>1, <3>1, <3>2, Zenon DEF KeepsNumbers
    <2>4. \A r \in Tasks : task'[r].session \in Sessions => session'[task'[r].session].fd = task'[r].fd
      <3> SUFFICES ASSUME NEW r \in Tasks, task'[r].session \in Sessions
                   PROVE  session'[task'[r].session].fd = task'[r].fd
        OBVIOUS
      <3>1. task'[r].session = task[r].session /\ task'[r].fd = task[r].fd
        BY <1>6, Distinct, Zenon
      <3>2. session[task[r].session].fd = task[r].fd
        BY <1>0, <3>1, Zenon DEF Numbers
      <3> QED
        BY <1>1, <3>1, <3>2, Zenon DEF KeepsNumbers
    <2>5. main'.conn \in Sessions => session'[main'.conn].fd = main'.fd
      BY <1>0, <1>1, Zenon DEF Numbers, KeepsNumbers
    <2>6. \A u \in Users : activeSessions'[u] \in Sessions => session'[activeSessions'[u]].fd # 0
      <3>1. task[t].session \in Sessions => session[task[t].session].fd # 0
        <4>1. task[t].session \in Sessions => task[t].fd \in FDs
          BY <1>0, Distinct DEF BaseInv, TypeOK, TaskStates, TaskShape
        <4> QED
          BY <1>0, <4>1, Distinct, SMTT(30) DEF Numbers
      <3> QED
        BY <1>0, <1>1, <1>7, <3>1, Distinct, ZenonT(60) DEF Numbers, KeepsNumbers
    <2> QED
      BY <2>1, <2>2, <2>3, <2>4, <2>5, <2>6, Zenon DEF Numbers
  <1> QED
    BY <1>2, <1>3, <1>8

\* A connection that is waiting has no number yet.
LEMMA AcceptsBase ==
  ASSUME BaseInv, NEW s \in Sessions, NEW f \in FDs, Accepts(s, f)
  PROVE  session[s].fd = 0 /\ MainShape' /\ TaskShape' /\ Numbers'
  <1>0. TaskShape /\ MainShape /\ Numbers
    BY Zenon DEF BaseInv, Shapes
  <1>1. session[s].fd = 0
    BY <1>0, Zenon DEF Numbers, Accepts
  <1>2. MainShape' /\ TaskShape'
    BY <1>0, Zenon DEF MainShape, TaskShape, Accepts
  <1>3. \A r \in Sessions : session[r].fd # 0 => session'[r].fd = session[r].fd
    BY <1>1, Zenon DEF Accepts
  <1>4. Numbers'
    <2>1. \A r \in Sessions : session'[r].fd # 0 => arrived'[r] = "accepted"
      BY <1>0, ZenonT(60) DEF Numbers, Accepts, KeepsAccepted, Conns
    <2>2. \A g \in FDs : clientSessions'[g] \in Sessions => session'[clientSessions'[g]].fd = g
      <3> SUFFICES ASSUME NEW g \in FDs, clientSessions'[g] \in Sessions PROVE session'[clientSessions'[g]].fd = g
        OBVIOUS
      <3>1. clientSessions' = clientSessions
        BY Zenon DEF Accepts
      <3>2. session[clientSessions[g]].fd = g
        BY <1>0, <3>1, Zenon DEF Numbers
      <3> QED
        BY <1>3, <3>1, <3>2, Distinct, Zenon
    <2>3. \A g \in FDs : socket'[g].conn \in Sessions => session'[socket'[g].conn].fd = g
      <3> SUFFICES ASSUME NEW g \in FDs, socket'[g].conn \in Sessions PROVE session'[socket'[g].conn].fd = g
        OBVIOUS
      <3>1. CASE g = f
        BY <3>1, Zenon DEF Accepts
      <3>2. CASE g # f
        <4>1. socket'[g].conn = socket[g].conn
          BY <3>2, Zenon DEF Accepts
        <4>2. session[socket[g].conn].fd = g
          BY <1>0, <4>1, Zenon DEF Numbers
        <4> QED
          BY <1>3, <4>1, <4>2, Distinct, Zenon
      <3> QED
        BY <3>1, <3>2
    <2>4. \A r \in Tasks : task'[r].session \in Sessions => session'[task'[r].session].fd = task'[r].fd
      <3>1. \A r \in Tasks : task[r].session \in Sessions => task[r].fd \in FDs
        BY <1>0, Distinct DEF BaseInv, TypeOK, TaskStates, TaskShape
      <3>2. ASSUME NEW r \in Tasks, task'[r].session \in Sessions
            PROVE  session'[task'[r].session].fd = task'[r].fd
        <4>1. task'[r].session = task[r].session /\ task'[r].fd = task[r].fd
          BY Zenon DEF Accepts
        <4>2. session[task[r].session].fd = task[r].fd
          BY <1>0, <3>2, <4>1, Zenon DEF Numbers
        <4> QED
          BY <1>3, <3>1, <3>2, <4>1, <4>2, Distinct, Zenon
      <3> QED
        BY <3>2
    <2>5. main'.conn \in Sessions => session'[main'.conn].fd = main'.fd
      BY Zenon DEF Accepts
    <2>6. \A u \in Users : activeSessions'[u] \in Sessions => session'[activeSessions'[u]].fd # 0
      <3> SUFFICES ASSUME NEW u \in Users, activeSessions'[u] \in Sessions PROVE session'[activeSessions'[u]].fd # 0
        OBVIOUS
      <3>1. activeSessions' = activeSessions
        BY Zenon DEF Accepts
      <3>2. session[activeSessions[u]].fd # 0
        BY <1>0, <3>1, Zenon DEF Numbers
      <3> QED
        BY <1>3, <3>1, <3>2, Zenon
    <2> QED
      BY <2>1, <2>2, <2>3, <2>4, <2>5, <2>6, Zenon DEF Numbers
  <1> QED
    BY <1>1, <1>2, <1>4

\* What the other steps of the main thread may change in the tables that refer to numbers.
MainChanges ==
    /\ KeepsNumbers /\ KeepsAccepted
    /\ main' = main \/ (main'.pc \in {"loop", "stopped"} /\ main'.conn = NoSession)
    /\ \A f \in FDs : socket'[f].conn \in Sessions => socket'[f].conn = socket[f].conn
    /\ \A f \in FDs : clientSessions'[f] \in Sessions =>
         clientSessions'[f] = clientSessions[f] \/ (clientSessions'[f] = main.conn /\ main.fd = f)
    /\ \A t \in Tasks : \/ task'[t] = task[t]
                        \/ task'[t].pc = "free" /\ task'[t].session = NoSession
                        \/ task'[t].pc = "ipc" /\ task'[t].session = NoSession /\ task'[t].fd \in FDs
                        \/ /\ task'[t].pc = "run" /\ task'[t].fd \in FDs
                           /\ task'[t].session \in Sessions /\ task'[t].session = clientSessions[task'[t].fd]
    /\ \A u \in Users : activeSessions'[u] \in {activeSessions[u], NoSession}

\* Every one of them stays within that.
LEMMA MainFrame ==
  ASSUME BaseInv, \/ Outside \/ Stops
                  \/ \E lost \in BOOLEAN : Stores(lost)
                  \/ \E c \in Sensors, t \in Tasks, f \in FDs : AcceptsUnix(c, t, f)
                  \/ \E ready \in SUBSET FDs : Waits(ready)
                  \/ \E e \in batch : Ignores(e) \/ Misses(e)
                  \/ \E e \in batch, t \in Tasks : Dispatches(e, t)
  PROVE  MainChanges
  <1>1. CASE Outside
    BY <1>1, Zenon DEF Outside, MainChanges, KeepsNumbers, KeepsConns
  <1>2. CASE Stops
    BY <1>2, Distinct, Zenon DEF Stops, MainChanges, KeepsNumbers, KeepsAccepted, Sweeps
  <1>3. ASSUME NEW lost \in BOOLEAN, Stores(lost) PROVE MainChanges
    BY <1>3, Distinct, Zenon DEF Stores, MainChanges, KeepsAccepted, Sweeps
  <1>4. ASSUME NEW c \in Sensors, NEW t \in Tasks, NEW f \in FDs, AcceptsUnix(c, t, f) PROVE MainChanges
    BY <1>4, Distinct, Zenon DEF AcceptsUnix, MainChanges, KeepsNumbers, OthersKept
  <1>5. ASSUME NEW ready \in SUBSET FDs, Waits(ready) PROVE MainChanges
    BY <1>5, Zenon DEF Waits, MainChanges, KeepsNumbers, KeepsAccepted
  <1>6. ASSUME NEW e \in batch, Ignores(e) \/ Misses(e) PROVE MainChanges
    BY <1>6, Zenon DEF Ignores, Misses, MainChanges, KeepsNumbers, KeepsAccepted
  <1>7. ASSUME NEW e \in batch, NEW t \in Tasks, Dispatches(e, t) PROVE MainChanges
    <2>1. e.fd \in FDs
      BY Zenon DEF BaseInv, TypeOK
    <2> QED
      BY <1>7, <2>1, ZenonT(60) DEF Dispatches, MainChanges, KeepsAccepted, OthersKept
  <1> QED
    BY <1>1, <1>2, <1>3, <1>4, <1>5, <1>6, <1>7

\* And what stays within it keeps the shapes and the numbers.
LEMMA MainBase ==
  ASSUME BaseInv, MainChanges
  PROVE  MainShape' /\ TaskShape' /\ Numbers'
  <1>0. TaskShape /\ MainShape /\ Numbers
    BY DEF BaseInv, Shapes
  <1>1. MainShape' /\ (main'.conn \in Sessions => main' = main)
    BY <1>0, Distinct, Zenon DEF MainChanges, MainShape
  <1>2. TaskShape'
    BY <1>0 DEF MainChanges, TaskShape, TcpPcs, IpcPcs
  <1>3. \A s \in Sessions : session'[s].fd # 0 => arrived'[s] = "accepted"
    BY <1>0, ZenonT(60) DEF MainChanges, Numbers, KeepsNumbers, KeepsAccepted, Conns
  <1>4. \A f \in FDs : clientSessions'[f] \in Sessions => session'[clientSessions'[f]].fd = f
    <2> SUFFICES ASSUME NEW f \in FDs, clientSessions'[f] \in Sessions PROVE session'[clientSessions'[f]].fd = f
      OBVIOUS
    <2>1. clientSessions'[f] = clientSessions[f] \/ (clientSessions'[f] = main.conn /\ main.fd = f)
      BY Zenon DEF MainChanges
    <2>2. session[clientSessions'[f]].fd = f
      BY <1>0, <2>1, Zenon DEF Numbers
    <2> QED
      BY <2>2, Zenon DEF MainChanges, KeepsNumbers
  <1>5. \A f \in FDs : socket'[f].conn \in Sessions => session'[socket'[f].conn].fd = f
    <2> SUFFICES ASSUME NEW f \in FDs, socket'[f].conn \in Sessions PROVE session'[socket'[f].conn].fd = f
      OBVIOUS
    <2>1. socket'[f].conn = socket[f].conn
      BY Zenon DEF MainChanges
    <2>2. session[socket[f].conn].fd = f
      BY <1>0, <2>1, Zenon DEF Numbers
    <2> QED
      BY <2>1, <2>2, ZenonT(60) DEF MainChanges, KeepsNumbers
  <1>6. \A r \in Tasks : task'[r].session \in Sessions => session'[task'[r].session].fd = task'[r].fd
    <2> SUFFICES ASSUME NEW r \in Tasks, task'[r].session \in Sessions
                 PROVE  session'[task'[r].session].fd = task'[r].fd
      OBVIOUS
    <2>1. \/ task'[r] = task[r]
          \/ task'[r].fd \in FDs /\ task'[r].session = clientSessions[task'[r].fd]
      BY Distinct, Zenon DEF MainChanges
    <2>2. session[task'[r].session].fd = task'[r].fd
      BY <1>0, <2>1, Zenon DEF Numbers
    <2> QED
      BY <2>2, Zenon DEF MainChanges, KeepsNumbers
  <1>7. main'.conn \in Sessions => session'[main'.conn].fd = main'.fd
    <2> SUFFICES ASSUME main'.conn \in Sessions PROVE session'[main'.conn].fd = main'.fd
      OBVIOUS
    <2>1. main' = main
      BY <1>1, Zenon
    <2>2. session[main.conn].fd = main.fd
      BY <1>0, <2>1, ZenonT(60) DEF Numbers
    <2> QED
      BY <2>1, <2>2, Zenon DEF MainChanges, KeepsNumbers
  <1>8. \A u \in Users : activeSessions'[u] \in Sessions => session'[activeSessions'[u]].fd # 0
    BY <1>0, Distinct, ZenonT(60) DEF MainChanges, Numbers, KeepsNumbers
  <1> QED
    BY <1>1, <1>2, <1>3, <1>4, <1>5, <1>6, <1>7, <1>8, Zenon DEF Numbers

\* All of these are inductive.
LEMMA BaseNext == ASSUME BaseInv, [Next]_vars PROVE BaseInv' /\ Kind
  <1>1. TypeOK' /\ SocketShape' /\ Kind
    BY Kinds
  <1>2. MainShape' /\ TaskShape' /\ Numbers'
    BY <1>1, WorkerBase, AcceptsBase, MainBase, MainFrame, Zenon DEF Kind, MainKind
  <1> QED
    BY <1>1, <1>2 DEF BaseInv, Shapes

-----------------------------------------------------------------------------
(***************************************************************************)
(* Every open descriptor has an owner.                                     *)
(***************************************************************************)
Ipc(t, f) == task[t].pc \in IpcPcs /\ task[t].fd = f

TcpOwned == \A f \in FDs : socket[f].conn \in Sessions => socket[f].conn \in Refs

SensorOwned ==
    \A f \in FDs : socket[f].conn \in Sensors =>
        /\ watch[f] \in {"none", "early"}
        /\ (\E t \in Tasks : Ipc(t, f)) \/ watch[f] = "early" \/ main.pc = "stopped"

OwnedInv == TcpOwned /\ SensorOwned

\* The references one by one, before and after a step.
LEMMA RefsAre ==
  /\ \A s : s \in Refs <=>
       /\ s \in Sessions
       /\ \/ \E f \in FDs : clientSessions[f] = s
          \/ \E t \in Tasks : task[t].session = s
          \/ \E u \in Users : activeSessions[u] = s
          \/ main.conn = s
  /\ \A s : s \in Refs' <=>
       /\ s \in Sessions
       /\ \/ \E f \in FDs : clientSessions'[f] = s
          \/ \E t \in Tasks : task'[t].session = s
          \/ \E u \in Users : activeSessions'[u] = s
          \/ main'.conn = s
  BY Zenon DEF Refs

\* A step with a destructor closes what it leaves without an owner.
LEMMA SweepOwned ==
  ASSUME BaseInv, TcpOwned, NEW closing, Sweeps(closing)
  PROVE  TcpOwned'
  <1> SUFFICES ASSUME NEW f \in FDs, NEW s \in Sessions, socket'[f].conn = s
               PROVE  s \in Refs'
    BY Zenon DEF TcpOwned
  <1>1. ~Swept(f, closing) /\ socket[f].conn = s
    BY Distinct, Zenon DEF Sweeps
  <1>2. s \in Refs /\ session[s].fd = f
    BY <1>1, Zenon DEF TcpOwned, BaseInv, Numbers
  <1> QED
    BY <1>1, <1>2 DEF Swept, Dies

\* A step without one drops no reference.
LEMMA RefsGrow ==
  ASSUME \A f \in FDs : clientSessions[f] \in Sessions => clientSessions'[f] = clientSessions[f],
         \A t \in Tasks : task[t].session \in Sessions => task'[t].session = task[t].session,
         UNCHANGED activeSessions, main.conn \in Sessions => main'.conn = main.conn
  PROVE  \A s \in Refs : s \in Refs'
  BY RefsAre

\* Steps that do nothing to a sensor's connection.
LEMMA SensorQuiet ==
  ASSUME SensorOwned,
         \A f \in FDs : socket'[f].conn \in Sensors => socket'[f].conn = socket[f].conn /\ watch'[f] = watch[f],
         \A f \in FDs, t \in Tasks : socket'[f].conn \in Sensors /\ Ipc(t, f) => Ipc(t, f)',
         main.pc = "stopped" => main'.pc = "stopped"
  PROVE  SensorOwned'
  BY Zenon DEF SensorOwned

\* A worker that moves a task of a session.
LEMMA TcpTaskMoves ==
  ASSUME NEW t \in Tasks, task[t].pc \in TcpPcs, OthersKept(t)
  PROVE  \A f \in FDs, r \in Tasks : Ipc(r, f) => Ipc(r, f)'
  BY Zenon DEF OthersKept, Ipc, TcpPcs, IpcPcs

\* Every step leaves every descriptor with an owner.
LEMMA OwnedNext ==
  ASSUME BaseInv, OwnedInv, Kind
  PROVE  OwnedInv'
  <1>0. TcpOwned /\ SensorOwned /\ TaskShape /\ MainShape /\ \A e \in batch : e.fd \in FDs
    BY Zenon DEF OwnedInv, BaseInv, Shapes, TypeOK
  <1>1. ASSUME NEW closing, Sweeps(closing), NEW t \in Tasks, task[t].pc \in TcpPcs, OthersKept(t), UNCHANGED main,
               \A f \in FDs : ~Swept(f, closing) /\ ~Registered(f) => watch'[f] = watch[f]
        PROVE  OwnedInv'
    <2>1. TcpOwned'
      BY <1>0, <1>1, SweepOwned
    <2>2. \A f \in FDs : socket'[f].conn \in Sensors => socket'[f].conn = socket[f].conn /\ watch'[f] = watch[f]
      BY <1>0, <1>1, Distinct, Zenon DEF Sweeps, SensorOwned, Registered
    <2>3. SensorOwned'
      BY <1>0, <1>1, <2>2, TcpTaskMoves, SensorQuiet, ZenonT(60)
    <2> QED
      BY <2>1, <2>3, ZenonT(60) DEF OwnedInv
  <1>2. ASSUME KeepsConns, \A s \in Refs : s \in Refs' PROVE TcpOwned'
    BY <1>0, <1>2 DEF TcpOwned, KeepsConns
  <1>3. CASE Outside
    <2>1. TcpOwned'
      BY <1>2, <1>3, RefsGrow, ZenonT(60) DEF Outside
    <2>2. SensorOwned'
      BY <1>0, <1>3, SensorQuiet DEF Outside, KeepsConns, Ipc
    <2> QED
      BY <2>1, <2>2, Zenon DEF OwnedInv
  <1>4. ASSUME NEW s \in Sessions, NEW f \in FDs, Accepts(s, f) PROVE OwnedInv'
    <2>1. \A r \in Refs : r \in Refs'
      BY <1>0, <1>4, RefsGrow, Distinct, Zenon DEF Accepts, MainShape
    <2>2. s \in Refs'
      BY <1>4, RefsAre, Zenon DEF Accepts
    <2>3. TcpOwned'
      BY <1>0, <1>4, <2>1, <2>2, ZenonT(60) DEF TcpOwned, Accepts
    <2>4. SensorOwned'
      BY <1>0, <1>4, SensorQuiet, Distinct DEF Accepts, Ipc
    <2> QED
      BY <2>3, <2>4, Zenon DEF OwnedInv
  <1>5. ASSUME NEW lost \in BOOLEAN, Stores(lost) PROVE OwnedInv'
    <2>1. TcpOwned'
      BY <1>0, <1>5, SweepOwned, Zenon DEF Stores
    <2>2. SensorOwned'
      BY <1>0, <1>5, SensorQuiet, Distinct, Zenon DEF Stores, Sweeps, WatchKept, Ipc
    <2> QED
      BY <2>1, <2>2 DEF OwnedInv
  <1>6. ASSUME NEW c \in Sensors, NEW t \in Tasks, NEW f \in FDs, AcceptsUnix(c, t, f) PROVE OwnedInv'
    <2>1. \A r \in Refs : r \in Refs'
      BY <1>0, <1>6, RefsGrow, Distinct, Zenon DEF AcceptsUnix, TaskShape, OthersKept
    <2>2. TcpOwned'
      BY <1>0, <1>6, <2>1, Distinct, Zenon DEF TcpOwned, AcceptsUnix
    <2>3. watch'[f] = "none" /\ Ipc(t, f)'
      BY <1>6, Zenon DEF AcceptsUnix, Ipc, IpcPcs, BaseInv, Shapes, SocketShape
    <2>4. \A g \in FDs, r \in Tasks : Ipc(r, g) => Ipc(r, g)'
      BY <1>6, Zenon DEF AcceptsUnix, Ipc, IpcPcs, OthersKept
    <2>5. SensorOwned'
      BY <1>0, <1>6, <2>3, <2>4, Zenon DEF SensorOwned, AcceptsUnix
    <2> QED
      BY <2>2, <2>5 DEF OwnedInv
  <1>7. ASSUME NEW ready \in SUBSET FDs, Waits(ready) PROVE OwnedInv'
    <2>1. TcpOwned'
      BY <1>2, <1>7, RefsGrow, Zenon DEF Waits, KeepsConns
    <2>2. \A f \in FDs : socket[f].conn \in Sensors => f \notin ready
      BY <1>0, <1>7, Zenon DEF Waits, SensorOwned, Watched
    <2>3. SensorOwned'
      BY <1>0, <1>7, <2>2, SensorQuiet, Zenon DEF Waits, Ipc
    <2> QED
      BY <2>1, <2>3 DEF OwnedInv
  <1>8. ASSUME NEW e \in batch, Ignores(e) PROVE OwnedInv'
    <2>1. TcpOwned'
      BY <1>2, <1>8, RefsGrow, Zenon DEF Ignores, KeepsConns
    <2>2. SensorOwned'
      BY <1>0, <1>8, SensorQuiet, Zenon DEF Ignores, Ipc
    <2> QED
      BY <2>1, <2>2 DEF OwnedInv
  <1>9. ASSUME NEW e \in batch, Misses(e) PROVE OwnedInv'
    <2>1. TcpOwned'
      BY <1>2, <1>9, RefsGrow, Zenon DEF Misses, KeepsConns
    <2>2. SensorOwned'
      BY <1>0, <1>9, SensorQuiet, Zenon DEF Misses, Ipc, SensorOwned
    <2> QED
      BY <2>1, <2>2 DEF OwnedInv
  <1>10. ASSUME NEW e \in batch, NEW t \in Tasks, Dispatches(e, t) PROVE OwnedInv'
    <2>1. TcpOwned'
      BY <1>0, <1>2, <1>10, RefsGrow, Distinct, ZenonT(60) DEF Dispatches, KeepsConns, OthersKept, TaskShape
    <2>2. \A g \in FDs, r \in Tasks : Ipc(r, g) => Ipc(r, g)'
      BY <1>10, Zenon DEF Dispatches, Ipc, IpcPcs, OthersKept
    <2>3. SensorOwned'
      BY <1>0, <1>10, <2>2, SensorQuiet, Zenon DEF Dispatches, SensorOwned, Registered
    <2> QED
      BY <2>1, <2>3 DEF OwnedInv
  <1>11. CASE Stops
    <2>1. TcpOwned'
      BY <1>0, <1>11, SweepOwned, Zenon DEF Stops
    <2>2. SensorOwned'
      BY <1>0, <1>11, Distinct, Zenon DEF Stops, SensorOwned, Sweeps, WatchKept
    <2> QED
      BY <2>1, <2>2 DEF OwnedInv
  <1>12. ASSUME NEW t \in Tasks, NEW pc \in {"write", "rearm", "del"}, Runs(t, pc) PROVE OwnedInv'
    BY <1>1, <1>12, Zenon DEF Runs, WatchKept, Moves, TcpPcs
  <1>13. ASSUME NEW t \in Tasks, Rearms(t) PROVE OwnedInv'
    BY <1>1, <1>13, Zenon DEF Rearms, Frees, TcpPcs
  <1>14. ASSUME NEW t \in Tasks, Unwatches(t) PROVE OwnedInv'
    <2>1. TcpOwned'
      BY <1>0, <1>2, <1>14, RefsGrow, Zenon DEF Unwatches, KeepsConns, Moves, OthersKept
    <2>2. SensorOwned'
      BY <1>0, <1>14, TcpTaskMoves, SensorQuiet, Zenon DEF Unwatches, Moves, SensorOwned, Registered, TcpPcs
    <2> QED
      BY <2>1, <2>2 DEF OwnedInv
  <1>15. ASSUME NEW t \in Tasks, Closes(t) PROVE OwnedInv'
    BY <1>1, <1>15, Zenon DEF Closes, WatchKept, Moves, TcpPcs
  <1>16. ASSUME NEW t \in Tasks, Erases(t) PROVE OwnedInv'
    BY <1>1, <1>16, Zenon DEF Erases, WatchKept, Moves, TcpPcs
  <1>17. ASSUME NEW t \in Tasks, Releases(t) PROVE OwnedInv'
    BY <1>1, <1>17, Zenon DEF Releases, WatchKept, Frees, TcpPcs
  <1>18. ASSUME NEW t \in Tasks, GivesUp(t) PROVE OwnedInv'
    <2>1. TcpOwned'
      BY <1>0, <1>2, <1>18, RefsGrow, Distinct, Zenon DEF GivesUp, KeepsConns, Frees, OthersKept, TaskShape, IpcPcs
    <2>2. \A g \in FDs \ {task[t].fd}, r \in Tasks : Ipc(r, g) => Ipc(r, g)'
      BY <1>18, Zenon DEF GivesUp, Ipc, Frees, OthersKept
    <2>3. SensorOwned'
      BY <1>0, <1>18, <2>2, Zenon DEF GivesUp, SensorOwned
    <2> QED
      BY <2>1, <2>3 DEF OwnedInv
  <1>19. ASSUME NEW t \in Tasks, ReadsAlert(t) PROVE OwnedInv'
    <2>1. TcpOwned'
      BY <1>0, <1>2, <1>19, RefsGrow, Zenon DEF ReadsAlert, Moves, OthersKept
    <2>2. \A g \in FDs, r \in Tasks : Ipc(r, g) => Ipc(r, g)'
      BY <1>19, Zenon DEF ReadsAlert, Ipc, Moves, OthersKept, IpcPcs
    <2>3. SensorOwned'
      BY <1>0, <1>19, <2>2, SensorQuiet, Zenon DEF ReadsAlert, KeepsConns
    <2> QED
      BY <2>1, <2>3 DEF OwnedInv
  <1>20. ASSUME NEW t \in Tasks, ClosesAlert(t) PROVE OwnedInv'
    <2>1. TcpOwned'
      BY <1>0, <1>20, SweepOwned, Zenon DEF ClosesAlert
    <2>2. \A g \in FDs : socket'[g].conn \in Sensors =>
              g # task[t].fd /\ socket'[g].conn = socket[g].conn /\ watch'[g] = watch[g]
      BY <1>20, Distinct, ZenonT(60) DEF ClosesAlert, Sweeps, WatchKept, Swept
    <2>3. \A g \in FDs \ {task[t].fd}, r \in Tasks : Ipc(r, g) => Ipc(r, g)'
      BY <1>20 DEF ClosesAlert, Ipc, Frees, OthersKept
    <2>4. SensorOwned'
      BY <1>0, <1>20, <2>2, <2>3, SensorQuiet, Zenon DEF ClosesAlert
    <2> QED
      BY <2>1, <2>4 DEF OwnedInv
  <1> QED
    BY <1>3, <1>4, <1>5, <1>6, <1>7, <1>8, <1>9, <1>10, <1>11, <1>12, <1>13, <1>14, <1>15, <1>16, <1>17, <1>18, SMTT(30),
       <1>19, <1>20 DEF Kind, MainKind, WorkerKind

-----------------------------------------------------------------------------
(***************************************************************************)
(* No connection is forgotten.  A task at "close" has unregistered its     *)
(* descriptor and will close it.                                           *)
(***************************************************************************)
ActivePcs == {"run", "write", "rearm", "del", "close"}
Active(t, f) == task[t].pc \in ActivePcs /\ task[t].fd = f
Closing(t, f) == task[t].pc = "close" /\ task[t].fd = f
HasEvent(f) == \E e \in batch : e.fd = f
Live(f) == Watched(f) \/ watch[f] = "missed" \/ HasEvent(f) \/ \E t \in Tasks : Active(t, f)

LiveInv ==
    \A f \in FDs : socket[f].conn \in Sessions =>
        /\ socket[f].conn \in {clientSessions[f], main.conn} => Live(f)
        /\ ~Registered(f) => \E t \in Tasks : Closing(t, f)

\* Steps that leave the registration, the events and the tasks of a
\* connection as they are.
LEMMA LiveQuiet ==
  ASSUME LiveInv, NEW f \in FDs, socket'[f].conn = socket[f].conn,
         socket'[f].conn \in Sessions,
         socket'[f].conn \in {clientSessions'[f], main'.conn} => socket[f].conn \in {clientSessions[f], main.conn},
         watch'[f] = watch[f] \/ (Registered(f) /\ watch'[f] = "level"),
         HasEvent(f) => HasEvent(f)',
         \A t \in Tasks : Active(t, f) => Active(t, f)',
         \A t \in Tasks : Closing(t, f) => Closing(t, f)'
  PROVE  /\ socket'[f].conn \in {clientSessions'[f], main'.conn} => Live(f)'
         /\ ~Registered(f)' => (\E t \in Tasks : Closing(t, f))'
  BY Zenon DEF LiveInv, Live, Watched, Registered

\* A worker that moves a task that was not active.
LEMMA PassiveMoves ==
  ASSUME NEW t \in Tasks, task[t].pc \notin ActivePcs, OthersKept(t)
  PROVE  \A f \in FDs, r \in Tasks : (Active(r, f) => Active(r, f)') /\ (Closing(r, f) => Closing(r, f)')
  BY Zenon DEF OthersKept, Active, Closing, ActivePcs

\* Every step leaves every connection with somebody who notices it.
LEMMA LiveNext ==
  ASSUME BaseInv, OwnedInv', LiveInv, Kind
  PROVE  LiveInv'
  <1> DEFINE Good(f) == /\ socket'[f].conn \in {clientSessions'[f], main'.conn} => Live(f)'
                        /\ ~Registered(f)' => (\E t \in Tasks : Closing(t, f))'
  <1> SUFFICES ASSUME NEW f \in FDs, socket'[f].conn \in Sessions PROVE Good(f)
    BY Zenon DEF LiveInv
  <1>0. TaskShape /\ MainShape /\ \A e \in batch : e.fd \in FDs
    BY DEF BaseInv, Shapes, TypeOK
  <1>a. ASSUME socket'[f].conn = socket[f].conn,
               socket'[f].conn \in {clientSessions'[f], main'.conn} => socket[f].conn \in {clientSessions[f], main.conn},
               watch'[f] = watch[f] \/ (Registered(f) /\ watch'[f] = "level"),
               HasEvent(f) => HasEvent(f)',
               \A t \in Tasks : Active(t, f) => Active(t, f)',
               \A t \in Tasks : Closing(t, f) => Closing(t, f)'
        PROVE  Good(f)
    BY <1>a, LiveQuiet, Zenon
  <1> HIDE DEF Good
  <1>b. ASSUME NEW closing, Sweeps(closing)
        PROVE  ~Swept(f, closing) /\ socket'[f].conn = socket[f].conn
    BY <1>b, Distinct, Zenon DEF Sweeps
  <1>c. ASSUME UNCHANGED task
        PROVE  \A t \in Tasks : (Active(t, f) => Active(t, f)') /\ (Closing(t, f) => Closing(t, f)')
    BY <1>c DEF Active, Closing
  <1>d. ASSUME UNCHANGED batch PROVE HasEvent(f) => HasEvent(f)'
    BY <1>d, Zenon DEF HasEvent
  <1>e. ASSUME socket[f].conn \in Sessions, ~Registered(f) PROVE \E t \in Tasks : Closing(t, f)
    BY <1>e, Zenon DEF LiveInv
  <1>3. CASE Outside
    BY <1>3, <1>a, <1>c, <1>d, Zenon DEF Outside, KeepsConns
  <1>4. ASSUME NEW s \in Sessions, NEW g \in FDs, Accepts(s, g) PROVE Good(f)
    <2>1. CASE f = g
      BY <1>4, <2>1, Zenon DEF Accepts, Good, Live, Watched, Registered
    <2>2. CASE f # g
      <3>1. socket[f].conn # s
        <4>1. session[s].fd = 0
          BY <1>4, AcceptsBase
        <4> QED
          BY <4>1, Distinct, ZenonT(60) DEF BaseInv, Numbers
      <3>2. /\ socket'[f].conn = socket[f].conn /\ watch'[f] = watch[f]
            /\ UNCHANGED <<clientSessions, batch, task>> /\ main'.conn = s
        BY <1>4, <2>2, Zenon DEF Accepts
      <3> QED
        BY <1>a, <1>c, <1>d, <3>1, <3>2, Zenon
    <2> QED
      BY <2>1, <2>2
  <1>5. ASSUME NEW lost \in BOOLEAN, Stores(lost) PROVE Good(f)
    <2>1. socket'[f].conn = socket[f].conn /\ watch'[f] = watch[f]
      BY <1>5, <1>b, ZenonT(60) DEF Stores, WatchKept
    <2>2. socket'[f].conn \in {clientSessions'[f], main'.conn} => socket[f].conn \in {clientSessions[f], main.conn}
      BY <1>5, <2>1, Distinct, Zenon DEF Stores
    <2> QED
      BY <1>5, <1>a, <1>c, <1>d, <2>1, <2>2, Zenon DEF Stores
  <1>6. ASSUME NEW c \in Sensors, NEW t \in Tasks, NEW g \in FDs, AcceptsUnix(c, t, g) PROVE Good(f)
    <2>1. socket'[f].conn = socket[f].conn
      BY <1>6, Distinct, Zenon DEF AcceptsUnix
    <2>2. UNCHANGED <<watch, clientSessions, main, batch>> /\ task[t].pc \notin ActivePcs /\ OthersKept(t)
      BY <1>6 DEF AcceptsUnix, ActivePcs
    <2> QED
      BY <1>a, <1>d, <2>1, <2>2, PassiveMoves, Zenon
  <1>7. ASSUME NEW ready \in SUBSET FDs, Waits(ready) PROVE Good(f)
    <2>1. CASE f \in ready
      BY <1>7, <2>1 DEF Waits, Good, Live, HasEvent, Registered
    <2>2. CASE f \notin ready
      <3>1. HasEvent(f) => HasEvent(f)'
        BY <1>7, Zenon DEF Waits, HasEvent
      <3> QED
        BY <1>7, <1>a, <1>c, <2>2, <3>1, Zenon DEF Waits
    <2> QED
      BY <2>1, <2>2, ZenonT(60)
  <1>f. ASSUME NEW e \in batch, Handles(e), e.fd # f PROVE HasEvent(f) => HasEvent(f)'
    BY <1>f, Zenon DEF Handles, HasEvent
  <1>8. ASSUME NEW e \in batch, Ignores(e) PROVE Good(f)
    <2>1. CASE e.fd = f
      <3>1. socket'[f].conn \notin {clientSessions'[f], main'.conn}
        BY <1>0, <1>8, <2>1, Distinct, ZenonT(60) DEF Ignores, Handles, MainShape
      <3>2. ~Registered(f)' => (\E t \in Tasks : Closing(t, f))'
        BY <1>8, <1>e DEF Ignores, Registered, Closing
      <3> QED
        BY <3>1, <3>2, Zenon DEF Good
    <2>2. CASE e.fd # f
      BY <1>8, <1>a, <1>c, <1>f, <2>2, Zenon DEF Ignores
    <2> QED
      BY <2>1, <2>2, Zenon
  <1>9. ASSUME NEW e \in batch, Misses(e) PROVE Good(f)
    <2>1. CASE e.fd = f
      <3>1. Registered(f)' <=> Registered(f)
        BY <1>9, <2>1, Zenon DEF Misses, Registered
      <3>2. Registered(f) => Watched(f)' \/ watch'[f] = "missed"
        BY <1>9, <2>1, ZenonT(60) DEF Misses, Registered, Watched, BaseInv, TypeOK, WatchStates
      <3>3. ~Registered(f) => \E t \in Tasks : Closing(t, f)' /\ Active(t, f)'
        BY <1>9, <1>e DEF Misses, Closing, Active, ActivePcs
      <3> QED
        BY <3>1, <3>2, <3>3, Zenon DEF Good, Live
    <2>2. CASE e.fd # f
      BY <1>9, <1>a, <1>c, <1>f, <2>2, Zenon DEF Misses
    <2> QED
      BY <2>1, <2>2
  <1>10. ASSUME NEW e \in batch, NEW t \in Tasks, Dispatches(e, t) PROVE Good(f)
    <2>1. \A r \in Tasks : (Active(r, f) => Active(r, f)') /\ (Closing(r, f) => Closing(r, f)')
      BY <1>10, PassiveMoves, Zenon DEF Dispatches, ActivePcs
    <2>2. CASE e.fd = f
      <3>1. Active(t, f)'
        BY <1>10, <2>2 DEF Dispatches, Active, ActivePcs
      <3>2. ~Registered(f)' => ~Registered(f)
        BY <1>10, Zenon DEF Dispatches, Registered
      <3>3. ~Registered(f) => (\E r \in Tasks : Closing(r, f))'
        BY <1>10, <1>e, <2>1, Zenon DEF Dispatches
      <3> QED
        BY <3>1, <3>2, <3>3, ZenonT(60) DEF Good, Live
    <2>3. CASE e.fd # f
      BY <1>10, <1>a, <1>f, <2>1, <2>3, Zenon DEF Dispatches
    <2> QED
      BY <2>2, <2>3
  <1>11. CASE Stops
    <2>1. socket'[f].conn \in Refs'
      BY DEF OwnedInv, TcpOwned
    <2>2. /\ main'.conn = NoSession
          /\ \A t \in Tasks : task'[t].session = NoSession
          /\ \A g \in FDs : clientSessions'[g] = NoSession
          /\ \A u \in Users : activeSessions'[u] = NoSession
      BY <1>11, Zenon DEF Stops
    <2>3. socket'[f].conn = NoSession
      BY <2>1, <2>2, RefsAre, Zenon
    <2> QED
      BY <2>3, Distinct, Zenon
  <1>12. ASSUME NEW t \in Tasks, NEW pc \in {"write", "rearm", "del"}, Runs(t, pc) PROVE Good(f)
    <2>1. socket'[f].conn = socket[f].conn /\ watch'[f] = watch[f]
      BY <1>12, <1>b, Zenon DEF Runs, WatchKept
    <2>2. \A r \in Tasks : (Active(r, f) => Active(r, f)') /\ (Closing(r, f) => Closing(r, f)')
      BY <1>12, Zenon DEF Runs, Moves, OthersKept, Active, Closing, ActivePcs
    <2> QED
      BY <1>12, <1>a, <1>d, <2>1, <2>2, Zenon DEF Runs
  <1>13. ASSUME NEW t \in Tasks, Rearms(t) PROVE Good(f)
    <2>1. ~Swept(f, {}) /\ socket'[f].conn = socket[f].conn
      BY <1>13, <1>b, ZenonT(60) DEF Rearms
    <2>2. \A r \in Tasks \ {t} : (Active(r, f) => Active(r, f)') /\ (Closing(r, f) => Closing(r, f)')
      BY <1>13 DEF Rearms, Frees, OthersKept, Active, Closing
    <2>3. ~Closing(t, f)
      BY <1>13, Zenon DEF Rearms, Closing
    <2>4. CASE f = task[t].fd /\ Registered(f)
      BY <1>13, <2>1, <2>4, Zenon DEF Rearms, Good, Live, Watched, Registered
    <2>5. CASE f = task[t].fd /\ ~Registered(f)
      <3>1. watch'[f] = watch[f]
        BY <1>13, <2>1, <2>5, Zenon DEF Rearms
      <3>2. PICK r \in Tasks : Closing(r, f) /\ r # t
        BY <1>e, <2>1, <2>3, <2>5, ZenonT(60)
      <3>3. Closing(r, f)' /\ Active(r, f)'
        BY <2>2, <3>2 DEF Closing, Active, ActivePcs
      <3> QED
        BY <3>3, Zenon DEF Good, Live
    <2>6. CASE f # task[t].fd
      <3>1. ~Active(t, f)
        BY <2>6, Zenon DEF Active
      <3> QED
        BY <1>13, <1>a, <1>d, <2>1, <2>2, <2>3, <2>6, <3>1, ZenonT(60) DEF Rearms
    <2> QED
      BY <2>4, <2>5, <2>6, Zenon
  <1>14. ASSUME NEW t \in Tasks, Unwatches(t) PROVE Good(f)
    <2>1. CASE f = task[t].fd
      <3>1. Closing(t, f)' /\ Active(t, f)'
        BY <1>14, <2>1 DEF Unwatches, Moves, Closing, Active, ActivePcs
      <3> QED
        BY <3>1, Zenon DEF Good, Live
    <2>2. CASE f # task[t].fd
      <3>1. \A r \in Tasks : (Active(r, f) => Active(r, f)') /\ (Closing(r, f) => Closing(r, f)')
        BY <1>14, <2>2 DEF Unwatches, Moves, OthersKept, Active, Closing
      <3> QED
        BY <1>14, <1>a, <1>d, <2>2, <3>1, ZenonT(60) DEF Unwatches
    <2> QED
      BY <2>1, <2>2, Zenon
  <1>15. ASSUME NEW t \in Tasks, Closes(t) PROVE Good(f)
    <2>1. ~Swept(f, {task[t].fd}) /\ socket'[f].conn = socket[f].conn
      BY <1>15, <1>b, Zenon DEF Closes
    <2>2. f # task[t].fd
      BY <2>1, ZenonT(60) DEF Swept
    <2>3. \A r \in Tasks : (Active(r, f) => Active(r, f)') /\ (Closing(r, f) => Closing(r, f)')
      BY <1>15, <2>2, Zenon DEF Closes, Moves, OthersKept, Active, Closing
    <2> QED
      BY <1>15, <1>a, <1>d, <2>1, <2>3, Zenon DEF Closes, WatchKept
  <1>16. ASSUME NEW t \in Tasks, Erases(t) \/ Releases(t) PROVE Good(f)
    <2>1. ~Swept(f, {}) /\ socket'[f].conn = socket[f].conn /\ watch'[f] = watch[f]
      BY <1>16, <1>b, Zenon DEF Erases, Releases, WatchKept
    <2>2. \A r \in Tasks : (Active(r, f) => Active(r, f)') /\ (Closing(r, f) => Closing(r, f)')
      BY <1>16, PassiveMoves, Zenon DEF Erases, Releases, Moves, Frees, ActivePcs
    <2>3. UNCHANGED <<main, batch>> /\ clientSessions'[f] \in {clientSessions[f], NoSession}
      BY <1>16, Zenon DEF Erases, Releases
    <2> QED
      BY <1>a, <1>d, <2>1, <2>2, <2>3, Distinct, Zenon
  <1>17. ASSUME NEW t \in Tasks, GivesUp(t) PROVE Good(f)
    <2>1. \A r \in Tasks : (Active(r, f) => Active(r, f)') /\ (Closing(r, f) => Closing(r, f)')
      BY <1>17, PassiveMoves, Zenon DEF GivesUp, Frees, ActivePcs
    <2>2. UNCHANGED <<socket, clientSessions, main, batch>>
      BY <1>17, Zenon DEF GivesUp
    <2>3. CASE watch'[f] = watch[f]
      BY <1>a, <1>d, <2>1, <2>2, <2>3, Zenon
    <2>4. CASE watch'[f] # watch[f]
      <3>1. ~Registered(f)
        BY <1>17, <2>4, Zenon DEF GivesUp, Registered
      <3>2. PICK r \in Tasks : Closing(r, f)
        BY <1>e, <2>2, <3>1, Zenon
      <3>3. Closing(r, f)' /\ Active(r, f)'
        BY <2>1, <3>2 DEF Closing, Active, ActivePcs
      <3> QED
        BY <3>3, Zenon DEF Good, Live
    <2> QED
      BY <2>3, <2>4
  <1>18. ASSUME NEW t \in Tasks, ReadsAlert(t) \/ ClosesAlert(t) PROVE Good(f)
    <2>1. \A r \in Tasks : (Active(r, f) => Active(r, f)') /\ (Closing(r, f) => Closing(r, f)')
      BY <1>18, PassiveMoves, Zenon DEF ReadsAlert, ClosesAlert, Moves, Frees, ActivePcs
    <2>2. socket'[f].conn = socket[f].conn /\ watch'[f] = watch[f]
      BY <1>18, <1>b, Zenon DEF ReadsAlert, ClosesAlert, KeepsConns, WatchKept
    <2> QED
      BY <1>18, <1>a, <1>d, <2>1, <2>2, Zenon DEF ReadsAlert, ClosesAlert
  <1> QED
    BY <1>3, <1>4, <1>5, <1>6, <1>7, <1>8, <1>9, <1>10, <1>11, <1>12, <1>13, <1>14, <1>15, <1>16, <1>17, <1>18, SMTT(30)
       DEF Kind, MainKind, WorkerKind

-----------------------------------------------------------------------------
(***************************************************************************)
(* The invariants hold in every behaviour.                                 *)
(***************************************************************************)
ConnectionsInv == BaseInv /\ OwnedInv /\ LiveInv

\* What the first state is.
LEMMA InitState ==
  ASSUME Init
  PROVE  /\ \A f \in FDs : socket[f].conn = NoSession /\ watch[f] = "none" /\ clientSessions[f] = NoSession
         /\ \A t \in Tasks : task[t].pc = "free" /\ task[t].session = NoSession
         /\ \A s \in Sessions : session[s].fd = 0 /\ session[s].pending = 0
         /\ main.pc = "loop" /\ main.conn = NoSession /\ batch = {} /\ ended = {}
  BY Zenon DEF Init, Closed, FreeTask, NewSession, Looping

\* The server starts with nothing open.
LEMMA ConnectionsInit == Init => ConnectionsInv
  <1> SUFFICES ASSUME Init PROVE ConnectionsInv
    OBVIOUS
  <1>1. OwnedInv /\ LiveInv
    BY InitState, Distinct, Zenon DEF OwnedInv, TcpOwned, SensorOwned, LiveInv
  <1> QED
    BY <1>1, BaseInit DEF ConnectionsInv

\* And every step keeps all of it.
LEMMA ConnectionsNext == ConnectionsInv /\ [Next]_vars => ConnectionsInv'
  <1> SUFFICES ASSUME ConnectionsInv, [Next]_vars PROVE ConnectionsInv'
    OBVIOUS
  <1>1. BaseInv /\ OwnedInv /\ LiveInv
    BY DEF ConnectionsInv
  <1>2. BaseInv' /\ Kind
    BY <1>1, BaseNext
  <1>3. OwnedInv'
    BY <1>1, <1>2, OwnedNext
  <1>4. LiveInv'
    BY <1>1, <1>2, <1>3, LiveNext
  <1> QED
    BY <1>2, <1>3, <1>4 DEF ConnectionsInv

\* So it always holds.
LEMMA ConnectionsHold == Spec => []ConnectionsInv
  BY ConnectionsInit, ConnectionsNext, PTL DEF Spec

(***************************************************************************)
(* Every open descriptor has an owner: a TCP connection is open only while *)
(* its own session object is referenced, so that ~clientSession will close *)
(* it, and a sensor's only while its task has it, or after a read that     *)
(* came too early.                                                         *)
(***************************************************************************)
THEOREM Owned == Spec => []DescriptorsOwned
  <1>1. ConnectionsInv => DescriptorsOwned
    BY Zenon DEF ConnectionsInv, OwnedInv, TcpOwned, SensorOwned, DescriptorsOwned, Busy, Ipc, IpcPcs
  <1> QED
    BY <1>1, ConnectionsHold, PTL

(***************************************************************************)
(* A connection with its entry in m_clientSessions is watched by epoll, or *)
(* an event or a task is under way for its descriptor, except after a      *)
(* lookup that raced with an erase.                                        *)
(***************************************************************************)
THEOREM Remembered == Spec => []NeverForgotten
  <1>1. ConnectionsInv => NeverForgotten
    BY Zenon DEF ConnectionsInv, LiveInv, Live, HasEvent, Active, ActivePcs, NeverForgotten, Busy
  <1> QED
    BY <1>1, ConnectionsHold, PTL
=============================================================================
