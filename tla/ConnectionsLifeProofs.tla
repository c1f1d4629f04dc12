---------------------- MODULE ConnectionsLifeProofs ----------------------
(***************************************************************************)
(* More about Connections, for every number of sessions, sensors, users,   *)
(* descriptors and places for tasks:                                       *)
(*   - a live connection suffers only from one that shares its number      *)
(*     (Kept);                                                             *)
(*   - two tasks run one session only after a deferred reply, or if three  *)
(*     sessions share its number (OneWorker).                              *)
(***************************************************************************)
EXTENDS ConnectionsProofs

(***************************************************************************)
(* A session that has not ended and shares its number with nobody keeps    *)
(* its descriptor and its entry.  A number that no session had has at most *)
(* one sensor's task, so an accept that makes it a session's finds none.   *)
(***************************************************************************)
Leaving(t) == task[t].pc \in {"erase", "release"}

EndedInv ==
    /\ \A t \in Tasks : task[t].pc \in {"del", "close"} \/ Leaving(t) => task[t].session \in ended
    /\ \A s \in ended : session[s].fd # 0

OnlyMain ==
    main.conn \in Sessions =>
        /\ \A f \in FDs : clientSessions[f] # main.conn
        /\ \A t \in Tasks : task[t].session # main.conn
        /\ \A u \in Users : activeSessions[u] # main.conn

Uses(s, f) == session[s].fd = f
Alone(s, f) == \A r \in Sessions : Uses(r, f) => r = s
Undisturbed(s, f) == Uses(s, f) /\ main.pc # "stopped" /\ s \notin ended /\ Alone(s, f)

KeptAt(s, f) ==
    /\ socket[f].conn = s
    /\ main.conn # s => clientSessions[f] = s
    /\ \A t \in Tasks : ~Ipc(t, f)

UnusedAt(f) ==
    /\ \A t \in Tasks : Ipc(t, f) => socket[f].conn \in Sensors
    /\ \A t, r \in Tasks : Ipc(t, f) /\ Ipc(r, f) => t = r

KeptInv ==
    /\ \A s \in Sessions, f \in FDs : Undisturbed(s, f) => KeptAt(s, f)
    /\ \A f \in FDs : (\A s \in Sessions : ~Uses(s, f)) => UnusedAt(f)

LifeInv == EndedInv /\ OnlyMain /\ KeptInv

\* A task that leaves, or that has seen the end, knows that its session ended.
LEMMA EndedNext ==
  ASSUME BaseInv, EndedInv, Kind
  PROVE  EndedInv'
  <1>0. TaskShape /\ MainShape /\ Numbers /\ \A t \in Tasks : task[t].pc \in TcpPcs => session[task[t].session].fd # 0
    <2>1. ASSUME NEW t \in Tasks, task[t].pc \in TcpPcs PROVE session[task[t].session].fd # 0
      BY <2>1, TcpTask, Distinct, Zenon
    <2> QED
      BY <2>1, Zenon DEF BaseInv, Shapes
  <1>1. \A s \in Sessions : session[s].fd # 0 => session'[s].fd = session[s].fd
    BY AcceptsBase, WorkerFrame, ZenonT(60) DEF Kind, MainKind, Outside, Accepts, Stores, AcceptsUnix, Waits, Ignores, Misses, Dispatches,
       Stops, WorkerChanges, KeepsNumbers
  <1>2. ASSUME ended' = ended PROVE \A s \in ended' : session'[s].fd # 0
    BY <1>1, <1>2, Zenon DEF EndedInv, BaseInv, TypeOK
  <1>3. ASSUME NEW s \in Sessions, ended' = ended \cup {s}, session[s].fd # 0 PROVE \A r \in ended' : session'[r].fd # 0
    BY <1>1, <1>3 DEF EndedInv, BaseInv, TypeOK
  <1>4. \A s \in ended' : session'[s].fd # 0
    <2>1. \/ ended' = ended
          \/ \E s \in Sessions : session[s].fd # 0 /\ ended' = ended \cup {s}
      <3>1. ASSUME NEW lost \in BOOLEAN, Stores(lost)
            PROVE  ended' = ended \/ \E s \in Sessions : session[s].fd # 0 /\ ended' = ended \cup {s}
        BY <1>0, <3>1, Distinct, Zenon DEF Stores, MainShape, Numbers
      <3>2. ASSUME NEW t \in Tasks, NEW pc \in {"write", "rearm", "del"}, Runs(t, pc)
            PROVE  ended' = ended \/ \E s \in Sessions : session[s].fd # 0 /\ ended' = ended \cup {s}
        <4>1. task[t].session \in Sessions /\ session[task[t].session].fd # 0
          BY <1>0, <3>2, Zenon DEF Runs, TaskShape, TcpPcs
        <4> QED
          BY <3>2, <4>1, Zenon DEF Runs
      <3> QED
        BY <3>1, <3>2, ZenonT(60) DEF Kind, MainKind, WorkerKind, Outside, Accepts, AcceptsUnix, Waits, Ignores, Misses, Dispatches, Stops,
           Rearms, Unwatches, Closes, Erases, Releases, GivesUp, ReadsAlert, ClosesAlert
    <2> QED
      BY <1>2, <1>3, <2>1, Zenon
  <1>5. ASSUME NEW t \in Tasks, task'[t].pc \in {"del", "close", "erase", "release"} PROVE task'[t].session \in ended'
    <2>1. \A s \in ended : s \in ended'
      BY WorkerFrame, Zenon DEF Kind, MainKind, Outside, Accepts, Stores, AcceptsUnix, Waits, Ignores, Misses, Dispatches, Stops,
         WorkerChanges
    <2>2. CASE task'[t].pc = task[t].pc /\ task'[t].session = task[t].session
      BY <1>5, <2>1, <2>2 DEF EndedInv, Leaving
    <2>3. CASE \E pc \in {"write", "rearm", "del"} : Runs(t, pc)
      BY <1>5, <2>3 DEF Runs, Moves
    <2>4. CASE Unwatches(t) \/ Closes(t) \/ Erases(t)
      BY <2>1, <2>4, Zenon DEF Unwatches, Closes, Erases, Moves, EndedInv, Leaving
    <2>5. CASE Outside \/ MainKind \/ Stops
      BY <1>5, <2>2, <2>5, ZenonT(60) DEF Outside, MainKind, Accepts, Stores, AcceptsUnix, Waits, Ignores, Misses, Dispatches, Stops, OthersKept
    <2>6. ASSUME NEW r \in Tasks, r # t, WorkerKind(r) PROVE task'[t].session \in ended'
      BY <2>2, <2>6, WorkerFrame, Zenon DEF WorkerChanges, OthersKept
    <2>7. CASE WorkerKind(t)
      BY <1>5, <2>3, <2>4, <2>7, Zenon DEF WorkerKind, Rearms, Releases, GivesUp, ReadsAlert, ClosesAlert, Moves, Frees
    <2> QED
      BY <2>5, <2>6, <2>7 DEF Kind
  <1> QED
    BY <1>4, <1>5 DEF EndedInv, Leaving

\* While the main thread stores a session nobody else has it.
LEMMA OnlyMainNext ==
  ASSUME BaseInv, OnlyMain, Kind
  PROVE  OnlyMain'
  <1>0. TaskShape /\ MainShape /\ Numbers
    BY DEF BaseInv, Shapes
  <1>1. ASSUME NEW s \in Sessions, NEW f \in FDs, Accepts(s, f) PROVE OnlyMain'
    <2>1. session[s].fd = 0
      BY <1>1, AcceptsBase
    <2>2. \A g \in FDs : clientSessions[g] # s
      BY <1>0, <2>1, Distinct DEF Numbers
    <2>3. \A t \in Tasks : task[t].session # s
      <3>1. \A t \in Tasks : task[t].session \in Sessions => task[t].fd \in FDs
        BY <1>0, Distinct DEF BaseInv, TypeOK, TaskStates, TaskShape
      <3> QED
        BY <1>0, <2>1, <3>1, Distinct DEF Numbers
    <2>4. \A u \in Users : activeSessions[u] # s
      BY <1>0, <2>1, Zenon DEF Numbers
    <2> QED
      BY <1>1, <2>2, <2>3, <2>4, ZenonT(60) DEF Accepts, OnlyMain
  <1>2. ASSUME NEW t \in Tasks, WorkerKind(t) PROVE OnlyMain'
    <2>1. /\ UNCHANGED main /\ \A f \in FDs : clientSessions'[f] \in {clientSessions[f], NoSession}
          /\ \A r \in Tasks : task'[r].session \in {task[r].session, NoSession}
          /\ \A u \in Users : activeSessions'[u] \in {activeSessions[u], NoSession, task[t].session}
      BY <1>2, WorkerFrame DEF WorkerChanges, Moves, Frees, OthersKept
    <2> QED
      BY <2>1, Distinct, ZenonT(60) DEF OnlyMain
  <1>3. CASE Outside
    BY <1>3 DEF Outside, OnlyMain
  <1>4. CASE main'.conn = NoSession
    BY <1>4, Distinct DEF OnlyMain
  <1>5. CASE main' = main /\ main.pc = "loop"
    BY <1>0, <1>4, <1>5 DEF MainShape
  <1> QED
    BY <1>1, <1>2, <1>3, <1>4, <1>5, Zenon DEF Kind, MainKind, Stores, AcceptsUnix, Waits, Ignores, Misses, Dispatches, Handles, Stops

\* An undisturbed session is not swept.
LEMMA UndisturbedKept ==
  ASSUME NEW s \in Sessions, NEW f \in FDs, Undisturbed(s, f), KeptAt(s, f),
         NEW closing, Sweeps(closing), f \notin closing, s \in Refs'
  PROVE  socket'[f].conn = s
  <1>1. ~Swept(f, closing)
    BY DEF Swept, Dies, Undisturbed, Alone, Uses
  <1> QED
    BY <1>1, Zenon DEF Sweeps, KeptAt

\* Who works on the number of an undisturbed session works for it, and has not
\* seen its end.
LEMMA UndisturbedTasks ==
  ASSUME BaseInv, EndedInv, NEW s \in Sessions, NEW f \in FDs, Undisturbed(s, f),
         NEW t \in Tasks, task[t].fd = f, task[t].pc \in TcpPcs
  PROVE  task[t].session = s /\ task[t].pc \in {"run", "write", "rearm"}
  <1>1. task[t].session = s
    BY TcpTask DEF Undisturbed, Alone, Uses
  <1>2. task[t].pc \notin {"del", "close"} /\ ~Leaving(t)
    BY <1>1 DEF EndedInv, Undisturbed
  <1> QED
    BY <1>1, <1>2 DEF TcpPcs, Leaving

\* An undisturbed session was so before, unless it was just accepted.
LEMMA UndisturbedBefore ==
  ASSUME KeepsNumbers, \A s \in ended : s \in ended', main.pc = "stopped" => main'.pc = "stopped",
         NEW s \in Sessions, NEW f \in FDs, Undisturbed(s, f)'
  PROVE  Undisturbed(s, f)
  BY DEF Undisturbed, KeepsNumbers, Alone, Uses

\* What a worker does to an undisturbed session, and to an unused number.
LEMMA WorkerKept ==
  ASSUME BaseInv, LifeInv, NEW t \in Tasks, WorkerKind(t)
  PROVE  KeptInv'
  <1>0. UNCHANGED main /\ KeepsNumbers /\ OthersKept(t) /\ \A s \in ended : s \in ended'
    BY WorkerFrame, Zenon DEF WorkerChanges
  <1>1. \A r \in Tasks, f \in FDs : Ipc(r, f)' => Ipc(r, f)
    BY WorkerFrame DEF WorkerChanges, Moves, Frees, OthersKept, Ipc, IpcPcs, TcpPcs
  <1>2. PICK closing \in {{}, {task[t].fd}} :
            /\ Sweeps(closing) \/ (KeepsConns /\ closing = {})
            /\ closing # {} => Closes(t) \/ ClosesAlert(t)
    BY Zenon DEF WorkerKind, Runs, Rearms, Unwatches, Closes, Erases, Releases, GivesUp, ReadsAlert, ClosesAlert, KeepsConns
  <1>3. \A f \in FDs : clientSessions'[f] = clientSessions[f] \/ (Erases(t) /\ f = task[t].fd)
    BY Zenon DEF WorkerKind, Runs, Rearms, Unwatches, Closes, Erases, Releases, GivesUp, ReadsAlert, ClosesAlert
  <1>4. ASSUME NEW s \in Sessions, NEW f \in FDs, Undisturbed(s, f)' PROVE KeptAt(s, f)'
    <2>1. Undisturbed(s, f) /\ KeptAt(s, f)
      BY <1>0, <1>4, UndisturbedBefore DEF LifeInv, KeptInv
    <2>2. ~(Erases(t) /\ f = task[t].fd) /\ ~(Closes(t) /\ f = task[t].fd)
      <3>1. ASSUME Erases(t) \/ Closes(t), f = task[t].fd PROVE FALSE
        <4>1. task[t].pc \in {"erase", "close"} /\ task[t].pc \in TcpPcs
          BY <3>1, Zenon DEF Erases, Closes, TcpPcs
        <4>2. task[t].pc \in {"run", "write", "rearm"}
          BY <2>1, <3>1, <4>1, UndisturbedTasks, SMTT(30) DEF LifeInv
        <4> QED
          BY <4>1, <4>2
      <3> QED
        BY <3>1
    <2>3. ~(ClosesAlert(t) /\ f = task[t].fd)
      BY <2>1 DEF KeptAt, Ipc, ClosesAlert, IpcPcs
    <2>4. clientSessions'[f] = clientSessions[f]
      BY <1>3, <2>2
    <2>5. s \in Refs'
      BY <1>0, <2>1, <2>4, RefsAre, Zenon DEF KeptAt
    <2>6. f \notin closing
      BY <1>2, <2>2, <2>3
    <2>7. socket'[f].conn = s
      BY <1>2, <2>1, <2>5, <2>6, UndisturbedKept, Zenon DEF KeepsConns, KeptAt
    <2> QED
      BY <1>0, <1>1, <2>1, <2>4, <2>7, Zenon DEF KeptAt
  <1>5. ASSUME NEW f \in FDs, \A s \in Sessions : ~Uses(s, f)' PROVE UnusedAt(f)'
    <2>1. (\A s \in Sessions : ~Uses(s, f)) /\ UnusedAt(f)
      BY <1>0, <1>5 DEF LifeInv, KeptInv, KeepsNumbers, Uses
    <2>2. CASE ClosesAlert(t) /\ task[t].fd = f
      <3>1. Ipc(t, f) /\ ~Ipc(t, f)'
        BY <2>2 DEF ClosesAlert, Ipc, IpcPcs, Frees
      <3>2. \A r \in Tasks : ~Ipc(r, f)'
        BY <1>1, <2>1, <3>1 DEF UnusedAt
      <3> QED
        BY <3>2 DEF UnusedAt
    <2>3. CASE ~(ClosesAlert(t) /\ task[t].fd = f)
      <3>1. ~(Closes(t) /\ task[t].fd = f)
        BY <2>1, TcpTask, Zenon DEF Closes, Uses, TcpPcs
      <3>2. f \notin closing
        BY <1>2, <2>3, <3>1
      <3>3. socket'[f].conn = socket[f].conn
        BY <1>2, <2>1, <3>2, Zenon DEF Sweeps, Swept, KeepsConns, Uses
      <3> QED
        BY <1>1, <2>1, <3>3 DEF UnusedAt
    <2> QED
      BY <2>2, <2>3
  <1> QED
    BY <1>4, <1>5 DEF KeptInv

\* accept() takes a number that nobody has, or one that another session had.
LEMMA AcceptsKept ==
  ASSUME BaseInv, LifeInv, NEW s \in Sessions, NEW f \in FDs, Accepts(s, f)
  PROVE  KeptInv'
  <1>0. session[s].fd = 0 /\ main.conn = NoSession /\ main.pc = "loop"
    BY AcceptsBase DEF BaseInv, Shapes, MainShape, Accepts
  <1>1. \A r \in Sessions, g \in FDs : r # s => (Uses(r, g)' <=> Uses(r, g))
    BY Zenon DEF Accepts, Uses
  <1>2. \A r \in Tasks, g \in FDs : Ipc(r, g)' <=> Ipc(r, g)
    BY Zenon DEF Accepts, Ipc
  <1>3. ASSUME NEW r \in Sessions, NEW g \in FDs, Undisturbed(r, g)' PROVE KeptAt(r, g)'
    <2>1. CASE r = s
      <3>1. g = f
        BY <1>3, <2>1, Zenon DEF Undisturbed, Uses, Accepts
      <3>2. \A q \in Sessions : ~Uses(q, f)
        BY <1>0, <1>1, <1>3, <2>1, <3>1, Distinct, Zenon DEF Undisturbed, Alone, Uses
      <3>3. \A t \in Tasks : ~Ipc(t, f)
        BY <3>2, Distinct, Zenon DEF LifeInv, KeptInv, UnusedAt, Accepts
      <3> QED
        BY <1>2, <2>1, <3>1, <3>3, Zenon DEF KeptAt, Accepts
    <2>2. CASE r # s
      <3>1. Undisturbed(r, g)
        BY <1>0, <1>1, <1>3, <2>2, Distinct, Zenon DEF Undisturbed, Alone, Accepts, Uses
      <3>2. KeptAt(r, g)
        BY <3>1 DEF LifeInv, KeptInv
      <3>3. g # f
        BY <3>2, Distinct, Zenon DEF KeptAt, Accepts
      <3> QED
        BY <1>0, <1>2, <3>2, <3>3, Distinct, ZenonT(60) DEF KeptAt, Accepts
    <2> QED
      BY <2>1, <2>2
  <1>4. ASSUME NEW g \in FDs, \A r \in Sessions : ~Uses(r, g)' PROVE UnusedAt(g)'
    <2>1. g # f
      BY <1>4, Zenon DEF Uses, Accepts
    <2>2. \A r \in Sessions : ~Uses(r, g)
      BY <1>0, <1>1, <1>4, Distinct DEF Uses
    <2>3. UnusedAt(g) /\ socket'[g].conn = socket[g].conn
      BY <2>1, <2>2, Zenon DEF LifeInv, KeptInv, Accepts
    <2> QED
      BY <1>2, <2>3, Zenon DEF UnusedAt
  <1> QED
    BY <1>3, <1>4, SMTT(30) DEF KeptInv

\* The entry is stored, or lost in a race that ends the session.
LEMMA StoresKept ==
  ASSUME BaseInv, LifeInv, NEW lost \in BOOLEAN, Stores(lost)
  PROVE  KeptInv'
  <1>0. main.conn \in Sessions /\ main.fd \in FDs /\ session[main.conn].fd = main.fd
    BY Zenon DEF BaseInv, Shapes, MainShape, Numbers, Stores
  <1>1. \A r \in Tasks, g \in FDs : Ipc(r, g)' <=> Ipc(r, g)
    BY DEF Stores, Ipc
  <1>2. ASSUME NEW s \in Sessions, NEW f \in FDs, Undisturbed(s, f)' PROVE KeptAt(s, f)'
    <2>1. Undisturbed(s, f)
      BY <1>2, UndisturbedBefore, Zenon DEF Stores
    <2>2. KeptAt(s, f)
      BY <2>1 DEF LifeInv, KeptInv
    <2>3. clientSessions'[f] = s
      <3>1. CASE main.conn = s
        <4>1. s \notin ended' /\ main.fd = f
          BY <1>0, <1>2, <2>1, <3>1 DEF Undisturbed, Uses
        <4> QED
          BY <3>1, <4>1, Zenon DEF Stores
      <3>2. CASE main.conn # s
        <4>1. main.fd # f
          BY <1>0, <2>1, <3>2 DEF Undisturbed, Alone, Uses
        <4> QED
          BY <2>2, <3>2, <4>1, Zenon DEF Stores, KeptAt
      <3> QED
        BY <3>1, <3>2
    <2>4. socket'[f].conn = s
      BY <2>1, <2>2, <2>3, UndisturbedKept, RefsAre, Zenon DEF Stores
    <2> QED
      BY <1>1, <2>2, <2>3, <2>4 DEF KeptAt
  <1>3. ASSUME NEW f \in FDs, \A s \in Sessions : ~Uses(s, f)' PROVE UnusedAt(f)'
    <2>1. (\A s \in Sessions : ~Uses(s, f)) /\ UnusedAt(f)
      BY <1>3, Zenon DEF LifeInv, KeptInv, Stores, KeepsNumbers, Uses
    <2>2. socket'[f].conn = socket[f].conn
      BY <2>1 DEF Stores, Sweeps, Swept, Uses
    <2> QED
      BY <1>1, <2>1, <2>2, Zenon DEF UnusedAt
  <1> QED
    BY <1>2, <1>3 DEF KeptInv

\* A sensor gets a number that is closed.
LEMMA AcceptsUnixKept ==
  ASSUME BaseInv, LifeInv, NEW c \in Sensors, NEW t \in Tasks, NEW f \in FDs, AcceptsUnix(c, t, f)
  PROVE  KeptInv'
  <1>1. \A r \in Tasks, g \in FDs : Ipc(r, g)' => Ipc(r, g) \/ (r = t /\ g = f)
    BY DEF AcceptsUnix, Ipc, OthersKept
  <1>2. ASSUME NEW s \in Sessions, NEW g \in FDs, Undisturbed(s, g)' PROVE KeptAt(s, g)'
    <2>1. Undisturbed(s, g)
      BY <1>2, UndisturbedBefore, Zenon DEF AcceptsUnix, KeepsNumbers
    <2>2. KeptAt(s, g)
      BY <2>1 DEF LifeInv, KeptInv
    <2>3. g # f
      BY <2>2, Distinct, Zenon DEF KeptAt, AcceptsUnix
    <2> QED
      BY <1>1, <2>2, <2>3, Zenon DEF KeptAt, AcceptsUnix
  <1>3. ASSUME NEW g \in FDs, \A s \in Sessions : ~Uses(s, g)' PROVE UnusedAt(g)'
    <2>1. UnusedAt(g)
      BY <1>3 DEF LifeInv, KeptInv, AcceptsUnix, Uses
    <2>2. CASE g = f
      <3>1. \A r \in Tasks : ~Ipc(r, g)
        BY <2>1, <2>2, Distinct DEF UnusedAt, AcceptsUnix
      <3> QED
        BY <1>1, <2>2, <3>1, Zenon DEF UnusedAt, AcceptsUnix
    <2>3. CASE g # f
      BY <1>1, <2>1, <2>3, Zenon DEF UnusedAt, AcceptsUnix
    <2> QED
      BY <2>2, <2>3
  <1> QED
    BY <1>2, <1>3 DEF KeptInv

\* Events and peers do not touch sockets, and change only an entry without a
\* session.
LEMMA EventKept ==
  ASSUME BaseInv, LifeInv, KeepsConns, UNCHANGED <<main, ended>>, KeepsNumbers,
         \A f \in FDs : clientSessions[f] \in Sessions => clientSessions'[f] = clientSessions[f],
         \A r \in Tasks, f \in FDs : Ipc(r, f)' => Ipc(r, f)
  PROVE  KeptInv'
  <1>1. ASSUME NEW s \in Sessions, NEW f \in FDs, Undisturbed(s, f)' PROVE KeptAt(s, f)'
    <2>1. Undisturbed(s, f)
      BY <1>1, UndisturbedBefore
    <2> QED
      BY <2>1, Zenon DEF LifeInv, KeptInv, KeptAt, KeepsConns
  <1>2. ASSUME NEW f \in FDs, \A s \in Sessions : ~Uses(s, f)' PROVE UnusedAt(f)'
    BY <1>2, Zenon DEF LifeInv, KeptInv, KeepsNumbers, Uses, UnusedAt, KeepsConns
  <1> QED
    BY <1>1, <1>2, Zenon DEF KeptInv

\* Nothing is undisturbed in a stopped server, and no task is left.
LEMMA StopsKept == ASSUME Stops PROVE KeptInv'
  <1>1. \A s \in Sessions, f \in FDs : ~Undisturbed(s, f)'
    BY Zenon DEF Stops, Undisturbed
  <1>2. \A t \in Tasks, f \in FDs : ~Ipc(t, f)'
    BY Zenon DEF Stops, Ipc, IpcPcs
  <1> QED
    BY <1>1, <1>2 DEF KeptInv, UnusedAt

\* All of it is inductive.
LEMMA LifeNext == ASSUME BaseInv, LifeInv, Kind PROVE LifeInv'
  <1>1. EndedInv' /\ OnlyMain'
    BY EndedNext, OnlyMainNext DEF LifeInv
  <1>2. CASE \/ Outside
             \/ \E ready \in SUBSET FDs : Waits(ready)
             \/ \E e \in batch : Ignores(e) \/ Misses(e)
             \/ \E e \in batch, t \in Tasks : Dispatches(e, t)
    <2>1. KeepsConns /\ UNCHANGED <<main, ended>> /\ KeepsNumbers
      BY <1>2, Zenon DEF Outside, Waits, Ignores, Misses, Dispatches, KeepsConns, KeepsNumbers
    <2>2. \A f \in FDs : clientSessions[f] \in Sessions => clientSessions'[f] = clientSessions[f]
      BY <1>2, Zenon DEF Outside, Waits, Ignores, Misses, Dispatches
    <2>3. \A r \in Tasks, f \in FDs : Ipc(r, f)' => Ipc(r, f)
      BY <1>2, ZenonT(60) DEF Outside, Waits, Ignores, Misses, Dispatches, Ipc, IpcPcs, OthersKept
    <2> QED
      BY <1>1, <2>1, <2>2, <2>3, EventKept, SMTT(30) DEF LifeInv
  <1>3. KeptInv'
    BY <1>2, AcceptsKept, StoresKept, AcceptsUnixKept, WorkerKept, StopsKept DEF Kind, MainKind, LifeInv
  <1> QED
    BY <1>1, <1>3 DEF LifeInv

-----------------------------------------------------------------------------
(***************************************************************************)
(* Without deferred replies every registration is a oneshot, and of the    *)
(* registration, the event and the active task of a number there is at     *)
(* most one: a token that goes around.  It cannot be doubled by a close    *)
(* before the number has had three sessions, because only an accept makes  *)
(* a new one, and accept() finds a token on a closed number only if two    *)
(* sessions had it.                                                        *)
(***************************************************************************)
Crowded(f) ==
    \E q, r, s \in Sessions : q # r /\ q # s /\ r # s /\ Uses(q, f) /\ Uses(r, f) /\ Uses(s, f)
AtMostOne(f) == \A q, r \in Sessions : Uses(q, f) /\ Uses(r, f) => q = r
Token(f) == Watched(f) \/ HasEvent(f) \/ \E t \in Tasks : Active(t, f)
Accepting(f) == main.pc = "accept" /\ main.fd = f
LeavingAt(t, f) == Leaving(t) /\ task[t].fd = f

OneshotInv ==
    /\ \A s \in Sessions : session[s].pending = 0
    /\ \A f \in FDs : watch[f] \notin {"inout", "level"}
    /\ \A e \in batch : ~e.out

OneToken(f) ==
    /\ ~(Watched(f) /\ HasEvent(f))
    /\ Watched(f) \/ HasEvent(f) => \A t \in Tasks : ~Active(t, f)
    /\ \A t, r \in Tasks : Active(t, f) /\ Active(r, f) => t = r

\* An event finds a session that no task is leaving.
EntryFresh(f) ==
    /\ Token(f) /\ ~Accepting(f) => \A t \in Tasks : LeavingAt(t, f) => clientSessions[f] # task[t].session
    /\ Accepting(f) => ~HasEvent(f)

OneTask(f) ==
    \A t, r \in Tasks : t # r /\ task[t].session \in Sessions /\ task[t].fd = f => task[t].session # task[r].session

\* A number that one session had: once closed it has no token.
OneUser(f) ==
    /\ socket[f].conn = NoSession => ~Token(f)
    /\ \A t \in Tasks : Ipc(t, f) \/ LeavingAt(t, f) => ~Token(f)
    /\ \A q \in ended : Uses(q, f) =>
         ~Watched(f) /\ ~HasEvent(f) /\ \A t \in Tasks : Active(t, f) => task[t].pc \in {"del", "close"}

NumberInv(f) ==
    /\ ~Crowded(f) => OneToken(f) /\ EntryFresh(f) /\ OneTask(f)
    /\ main.pc # "stopped" /\ AtMostOne(f) => OneUser(f)

TokenInv == deferred = 0 => OneshotInv /\ \A f \in FDs : NumberInv(f)

\* A step that makes no token.
Fewer(f) ==
    /\ Watched(f)' => Watched(f)
    /\ HasEvent(f)' => HasEvent(f)
    /\ \A t \in Tasks : Active(t, f)' => Active(t, f)

\* How crowded a number is depends on the numbers of the sessions only.
LEMMA SameCrowd ==
  ASSUME KeepsNumbers, NEW f \in FDs
  PROVE  /\ Crowded(f)' <=> Crowded(f)
         /\ AtMostOne(f)' <=> AtMostOne(f)
         /\ \A s \in Sessions : Uses(s, f)' <=> Uses(s, f)
  <1>1. \A s \in Sessions : Uses(s, f)' <=> Uses(s, f)
    BY DEF KeepsNumbers, Uses
  <1> QED
    BY <1>1 DEF Crowded, AtMostOne

\* One user is no crowd.
LEMMA OneIsNoCrowd == ASSUME NEW f \in FDs, AtMostOne(f) PROVE ~Crowded(f)
  BY DEF AtMostOne, Crowded

\* Where no token is made there is still at most one.
LEMMA FewerOneToken == ASSUME NEW f \in FDs, Fewer(f), OneToken(f) PROVE OneToken(f)'
  BY DEF Fewer, OneToken

\* And the number stays without one.
LEMMA FewerToken == ASSUME NEW f \in FDs, Fewer(f), Token(f)' PROVE Token(f)
  BY DEF Fewer, Token

\* A destructor that closes the number of the only session that had it leaves
\* no token behind: the session had ended.
LEMMA DeathQuiet ==
  ASSUME BaseInv, BaseInv', KeptInv', NEW f \in FDs, AtMostOne(f), OneUser(f), EntryFresh(f), Fewer(f),
         main'.pc # "stopped", KeepsNumbers, NEW closing, Sweeps(closing), f \notin closing,
         socket'[f].conn = NoSession,
         \A q \in ended' : q \in ended \/ q \in Refs' \/ (main.pc = "accept" /\ q = main.conn)
  PROVE  ~Token(f)'
  <1>1. CASE ~Swept(f, closing)
    BY <1>1, FewerToken, Zenon DEF Sweeps, OneUser
  <1>2. CASE Swept(f, closing)
    <2>1. PICK q \in Sessions : Dies(q) /\ Uses(q, f)
      BY <1>2, Zenon DEF Swept, Uses
    <2>2. ASSUME NEW t \in Tasks, Active(t, f)' PROVE FALSE
      <3>1. task'[t].session \in Sessions /\ session'[task'[t].session].fd = f
        BY <2>2, Zenon DEF BaseInv, Shapes, TaskShape, Numbers, Active, ActivePcs, TcpPcs
      <3>2. task'[t].session = q
        BY <2>1, <3>1, Zenon DEF KeepsNumbers, AtMostOne, Uses
      <3> QED
        BY <2>1, <3>2, RefsAre, Zenon DEF Dies
    <2>3. q \in ended'
      <3>1. Uses(q, f)' /\ Alone(q, f)'
        BY <2>1, SameCrowd DEF AtMostOne, Alone
      <3>2. ~KeptAt(q, f)'
        BY Distinct, Zenon DEF KeptAt
      <3> QED
        BY <3>1, <3>2, Zenon DEF KeptInv, Undisturbed
    <2>4. ~HasEvent(f)
      <3>1. CASE q \in ended
        BY <2>1, <3>1, Zenon DEF OneUser
      <3>2. CASE main.pc = "accept" /\ q = main.conn
        <4>1. Accepting(f)
          BY <2>1, <3>2, Zenon DEF BaseInv, Numbers, Uses, Accepting
        <4> QED
          BY <4>1, Zenon DEF EntryFresh
      <3> QED
        BY <2>1, <2>3, <3>1, <3>2, SMTT(30) DEF Dies
    <2>5. ~Watched(f)'
      BY <1>2, Zenon DEF Sweeps, Watched
    <2> QED
      BY <2>2, <2>4, <2>5 DEF Token, Fewer
  <1> QED
    BY <1>1, <1>2

\* The token of a number: what a worker does to it.
LEMMA WorkerFewer ==
  ASSUME BaseInv, NEW t \in Tasks, WorkerKind(t), NEW f \in FDs
  PROVE  Fewer(f) \/ (Rearms(t) /\ task[t].fd = f)
  <1>1. HasEvent(f)' => HasEvent(f)
    BY WorkerFrame, Zenon DEF WorkerChanges, HasEvent
  <1>2. \A r \in Tasks : Active(r, f)' => Active(r, f)
    BY Zenon DEF WorkerKind, Runs, Rearms, Unwatches, Closes, Erases, Releases, GivesUp, ReadsAlert, ClosesAlert, Moves, Frees,
       OthersKept, Active, ActivePcs
  <1>3. ASSUME NEW closing, Sweeps(closing), WatchKept(closing) PROVE Watched(f)' => Watched(f)
    BY <1>3 DEF Sweeps, WatchKept, Watched
  <1>4. CASE Rearms(t) /\ task[t].fd # f
    BY <1>1, <1>2, <1>4, Zenon DEF Rearms, Sweeps, Watched, Fewer
  <1>5. CASE Unwatches(t) \/ GivesUp(t) \/ ReadsAlert(t)
    BY <1>1, <1>2, <1>5, Zenon DEF Unwatches, GivesUp, ReadsAlert, Watched, Fewer
  <1> QED
    BY <1>1, <1>2, <1>3, <1>4, <1>5, ZenonT(60) DEF WorkerKind, Fewer, Runs, Closes, Erases, Releases, ClosesAlert

\* A task that re-arms or closes the number has its only token.
LEMMA SoleToken ==
  ASSUME NEW f \in FDs, OneToken(f), NEW t \in Tasks, Active(t, f)
  PROVE  ~Watched(f) /\ ~HasEvent(f) /\ \A r \in Tasks : Active(r, f) => r = t
  BY DEF OneToken

\* So the number has none after it was closed.
LEMMA ClosesToken ==
  ASSUME BaseInv, NEW t \in Tasks, Closes(t), NEW f \in FDs, f = task[t].fd, OneToken(f)
  PROVE  ~Token(f)'
  <1>1. Active(t, f) /\ ~Active(t, f)'
    BY Zenon DEF Closes, Active, ActivePcs, Moves
  <1>2. Fewer(f)
    BY WorkerFewer, Zenon DEF WorkerKind, Closes, Rearms
  <1> QED
    BY <1>1, <1>2, SoleToken DEF Token, Fewer

\* And at most one, with epoll, after it was re-armed.
LEMMA RearmsToken ==
  ASSUME NEW t \in Tasks, Rearms(t), NEW f \in FDs, f = task[t].fd, OneToken(f)
  PROVE  Token(f) /\ ~HasEvent(f)' /\ \A r \in Tasks : ~Active(r, f)'
  <1>1. Active(t, f) /\ ~Active(t, f)'
    BY Zenon DEF Rearms, Active, ActivePcs, Frees
  <1>2. \A r \in Tasks : Active(r, f)' => Active(r, f)
    BY Zenon DEF Rearms, Active, ActivePcs, Frees, OthersKept
  <1> QED
    BY <1>1, <1>2, SoleToken, Zenon DEF Token, Rearms, HasEvent

\* A worker keeps what holds of a number that is not crowded.
LEMMA WorkerUncrowded ==
  ASSUME BaseInv, NEW t \in Tasks, WorkerKind(t), NEW f \in FDs,
         OneToken(f), EntryFresh(f), OneTask(f)
  PROVE  OneToken(f)' /\ EntryFresh(f)' /\ OneTask(f)'
  <1>1. OneToken(f)'
    BY WorkerFewer, FewerOneToken, RearmsToken DEF OneToken
  <1>2. Token(f)' => Token(f)
    BY WorkerFewer, FewerToken, RearmsToken
  <1>3. ASSUME NEW r \in Tasks, LeavingAt(r, f)'
        PROVE  /\ task'[r].session = task[r].session /\ task[r].session \in Sessions
               /\ LeavingAt(r, f) \/ (r = t /\ Closes(t) /\ task[t].fd = f)
    <2>1. task'[r].session = task[r].session /\ task[r].pc \in TcpPcs
               /\ (LeavingAt(r, f) \/ (r = t /\ Closes(t) /\ task[t].fd = f))
      BY <1>3, Zenon DEF WorkerKind, Runs, Rearms, Unwatches, Closes, Erases, Releases, GivesUp, ReadsAlert, ClosesAlert, Moves, Frees,
         OthersKept, LeavingAt, Leaving, TcpPcs
    <2> QED
      BY <2>1, TcpTask, Zenon
  <1>4. UNCHANGED <<main, batch>> /\ clientSessions'[f] \in {clientSessions[f], NoSession}
    BY WorkerFrame, Zenon DEF WorkerChanges
  <1>5. EntryFresh(f)'
    BY <1>2, <1>3, <1>4, ClosesToken, Distinct, Zenon DEF EntryFresh, Accepting, HasEvent
  <1>6. OneTask(f)'
    <2>1. \A r \in Tasks : task'[r].session \in Sessions => task'[r].session = task[r].session /\ task'[r].fd = task[r].fd
      BY WorkerFrame, Distinct, Zenon DEF WorkerChanges, Moves, Frees, OthersKept
    <2> QED
      BY <2>1 DEF OneTask
  <1> QED
    BY <1>1, <1>5, <1>6, SMTT(30)

\* And what holds of a number that one session had.
LEMMA WorkerAlone ==
  ASSUME BaseInv, BaseInv', KeptInv', NEW t \in Tasks, WorkerKind(t), NEW f \in FDs,
         main'.pc # "stopped", AtMostOne(f), OneUser(f), OneToken(f), EntryFresh(f)
  PROVE  OneUser(f)'
  <1>0. KeepsNumbers /\ UNCHANGED <<main, batch>>
    BY WorkerFrame, Zenon DEF WorkerChanges
  <1>1. CASE Rearms(t) /\ task[t].fd = f
    <2>0. Active(t, f) /\ task[t].pc = "rearm"
      BY <1>1, Zenon DEF Rearms, Active, ActivePcs
    <2>1. Token(f) /\ ~HasEvent(f)' /\ \A r \in Tasks : ~Active(r, f)'
      BY <1>1, RearmsToken
    <2>2. socket'[f].conn = NoSession => ~Watched(f)'
      <3>1. socket[f].conn # NoSession
        BY <2>1, Zenon DEF OneUser
      <3> QED
        BY <1>1, <3>1, Zenon DEF Rearms, Sweeps, Watched
    <2>3. \A r \in Tasks : ~(Ipc(r, f) \/ LeavingAt(r, f))'
      BY <1>1, <2>1, ZenonT(60) DEF OneUser, Rearms, Frees, OthersKept, Ipc, IpcPcs, LeavingAt, Leaving
    <2>4. \A q \in ended' : ~Uses(q, f)'
      BY <1>0, <1>1, <2>0, Zenon DEF OneUser, Rearms, Uses
    <2> QED
      BY <2>1, <2>2, <2>3, <2>4, Zenon DEF OneUser, Token
  <1>2. CASE ~(Rearms(t) /\ task[t].fd = f)
    <2>0. Fewer(f)
      BY <1>2, WorkerFewer
    <2>a. ended' = ended \/ (Runs(t, "del") /\ ended' = ended \cup {task[t].session})
      BY Zenon DEF WorkerKind, Runs, Rearms, Unwatches, Closes, Erases, Releases, GivesUp, ReadsAlert, ClosesAlert
    <2>1. ASSUME socket'[f].conn = NoSession PROVE ~Token(f)'
      <3>1. CASE KeepsConns
        BY <2>0, <2>1, <3>1, FewerToken, Zenon DEF KeepsConns, OneUser
      <3>2. CASE Closes(t) /\ task[t].fd = f
        BY <3>2, ClosesToken
      <3>3. CASE ClosesAlert(t) /\ task[t].fd = f
        <4>1. Ipc(t, f)
          BY <3>3, Zenon DEF ClosesAlert, Ipc, IpcPcs
        <4> QED
          BY <2>0, <4>1, FewerToken, Zenon DEF OneUser
      <3>4. ASSUME NEW closing, Sweeps(closing), f \notin closing PROVE ~Token(f)'
        <4>1. \A q \in ended' : q \in ended \/ q \in Refs'
          <5>1. Runs(t, "del") => task'[t].session = task[t].session /\ task[t].session \in Sessions
            BY TcpTask, Zenon DEF Runs, Moves, TcpPcs
          <5> QED
            BY <2>a, <5>1, RefsAre
        <4> QED
          BY <1>0, <2>0, <2>1, <3>4, <4>1, DeathQuiet, ZenonT(60)
      <3> QED
        BY <3>1, <3>2, <3>3, <3>4, Zenon DEF WorkerKind, Runs, Rearms, Unwatches, Closes, Erases, Releases, GivesUp, ReadsAlert,
           ClosesAlert, KeepsConns
    <2>2. ASSUME NEW r \in Tasks, (Ipc(r, f) \/ LeavingAt(r, f))' PROVE ~Token(f)'
      <3>1. Ipc(r, f) \/ LeavingAt(r, f) \/ (r = t /\ Closes(t) /\ task[t].fd = f)
        BY <2>2, ZenonT(60) DEF WorkerKind, Runs, Rearms, Unwatches, Closes, Erases, Releases, GivesUp, ReadsAlert, ClosesAlert, Moves, Frees,
           OthersKept, LeavingAt, Leaving, Ipc, IpcPcs
      <3> QED
        BY <2>0, <3>1, FewerToken, ClosesToken, Zenon DEF OneUser
    <2>3. ASSUME NEW q \in ended', Uses(q, f)'
          PROVE  ~Watched(f)' /\ ~HasEvent(f)' /\ \A r \in Tasks : Active(r, f)' => task'[r].pc \in {"del", "close"}
      <3>1. CASE q \in ended
        <4>1. Uses(q, f)
          BY <1>0, <2>3, <3>1, SMTT(30) DEF KeepsNumbers, Uses, BaseInv, TypeOK
        <4>2. ~Watched(f) /\ ~HasEvent(f) /\ \A r \in Tasks : Active(r, f) => task[r].pc \in {"del", "close"}
          BY <3>1, <4>1, Zenon DEF OneUser
        <4>3. \A r \in Tasks : Active(r, f)' /\ task[r].pc \in {"del", "close"} => task'[r].pc \in {"del", "close"}
          BY Zenon DEF WorkerKind, Runs, Rearms, Unwatches, Closes, Erases, Releases, GivesUp, ReadsAlert, ClosesAlert, Moves, Frees,
             OthersKept, Active, ActivePcs
        <4> QED
          BY <2>0, <4>2, <4>3, ZenonT(60) DEF Fewer
      <3>2. CASE Runs(t, "del") /\ q = task[t].session
        <4>1. task[t].fd = f
          BY <1>0, <2>3, <3>2, TcpTask, Zenon DEF Runs, TcpPcs, KeepsNumbers, Uses
        <4>2. Active(t, f) /\ task'[t].pc = "del"
          BY <3>2, <4>1, Zenon DEF Runs, Active, ActivePcs, Moves
        <4> QED
          BY <2>0, <4>2, SoleToken, Zenon DEF Fewer
      <3> QED
        BY <2>3, <2>a, <3>1, <3>2, Zenon
    <2> QED
      BY <2>1, <2>2, <2>3, Zenon DEF OneUser
  <1> QED
    BY <1>1, <1>2

\* A step of a worker.
LEMMA WorkerNumber ==
  ASSUME BaseInv, BaseInv', KeptInv', NEW t \in Tasks, WorkerKind(t), NEW f \in FDs, NumberInv(f)
  PROVE  NumberInv(f)'
  <1>1. KeepsNumbers /\ UNCHANGED main
    BY WorkerFrame DEF WorkerChanges
  <1> QED
    BY <1>1, SameCrowd, OneIsNoCrowd, WorkerUncrowded, WorkerAlone, SMTT(30) DEF NumberInv

\* The main thread stores a session, or loses it in a race.
LEMMA StoresNumber ==
  ASSUME BaseInv, BaseInv', OnlyMain, KeptInv', NEW lost \in BOOLEAN, Stores(lost), NEW f \in FDs, NumberInv(f)
  PROVE  NumberInv(f)'
  <1>0. /\ main.conn \in Sessions /\ main.fd \in FDs /\ session[main.conn].fd = main.fd
        /\ main.pc = "accept" /\ main'.pc = "loop" /\ KeepsNumbers /\ UNCHANGED <<batch, task>>
    BY Zenon DEF BaseInv, Shapes, MainShape, Numbers, Stores
  <1>1. Fewer(f)
    BY <1>0, Zenon DEF Stores, Sweeps, WatchKept, Watched, Fewer, HasEvent, Active
  <1>2. \A t \in Tasks : (LeavingAt(t, f)' <=> LeavingAt(t, f)) /\ (Ipc(t, f)' <=> Ipc(t, f)) /\ (Active(t, f)' <=> Active(t, f))
    BY <1>0 DEF LeavingAt, Leaving, Ipc, Active
  <1>3. ASSUME OneToken(f), EntryFresh(f), OneTask(f) PROVE OneToken(f)' /\ EntryFresh(f)' /\ OneTask(f)'
    <2>1. \A t \in Tasks : LeavingAt(t, f) => task[t].session \in Sessions /\ task[t].session # main.conn
      BY <1>0, TcpTask DEF LeavingAt, Leaving, TcpPcs, OnlyMain
    <2>2. f = main.fd \/ clientSessions'[f] = clientSessions[f]
      BY Zenon DEF Stores
    <2>3. f = main.fd => clientSessions'[f] \in {NoSession, main.conn}
      BY Zenon DEF Stores
    <2>4. EntryFresh(f)'
      BY <1>0, <1>1, <1>2, <1>3, <2>1, <2>2, <2>3, FewerToken, Distinct, ZenonT(60) DEF EntryFresh, Accepting
    <2> QED
      BY <1>0, <1>1, <1>3, <2>4, FewerOneToken, ZenonT(60) DEF OneTask
  <1>4. ASSUME AtMostOne(f), OneUser(f), EntryFresh(f) PROVE OneUser(f)'
    <2>1. socket'[f].conn = NoSession => ~Token(f)'
      BY <1>0, <1>1, <1>4, DeathQuiet, Zenon DEF Stores
    <2>2. \A t \in Tasks : (Ipc(t, f) \/ LeavingAt(t, f))' => ~Token(f)'
      BY <1>1, <1>2, <1>4, FewerToken, Zenon DEF OneUser
    <2>3. ASSUME NEW q \in ended', Uses(q, f)'
          PROVE  ~Watched(f)' /\ ~HasEvent(f)' /\ \A t \in Tasks : Active(t, f)' => task'[t].pc \in {"del", "close"}
      <3>1. q \in Sessions /\ Uses(q, f)
        BY <1>0, <2>3, Zenon DEF Stores, BaseInv, TypeOK, KeepsNumbers, Uses
      <3>2. CASE q \in ended
        BY <1>0, <1>1, <1>2, <1>4, <3>1, <3>2, ZenonT(60) DEF OneUser, Fewer
      <3>3. CASE lost /\ q = main.conn
        <4>1. Accepting(f)
          BY <1>0, <3>1, <3>3, Zenon DEF Accepting, Uses
        <4>2. Dies(q)
          <5>1. main.conn = q /\ main'.conn = NoSession /\ clientSessions'[main.fd] = NoSession
            BY <3>3, Zenon DEF Stores
          <5>2. \A g \in FDs : clientSessions'[g] = clientSessions[g] \/ clientSessions'[g] = NoSession
            BY <3>3 DEF Stores
          <5>3. UNCHANGED <<task, activeSessions>>
            BY DEF Stores
          <5>4. q \in Refs
            BY <3>1, <5>1, RefsAre, Zenon
          <5>5. q \notin Refs'
            <6>1. /\ \A g \in FDs : clientSessions'[g] # q
                  /\ \A t \in Tasks : task'[t].session # q
                  /\ \A u \in Users : activeSessions'[u] # q
                  /\ main'.conn # q
              BY <1>0, <3>1, <5>1, <5>2, <5>3, Distinct, SMTT(30) DEF OnlyMain
            <6> QED
              BY <6>1, RefsAre, ZenonT(60)
          <5> QED
            BY <5>4, <5>5 DEF Dies
        <4>3. ~Watched(f)'
          BY <3>1, <4>2, Zenon DEF Stores, Sweeps, Swept, Uses, Watched
        <4>4. \A t \in Tasks : ~Active(t, f)
          BY <1>0, <1>4, <3>1, <3>3, TcpTask, ZenonT(60) DEF Active, ActivePcs, TcpPcs, AtMostOne, Uses, OnlyMain
        <4> QED
          BY <1>1, <1>4, <4>1, <4>3, <4>4, Zenon DEF EntryFresh, Fewer
      <3> QED
        BY <2>3, <3>2, <3>3, Zenon DEF Stores
    <2> QED
      BY <2>1, <2>2, <2>3, Zenon DEF OneUser
  <1> QED
    BY <1>0, <1>3, <1>4, SameCrowd, OneIsNoCrowd, Zenon DEF NumberInv

\* accept() makes a token, on a number that has none unless it gets crowded.
LEMMA AcceptsNumber ==
  ASSUME BaseInv, LifeInv, NEW s \in Sessions, NEW g \in FDs, Accepts(s, g), NEW f \in FDs, NumberInv(f)
  PROVE  NumberInv(f)'
  <1>0. session[s].fd = 0 /\ main.pc = "loop" /\ main'.pc = "accept" /\ main'.fd = g /\ UNCHANGED <<clientSessions, batch, task, ended>>
    BY AcceptsBase, Zenon DEF Accepts
  <1>1. \A r \in Sessions : Uses(r, f)' <=> Uses(r, f) \/ (r = s /\ f = g)
    BY <1>0, Distinct, Zenon DEF Accepts, Uses
  <1>2. ~Uses(s, f)
    BY <1>0, Distinct, Zenon DEF Uses
  <1>3. \A t \in Tasks : /\ LeavingAt(t, f)' <=> LeavingAt(t, f)
                         /\ Ipc(t, f)' <=> Ipc(t, f)
                         /\ Active(t, f)' <=> Active(t, f)
    BY <1>0, Zenon DEF LeavingAt, Leaving, Ipc, Active
  <1>4. HasEvent(f)' <=> HasEvent(f)
    BY <1>0, Zenon DEF HasEvent
  <1>5. CASE f # g
    <2>1. (Crowded(f)' <=> Crowded(f)) /\ (AtMostOne(f)' <=> AtMostOne(f))
      BY <1>1, <1>5 DEF Crowded, AtMostOne
    <2>2. (Watched(f)' <=> Watched(f)) /\ socket'[f].conn = socket[f].conn
      BY <1>5, Zenon DEF Accepts, Watched
    <2>3. Token(f)' <=> Token(f)
      BY <1>3, <1>4, <2>2, Zenon DEF Token
    <2>4. OneToken(f) => OneToken(f)'
      BY <1>3, <1>4, <2>2, Zenon DEF OneToken
    <2>5. EntryFresh(f) /\ OneTask(f) => EntryFresh(f)' /\ OneTask(f)'
      BY <1>0, <1>3, <1>5, <2>3, Zenon DEF EntryFresh, Accepting, OneTask
    <2>6. OneUser(f) => OneUser(f)'
      BY <1>0, <1>1, <1>3, <1>4, <1>5, <2>2, <2>3, ZenonT(60) DEF OneUser, LifeInv, BaseInv, TypeOK
    <2> QED
      BY <1>0, <2>1, <2>4, <2>5, <2>6, Zenon DEF NumberInv
  <1>6. CASE f = g
    <2>1. Watched(f)' /\ socket[f].conn = NoSession /\ socket'[f].conn = s
      BY <1>6, Zenon DEF Accepts, Watched
    <2>2. ASSUME ~Crowded(f)' PROVE OneToken(f)' /\ EntryFresh(f)' /\ OneTask(f)'
      <3>1. AtMostOne(f)
        BY <1>1, <1>2, <1>6, <2>2, SMTT(30) DEF Crowded, AtMostOne
      <3>2. ~Token(f) /\ OneTask(f)
        BY <1>0, <2>1, <3>1, OneIsNoCrowd, Zenon DEF NumberInv, OneUser
      <3>3. OneToken(f)'
        BY <1>3, <1>4, <3>2 DEF OneToken, Token
      <3>4. EntryFresh(f)'
        BY <1>0, <1>4, <1>6, <3>2, Zenon DEF EntryFresh, Token, Accepting
      <3> QED
        BY <1>0, <3>2, <3>3, <3>4, Zenon DEF OneTask
    <2>3. ASSUME AtMostOne(f)' PROVE OneUser(f)'
      <3>1. \A r \in Sessions : ~Uses(r, f)
        BY <1>1, <1>2, <1>6, <2>3, SMTT(30) DEF AtMostOne
      <3>2. \A t \in Tasks : ~Ipc(t, f)
        BY <2>1, <3>1, Distinct, Zenon DEF LifeInv, KeptInv, UnusedAt
      <3>3. \A t \in Tasks : ~LeavingAt(t, f)
        BY <3>1, TcpTask DEF LeavingAt, Leaving, TcpPcs, Uses
      <3>4. \A q \in ended' : ~Uses(q, f)'
        BY <1>0, <1>1, <3>1, Zenon DEF LifeInv, EndedInv, BaseInv, TypeOK
      <3> QED
        BY <1>3, <2>1, <3>2, <3>3, <3>4, Distinct, ZenonT(60) DEF OneUser
    <2> QED
      BY <2>2, <2>3 DEF NumberInv
  <1> QED
    BY <1>5, <1>6

\* Steps of the main thread and of the peers that make no token and open or
\* close nothing: an event without a session, or one that is missed.
LEMMA EventNumber ==
  ASSUME BaseInv, Outside \/ (\E e \in batch : Ignores(e) \/ Misses(e)), NEW f \in FDs, NumberInv(f)
  PROVE  NumberInv(f)'
  <1>1. KeepsNumbers /\ KeepsConns /\ UNCHANGED <<main, task, ended>>
    BY Zenon DEF Outside, Ignores, Misses, KeepsNumbers, KeepsConns
  <1>2. clientSessions'[f] = clientSessions[f] \/ clientSessions'[f] \notin Sessions
    BY Zenon DEF Outside, Ignores, Misses
  <1>3. Fewer(f)
    BY Zenon DEF Outside, Ignores, Misses, Handles, Fewer, Watched, HasEvent, Active
  <1>4. \A t \in Tasks : (LeavingAt(t, f)' <=> LeavingAt(t, f)) /\ (Ipc(t, f)' <=> Ipc(t, f))
    BY <1>1, Zenon DEF LeavingAt, Leaving, Ipc
  <1>5. \A t \in Tasks : LeavingAt(t, f) => task[t].session \in Sessions
    BY TcpTask DEF LeavingAt, Leaving, TcpPcs
  <1>6. OneToken(f) => OneToken(f)'
    BY <1>3, FewerOneToken
  <1>7. EntryFresh(f) /\ OneTask(f) => EntryFresh(f)' /\ OneTask(f)'
    BY <1>1, <1>2, <1>3, <1>4, <1>5, FewerToken, ZenonT(60) DEF EntryFresh, Accepting, OneTask, Fewer
  <1>8. OneUser(f) => OneUser(f)'
    BY <1>1, <1>3, <1>4, FewerToken, ZenonT(60) DEF OneUser, KeepsConns, KeepsNumbers, Uses, Fewer, BaseInv, TypeOK
  <1> QED
    BY <1>1, <1>6, <1>7, <1>8, SameCrowd, SMTT(30) DEF NumberInv

\* A sensor's connection gets a number without a token, if one session had it.
LEMMA AcceptsUnixNumber ==
  ASSUME BaseInv, NEW c \in Sensors, NEW r \in Tasks, NEW g \in FDs, AcceptsUnix(c, r, g), NEW f \in FDs, NumberInv(f)
  PROVE  NumberInv(f)'
  <1>1. KeepsNumbers /\ UNCHANGED <<watch, clientSessions, main, batch, ended>> /\ main.pc = "loop"
    BY Zenon DEF AcceptsUnix, KeepsNumbers
  <1>2. \A t \in Tasks : /\ LeavingAt(t, f)' => LeavingAt(t, f) /\ task'[t] = task[t]
                         /\ Ipc(t, f)' => Ipc(t, f) \/ f = g
                         /\ Active(t, f)' => Active(t, f) /\ task'[t] = task[t]
                         /\ task'[t].session \in Sessions => task'[t] = task[t]
    BY Distinct, Zenon DEF AcceptsUnix, OthersKept, LeavingAt, Leaving, Ipc, Active, ActivePcs
  <1>3. Fewer(f)
    BY <1>1, <1>2, Zenon DEF Fewer, Watched, HasEvent
  <1>4. OneToken(f) => OneToken(f)'
    BY <1>3, FewerOneToken
  <1>5. EntryFresh(f) => EntryFresh(f)'
    BY <1>1, <1>2, <1>3, FewerToken, ZenonT(60) DEF EntryFresh, Accepting, Fewer
  <1>6. OneTask(f) => OneTask(f)'
    BY <1>2 DEF OneTask
  <1>7. ASSUME OneUser(f) PROVE OneUser(f)'
    <2>1. f = g => socket[f].conn = NoSession /\ ~Token(f)'
      BY <1>3, <1>7, FewerToken, Zenon DEF OneUser, AcceptsUnix
    <2>2. f # g => socket'[f].conn = socket[f].conn
      BY Zenon DEF AcceptsUnix
    <2>3. \A q \in ended' : Uses(q, f)' =>
             ~Watched(f)' /\ ~HasEvent(f)' /\ \A t \in Tasks : Active(t, f)' => task'[t].pc \in {"del", "close"}
      BY <1>1, <1>2, <1>3, <1>7, ZenonT(60) DEF OneUser, Fewer, KeepsNumbers, Uses, BaseInv, TypeOK
    <2> QED
      BY <1>2, <1>3, <1>7, <2>1, <2>2, <2>3, FewerToken, Zenon DEF OneUser
  <1> QED
    BY <1>1, <1>4, <1>5, <1>6, <1>7, SameCrowd, SMTT(30) DEF NumberInv

\* epoll_wait turns a registration into an event.
LEMMA WaitsNumber ==
  ASSUME BaseInv, OneshotInv, NEW ready \in SUBSET FDs, Waits(ready), NEW f \in FDs, NumberInv(f)
  PROVE  NumberInv(f)'
  <1>1. KeepsNumbers /\ UNCHANGED <<socket, clientSessions, main, task, ended>> /\ main.pc = "loop" /\ ~HasEvent(f)
    BY Zenon DEF Waits, KeepsNumbers, HasEvent
  <1>2. \A t \in Tasks : (LeavingAt(t, f)' <=> LeavingAt(t, f)) /\ (Ipc(t, f)' <=> Ipc(t, f)) /\ (Active(t, f)' <=> Active(t, f))
    BY <1>1, Zenon DEF LeavingAt, Leaving, Ipc, Active
  <1>3. HasEvent(f)' => Watched(f) /\ ~Watched(f)'
    BY ZenonT(60) DEF HasEvent, Waits, OneshotInv, Watched
  <1>4. Watched(f)' => Watched(f)
    BY Zenon DEF Waits, Watched
  <1>5. Token(f)' => Token(f)
    BY <1>2, <1>3, <1>4, Zenon DEF Token
  <1>6. OneToken(f) => OneToken(f)'
    BY <1>2, <1>3, <1>4 DEF OneToken
  <1>7. EntryFresh(f) /\ OneTask(f) => EntryFresh(f)' /\ OneTask(f)'
    BY <1>1, <1>2, <1>5, Zenon DEF EntryFresh, Accepting, OneTask
  <1>8. OneUser(f) => OneUser(f)'
    BY <1>1, <1>2, <1>3, <1>4, <1>5, ZenonT(60) DEF OneUser, KeepsNumbers, Uses, BaseInv, TypeOK
  <1> QED
    BY <1>1, <1>6, <1>7, <1>8, SameCrowd, SMTT(30) DEF NumberInv

\* The main thread turns an event into a task, the only one of its session.
LEMMA DispatchesNumber ==
  ASSUME BaseInv, OneshotInv, NEW e \in batch, NEW r \in Tasks, Dispatches(e, r), NEW f \in FDs, NumberInv(f)
  PROVE  NumberInv(f)'
  <1>1. /\ KeepsNumbers /\ UNCHANGED <<socket, watch, clientSessions, main, ended>> /\ main.pc = "loop"
        /\ ~Accepting(f)
    BY Zenon DEF Dispatches, Handles, OneshotInv, Accepting
  <1>2. \A t \in Tasks : /\ LeavingAt(t, f)' => LeavingAt(t, f) /\ task'[t] = task[t]
                         /\ Ipc(t, f)' => Ipc(t, f)
                         /\ Active(t, f)' => (Active(t, f) /\ task'[t] = task[t]) \/ (t = r /\ e.fd = f)
                         /\ t # r => task'[t] = task[t]
    BY Zenon DEF Dispatches, OthersKept, LeavingAt, Leaving, Ipc, IpcPcs, Active, ActivePcs
  <1>3. HasEvent(f)' => HasEvent(f) /\ e.fd # f
    <2>1. ASSUME NEW d \in batch, d.fd = e.fd PROVE d = e
      <3>1. d \in [fd : FDs, out : BOOLEAN] /\ e \in [fd : FDs, out : BOOLEAN]
        BY Zenon DEF BaseInv, TypeOK
      <3>2. ~d.out /\ ~e.out
        BY Zenon DEF OneshotInv
      <3>3. d = [fd |-> d.fd, out |-> FALSE] /\ e = [fd |-> e.fd, out |-> FALSE]
        BY <3>1, <3>2, Zenon
      <3> QED
        BY <2>1, <3>3, Zenon
    <2> QED
      BY <2>1, Zenon DEF HasEvent, Dispatches, Handles
  <1>4. (Watched(f)' <=> Watched(f)) /\ (e.fd = f => HasEvent(f))
    BY <1>1 DEF Watched, HasEvent
  <1>5. Token(f)' => Token(f)
    BY <1>2, <1>3, <1>4, Zenon DEF Token
  <1>6. OneToken(f) => OneToken(f)'
    BY <1>2, <1>3, <1>4, Zenon DEF OneToken
  <1>7. EntryFresh(f) => EntryFresh(f)'
    BY <1>1, <1>2, <1>5, Zenon DEF EntryFresh, Accepting
  <1>8. ASSUME OneToken(f), EntryFresh(f), OneTask(f) PROVE OneTask(f)'
    <2>1. ASSUME NEW t \in Tasks, t # r, task[t].session = clientSessions[e.fd], e.fd = f PROVE FALSE
      <3>1. task[t].session \in Sessions
        BY <2>1, Zenon DEF Dispatches
      <3>2. task[t].pc \in TcpPcs /\ task[t].fd = f
        <4>1. session[clientSessions[f]].fd = f
          BY <2>1, <3>1 DEF BaseInv, Numbers
        <4> QED
          BY <2>1, <3>1, <4>1, SessionTask, Zenon
      <3>3. HasEvent(f) /\ Token(f)
        BY <1>4, <2>1, Zenon DEF Token
      <3>4. ~Active(t, f)
        BY <1>8, <3>3, Zenon DEF OneToken
      <3>5. LeavingAt(t, f)
        BY <3>2, <3>4 DEF LeavingAt, Leaving, Active, ActivePcs, TcpPcs
      <3> QED
        BY <1>1, <1>8, <2>1, <3>3, <3>5, Zenon DEF EntryFresh
    <2>2. task'[r].session = clientSessions[e.fd] /\ task'[r].fd = e.fd /\ clientSessions[e.fd] \in Sessions
      BY Zenon DEF Dispatches
    <2>3. ASSUME NEW t \in Tasks, t # r, task'[t].session \in Sessions, task'[t].fd = f PROVE task'[t].session # task'[r].session
      <3>1. ASSUME task[t].session = clientSessions[e.fd] PROVE e.fd = f
        <4>1. task[t].session \in Sessions /\ task[t].fd = f
          BY <1>2, <2>3, Zenon
        <4>2. session[task[t].session].fd = f
          BY <4>1, Zenon DEF BaseInv, Numbers
        <4>3. e.fd \in FDs
          BY Zenon DEF BaseInv, TypeOK
        <4>4. session[clientSessions[e.fd]].fd = e.fd
          BY <2>2, <4>3 DEF BaseInv, Numbers
        <4> QED
          BY <3>1, <4>2, <4>4
      <3> QED
        BY <1>2, <2>1, <2>2, <2>3, <3>1, ZenonT(60)
    <2> QED
      <3>1. SUFFICES ASSUME NEW t \in Tasks, NEW o \in Tasks, t # o, task'[t].session \in Sessions, task'[t].fd = f
                     PROVE  task'[t].session # task'[o].session
        BY Zenon DEF OneTask
      <3>2. CASE o = r
        BY <2>3, <3>1, <3>2, ZenonT(60)
      <3>3. CASE t = r
        <4>1. e.fd = f /\ task'[o] = task[o]
          BY <1>2, <2>2, <3>1, <3>3, Zenon
        <4> QED
          BY <2>1, <2>2, <3>1, <3>3, <4>1, SMTT(30)
      <3>4. CASE t # r /\ o # r
        <4>1. task'[t] = task[t] /\ task'[o] = task[o]
          BY <1>2, <3>4, Zenon
        <4> QED
          BY <1>8, <3>1, <4>1, Zenon DEF OneTask
      <3> QED
        BY <3>2, <3>3, <3>4
  <1>9. ASSUME OneUser(f) PROVE OneUser(f)'
    BY <1>1, <1>2, <1>3, <1>4, <1>5, <1>9, ZenonT(60) DEF OneUser, Token, KeepsNumbers, Uses, BaseInv, TypeOK
  <1> QED
    BY <1>1, <1>6, <1>7, <1>8, <1>9, SameCrowd, SMTT(30) DEF NumberInv

\* A stopped server has no tasks and no events.
LEMMA StopsNumber ==
  ASSUME Stops, NEW f \in FDs, NumberInv(f)
  PROVE  NumberInv(f)'
  <1>1. KeepsNumbers /\ main'.pc = "stopped" /\ ~HasEvent(f)'
    BY Zenon DEF Stops, KeepsNumbers, HasEvent
  <1>2. \A t \in Tasks : ~LeavingAt(t, f)' /\ ~Active(t, f)' /\ task'[t].session \notin Sessions
    BY Distinct, Zenon DEF Stops, LeavingAt, Leaving, Active, ActivePcs
  <1>3. OneToken(f)' /\ EntryFresh(f)' /\ OneTask(f)'
    BY <1>1, <1>2, Zenon DEF OneToken, EntryFresh, OneTask
  <1> QED
    BY <1>1, <1>3, SameCrowd DEF NumberInv

\* Without deferred replies every registration stays a oneshot.
LEMMA OneshotNext ==
  ASSUME BaseInv, OneshotInv, Kind, deferred' = 0
  PROVE  OneshotInv'
  <1>0. TaskShape /\ \A f \in FDs : watch[f] \notin {"inout", "level"}
    BY Zenon DEF OneshotInv, BaseInv, Shapes
  <1>1. \A s \in Sessions : session'[s].pending = 0
    <2>1. CASE UNCHANGED session \/ Observed
      BY <2>1 DEF OneshotInv, Observed
    <2>2. ASSUME NEW s \in Sessions, NEW f \in FDs, Accepts(s, f) PROVE \A r \in Sessions : session'[r].pending = 0
      BY <2>2, ZenonT(60) DEF OneshotInv, Accepts
    <2>3. ASSUME NEW t \in Tasks, WorkerKind(t) PROVE UNCHANGED session \/ Observed
      BY <2>3, Zenon DEF WorkerKind, Runs, Rearms, Unwatches, Closes, Erases, Releases, GivesUp, ReadsAlert, ClosesAlert
    <2>4. CASE Outside \/ MainKind \/ Stops
      <3>1. ASSUME Outside \/ Stops PROVE UNCHANGED session \/ Observed
        BY <3>1, Zenon DEF Outside, Stops
      <3>2. ASSUME \/ \E lost \in BOOLEAN : Stores(lost)
                   \/ \E c \in Sensors, t \in Tasks, f \in FDs : AcceptsUnix(c, t, f)
                   \/ \E ready \in SUBSET FDs : Waits(ready)
            PROVE  UNCHANGED session \/ Observed
        BY <3>2, Zenon DEF Stores, AcceptsUnix, Waits
      <3>3. ASSUME NEW e \in batch, Ignores(e) \/ Misses(e) \/ \E t \in Tasks : Dispatches(e, t)
            PROVE  UNCHANGED session \/ Observed
        BY <3>3, Zenon DEF OneshotInv, Ignores, Misses, Dispatches
      <3> QED
        BY <2>1, <2>2, <2>4, <3>1, <3>2, <3>3, Zenon DEF MainKind
    <2> QED
      BY <2>1, <2>3, <2>4, Zenon DEF Kind
  <1>2. \A e \in batch' : ~e.out
    <2>1. CASE \A e \in batch' : e \in batch
      BY <2>1, Zenon DEF OneshotInv
    <2>2. ASSUME NEW ready \in SUBSET FDs, Waits(ready) PROVE \A e \in batch' : ~e.out
      BY <1>0, <2>2 DEF Waits
    <2>3. CASE UNCHANGED batch
      BY <2>1, <2>3
    <2> QED
      BY <2>1, <2>2, <2>3, WorkerFrame, ZenonT(60) DEF Kind, MainKind, Outside, Accepts, Stores, AcceptsUnix, Ignores, Misses, Dispatches,
         Handles, Stops, WorkerChanges
  <1>3. ASSUME NEW f \in FDs PROVE watch'[f] \notin {"inout", "level"}
    <2>1. CASE UNCHANGED watch \/ \E closing : Sweeps(closing) /\ WatchKept(closing)
      BY <1>0, <2>1 DEF Sweeps, WatchKept
    <2>2. ASSUME NEW t \in Tasks, Rearms(t) PROVE watch'[f] \notin {"inout", "level"}
      <3>1. session[task[t].session].pending = 0
        BY <2>2, TcpTask, Zenon DEF OneshotInv, Rearms, TcpPcs
      <3>2. watch'[f] \in {"none", "in", watch[f]}
        <4>1. CASE Swept(f, {})
          BY <2>2, <4>1, ZenonT(60) DEF Rearms, Sweeps
        <4>2. CASE ~Swept(f, {})
          BY <2>2, <3>1, <4>2 DEF Rearms
        <4> QED
          BY <4>1, <4>2
      <3> QED
        BY <1>0, <3>2
    <2>3. ASSUME NEW t \in Tasks, Unwatches(t) \/ GivesUp(t) PROVE watch'[f] \notin {"inout", "level"}
      BY <1>0, <2>3, Zenon DEF Unwatches, GivesUp
    <2>4. CASE MainKind
      <3>1. ASSUME NEW e \in batch, NEW t \in Tasks, Dispatches(e, t) PROVE UNCHANGED watch
        BY <3>1, Zenon DEF Dispatches, OneshotInv
      <3>2. ASSUME NEW e \in batch, Ignores(e) \/ Misses(e) PROVE watch'[f] \notin {"inout", "level"}
        BY <1>0, <3>2, Zenon DEF Ignores, Misses
      <3>3. ASSUME NEW ready \in SUBSET FDs, Waits(ready) PROVE watch'[f] \notin {"inout", "level"}
        BY <1>0, <3>3 DEF Waits
      <3>4. ASSUME NEW s \in Sessions, NEW g \in FDs, Accepts(s, g) PROVE watch'[f] \notin {"inout", "level"}
        BY <1>0, <3>4, Zenon DEF Accepts
      <3> QED
        BY <2>1, <2>4, <3>1, <3>2, <3>3, <3>4, ZenonT(60) DEF MainKind, Stores, AcceptsUnix
    <2> QED
      BY <2>1, <2>2, <2>3, <2>4, ZenonT(60) DEF Kind, WorkerKind, Outside, Stops, Runs, Closes, Erases, Releases, ReadsAlert, ClosesAlert
  <1> QED
    BY <1>1, <1>2, <1>3 DEF OneshotInv

\* A deferred reply is not forgotten.
LEMMA DeferredStays == ASSUME Kind, deferred # 0 PROVE deferred' # 0
  BY WorkerFrame, ZenonT(60) DEF Kind, MainKind, Outside, Accepts, Stores, Observed, AcceptsUnix, Waits, Ignores, Misses, Dispatches, Stops,
     WorkerChanges

\* The tokens are inductive, given the rest.
LEMMA TokenNext ==
  ASSUME BaseInv, BaseInv', LifeInv, LifeInv', TokenInv, Kind
  PROVE  TokenInv'
  <1> SUFFICES ASSUME deferred' = 0 PROVE OneshotInv' /\ \A f \in FDs : NumberInv(f)'
    BY DEF TokenInv
  <1>1. deferred = 0 /\ OneshotInv
    BY DeferredStays DEF TokenInv
  <1>2. OneshotInv'
    BY <1>1, OneshotNext, Zenon
  <1>3. ASSUME NEW f \in FDs PROVE NumberInv(f)'
    <2>1. NumberInv(f) /\ KeptInv' /\ OnlyMain
      BY <1>1, Zenon DEF TokenInv, LifeInv
    <2>2. CASE MainKind
      BY <1>1, <2>1, <2>2, AcceptsNumber, StoresNumber, AcceptsUnixNumber, WaitsNumber, EventNumber, DispatchesNumber, SMTT(30) DEF MainKind
    <2> QED
      BY <2>1, <2>2, EventNumber, StopsNumber, WorkerNumber, SMTT(30) DEF Kind
  <1> QED
    BY <1>2, <1>3

-----------------------------------------------------------------------------
(***************************************************************************)
(* The invariants hold in every behaviour.                                 *)
(***************************************************************************)
SessionInv == ConnectionsInv /\ LifeInv /\ TokenInv

\* At first nobody is connected.
LEMMA SessionInit == Init => SessionInv
  <1> SUFFICES ASSUME Init PROVE SessionInv
    OBVIOUS
  <1>4. LifeInv
    <2>1. \A t \in Tasks, f \in FDs : ~Ipc(t, f)
      BY InitState, Zenon DEF Ipc, IpcPcs
    <2> QED
      BY <2>1, InitState, Distinct, Zenon DEF LifeInv, EndedInv, Leaving, OnlyMain, KeptInv, Undisturbed, Uses, UnusedAt
  <1>5. TokenInv
    <2>1. OneshotInv
      BY InitState DEF OneshotInv
    <2>2. ASSUME NEW f \in FDs PROVE NumberInv(f)
      <3>1. /\ ~Watched(f) /\ ~HasEvent(f)
            /\ \A t \in Tasks : ~Active(t, f) /\ ~LeavingAt(t, f) /\ task[t].session \notin Sessions
        BY InitState, Distinct DEF Watched, HasEvent, Active, ActivePcs, LeavingAt, Leaving
      <3>2. OneToken(f) /\ EntryFresh(f) /\ OneTask(f) /\ OneUser(f)
        BY <3>1, InitState, Zenon DEF OneToken, EntryFresh, OneTask, OneUser, Token
      <3> QED
        BY <3>2, Zenon DEF NumberInv
    <2> QED
      BY <2>1, <2>2, Zenon DEF TokenInv
  <1> QED
    BY <1>4, <1>5, ConnectionsInit, SMTT(30) DEF SessionInv

\* And every step keeps all of it.
LEMMA SessionNext == SessionInv /\ [Next]_vars => SessionInv'
  <1> SUFFICES ASSUME SessionInv, [Next]_vars PROVE SessionInv'
    OBVIOUS
  <1>1. BaseInv /\ LifeInv /\ TokenInv
    BY DEF SessionInv, ConnectionsInv
  <1>2. BaseInv' /\ Kind
    BY <1>1, BaseNext
  <1>3. ConnectionsInv'
    BY ConnectionsNext DEF SessionInv
  <1>4. LifeInv'
    BY <1>1, <1>2, LifeNext
  <1>5. TokenInv'
    BY <1>1, <1>2, <1>4, TokenNext
  <1> QED
    BY <1>3, <1>4, <1>5, SMTT(30) DEF SessionInv

\* So it always holds.
LEMMA SessionsHold == Spec => []SessionInv
  BY SessionInit, SessionNext, PTL DEF Spec

(***************************************************************************)
(* Until clientSession::run says that it has ended, a session keeps its    *)
(* descriptor and its entry, unless another session had or has the number. *)
(***************************************************************************)
THEOREM Kept == Spec => []KeptUntilEnded
  <1>1. ASSUME SessionInv, NEW s \in Sessions, session[s].fd # 0, main.conn # s, main.pc # "stopped", s \notin ended
        PROVE  \/ socket[session[s].fd].conn = s /\ clientSessions[session[s].fd] = s
               \/ \E r \in Sessions \ {s} : session[r].fd = session[s].fd
    <2>1. PICK f \in FDs : session[s].fd = f
      BY <1>1, Zenon DEF SessionInv, ConnectionsInv, BaseInv, TypeOK, SessionStates
    <2> QED
      BY <1>1, <2>1, Zenon DEF SessionInv, LifeInv, KeptInv, Undisturbed, KeptAt, Alone, Uses
  <1>2. SessionInv => KeptUntilEnded
    BY <1>1, ZenonT(60) DEF KeptUntilEnded
  <1> QED
    BY <1>2, SessionsHold, PTL

(***************************************************************************)
(* While no reply was deferred, two tasks have one session only if three   *)
(* sessions have had its descriptor: EPOLLONESHOT keeps a session to one   *)
(* worker.                                                                 *)
(***************************************************************************)
THEOREM OneWorker == Spec => []OneWorkerUnlessDeferred
  <1>1. ASSUME SessionInv, deferred = 0, NEW s \in Sessions, Overlap(s)
        PROVE  \E p, q \in Sessions \ {s} : p # q /\ session[p].fd = session[s].fd /\ session[q].fd = session[s].fd
    <2>1. PICK t, r \in Tasks : t # r /\ task[t].session = s /\ task[r].session = s
      BY <1>1, Zenon DEF Overlap
    <2>2. session[s].fd = task[t].fd /\ task[t].fd \in FDs
      BY <1>1, <2>1, SessionTask DEF SessionInv, ConnectionsInv
    <2>3. PICK f \in FDs : task[t].fd = f
      BY <2>2, Zenon
    <2>4. Crowded(f)
      BY <1>1, <2>1, <2>3, Zenon DEF SessionInv, TokenInv, NumberInv, OneTask
    <2> QED
      BY <2>2, <2>3, <2>4 DEF Crowded, Uses
  <1>2. SessionInv => OneWorkerUnlessDeferred
    BY <1>1 DEF OneWorkerUnlessDeferred
  <1> QED
    BY <1>2, SessionsHold, PTL
=============================================================================
