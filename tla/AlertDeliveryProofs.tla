------------------------ MODULE AlertDeliveryProofs -------------------------
(***************************************************************************)
(* Proofs about AlertDelivery, for any users, sessions, alerts and size of *)
(* the event queue.                                                        *)
(***************************************************************************)
EXTENDS AlertDelivery, FiniteSetTheorems, TLAPS

ClientID(s) == session[s].clientID
Address(s) == session[s].udpAddress
Live(s) == session[s].pc \notin {"unborn", "closed"}

Registry ==
    /\ RegistryTypeOK
    /\ session \in [Sessions -> SessionRecord]

-----------------------------------------------------------------------------
(* Types.                                                                  *)

\* The records of new sessions and alerts.
LEMMA NewRecords ==
    /\ NewSession \in SessionRecord /\ NewSession.pc = "unborn"
    /\ NewSession.clientID = NoUser /\ NewSession.udpAddress = NoSession
    /\ NewTask \in TaskRecord /\ NewTask.pc = "arriving"
    /\ NewTask.offline = {} /\ NewTask.user = NoUser
BY DEF NewSession, NewTask, SessionRecord, TaskRecord

-----------------------------------------------------------------------------
(* What each kind of step changes.                                         *)

\* A step of a session that is neither a login nor an end of the session.
Plain(s) ==
    \/ Accept(s) \/ ReadError(s) \/ (\E keep \in BOOLEAN : Request(s, keep)) \/ WriteReply(s)
    \/ PopEvent(s) \/ PopNothing(s) \/ SendEvent(s) \/ DropEvent(s)

Leaves(s) == ReadEOF(s) \/ WriteError(s) \/ CloseSession(s)

\* It leaves users, addresses and the registry alone.
LEMMA PlainEffect ==
    ASSUME Registry, NEW s \in Sessions, Plain(s)
    PROVE  /\ session' \in [Sessions -> SessionRecord]
           /\ \A t \in Sessions \ {s} : session'[t] = session[t]
           /\ ClientID(s)' = ClientID(s) /\ Address(s)' = Address(s)
           /\ session'[s].pc # "unborn"
           /\ Live(s)' => Live(s) \/ session[s].pc = "unborn"
           /\ UNCHANGED <<registryVars, steady, keepalive, task, sent, pushed>>
<1> DEFINE r == session[s]
<1>0. r \in SessionRecord /\ r.keep \in BOOLEAN
  BY DEF Registry, SessionRecord
<1>1. UNCHANGED <<registryVars, steady, keepalive, task, sent, pushed>>
  BY Zenon DEF Plain, Accept, ReadError, Request, WriteReply, PopEvent, PopNothing, SendEvent, DropEvent,
         UNCHANGED_registry, UNCHANGED_delivery
<1>2. ASSUME NEW q \in SessionRecord, session' = [session EXCEPT ![s] = q],
             q.clientID = r.clientID, q.udpAddress = r.udpAddress, q.pc # "unborn",
             q.pc # "closed" => Live(s) \/ r.pc = "unborn"
      PROVE  /\ session' \in [Sessions -> SessionRecord]
             /\ \A t \in Sessions \ {s} : session'[t] = session[t]
             /\ ClientID(s)' = ClientID(s) /\ Address(s)' = Address(s)
             /\ session'[s].pc # "unborn"
             /\ Live(s)' => Live(s) \/ session[s].pc = "unborn"
  BY <1>2 DEF Registry, ClientID, Address, Live
<1>3. AfterRun(s) \in {"armed", "closing"}
  BY DEF AfterRun
<1>4. CASE Accept(s)
  <2>1. session' = [session EXCEPT ![s] = [r EXCEPT !.pc = "armed"]]
    BY <1>4 DEF Accept, Goto
  <2>2. r.pc = "unborn"
    BY <1>4 DEF Accept, Goto, At, Live
  <2> DEFINE q == [r EXCEPT !.pc = "armed"]
  <2>3. q \in SessionRecord /\ q.clientID = r.clientID /\ q.udpAddress = r.udpAddress
    BY <1>0 DEF SessionRecord
  <2>4. q.pc = "armed"
    BY <1>0 DEF SessionRecord
  <2> HIDE DEF q
  <2> QED
    BY <1>1, <1>2, <2>1, <2>2, <2>3, <2>4, Zenon DEF q
<1>5. CASE ReadError(s)
  <2>1. session' = [session EXCEPT ![s] = [r EXCEPT !.pc = "closed"]]
    BY <1>5 DEF ReadError, Goto
  <2> DEFINE q == [r EXCEPT !.pc = "closed"]
  <2>3. q \in SessionRecord /\ q.clientID = r.clientID /\ q.udpAddress = r.udpAddress
    BY <1>0 DEF SessionRecord
  <2>4. q.pc = "closed"
    BY <1>0 DEF SessionRecord
  <2> HIDE DEF q
  <2> QED
    BY <1>1, <1>2, <2>1, <2>3, <2>4, Zenon DEF q
<1>6. CASE \E keep \in BOOLEAN : Request(s, keep)
  <2>1. PICK keep \in BOOLEAN : session' = [session EXCEPT ![s] = [r EXCEPT !.pc = "replied", !.keep = keep]]
    BY <1>6, Zenon DEF Request
  <2>2. Live(s)
    BY <1>6 DEF Request, At, Live
  <2> DEFINE q == [r EXCEPT !.pc = "replied", !.keep = keep]
  <2>3. q \in SessionRecord /\ q.clientID = r.clientID /\ q.udpAddress = r.udpAddress
    BY <1>0, Zenon DEF SessionRecord
  <2>4. q.pc = "replied"
    BY <1>0 DEF SessionRecord
  <2> HIDE DEF q
  <2> QED
    BY <1>1, <1>2, <2>1, <2>2, <2>3, <2>4, Zenon DEF q
<1>7. CASE WriteReply(s) \/ PopNothing(s)
  <2>1. PICK p \in {"popping", "armed", "closing"} : session' = [session EXCEPT ![s] = [r EXCEPT !.pc = p]]
    BY <1>3, <1>7 DEF WriteReply, PopNothing, Goto
  <2>2. Live(s)
    BY <1>7 DEF WriteReply, PopNothing, Goto, At, Live
  <2> DEFINE q == [r EXCEPT !.pc = p]
  <2>3. q \in SessionRecord /\ q.clientID = r.clientID /\ q.udpAddress = r.udpAddress
    BY <1>0 DEF SessionRecord
  <2>4. q.pc = p
    BY <1>0 DEF SessionRecord
  <2> HIDE DEF q
  <2> QED
    BY <1>1, <1>2, <2>1, <2>2, <2>3, <2>4, Zenon DEF q
<1>8. CASE PopEvent(s) \/ SendEvent(s) \/ DropEvent(s)
  <2>1. PICK p \in {"armed", "closing", "sending"}, e \in Alerts \cup {NoAlert} :
          session' = [session EXCEPT ![s] = [r EXCEPT !.pc = p, !.event = e]]
    BY <1>3, <1>8, Zenon DEF PopEvent, SendEvent, DropEvent
  <2>2. Live(s)
    BY <1>8, Zenon DEF PopEvent, SendEvent, DropEvent, At, Live
  <2> DEFINE q == [r EXCEPT !.pc = p, !.event = e]
  <2>3. q \in SessionRecord /\ q.clientID = r.clientID /\ q.udpAddress = r.udpAddress
    BY <1>0, Zenon DEF SessionRecord
  <2>4. q.pc = p
    BY <1>0 DEF SessionRecord
  <2> HIDE DEF q
  <2> QED
    BY <1>1, <1>2, <2>1, <2>2, <2>3, <2>4, Zenon DEF q
<1> QED
  BY <1>4, <1>5, <1>6, <1>7, <1>8 DEF Plain

\* An end of the session that unregisters its user.
LEMMA LeaveEffect ==
    ASSUME Registry, NEW s \in Sessions, Leaves(s)
    PROVE  /\ session' \in [Sessions -> SessionRecord]
           /\ \A t \in Sessions \ {s} : session'[t] = session[t]
           /\ ClientID(s)' = ClientID(s) /\ Address(s)' = Address(s)
           /\ Live(s) /\ session'[s].pc = "closed"
           /\ UnregisterIfLoggedIn(s)
           /\ UNCHANGED <<keepalive, task, sent, pushed>>
<1> DEFINE r == session[s]
           q == [r EXCEPT !.pc = "closed"]
<1>0. r \in SessionRecord
  BY DEF Registry
<1>1. /\ session' = [session EXCEPT ![s] = q] /\ UnregisterIfLoggedIn(s)
      /\ Live(s) /\ UNCHANGED <<keepalive, task, sent, pushed>>
  BY DEF Leaves, ReadEOF, WriteError, CloseSession, Goto, At, Live, UNCHANGED_delivery
<1>2. q \in SessionRecord /\ q.clientID = r.clientID /\ q.udpAddress = r.udpAddress /\ q.pc = "closed"
  BY <1>0 DEF SessionRecord
<1> HIDE DEF q
<1> QED
  BY <1>1, <1>2 DEF Registry, ClientID, Address

\* A login.
LEMMA LoginEffect ==
    ASSUME Registry, NEW s \in Sessions, NEW u \in Users, Login(s, u)
    PROVE  /\ session' \in [Sessions -> SessionRecord]
           /\ \A t \in Sessions \ {s} : session'[t] = session[t]
           /\ ClientID(s) = NoUser /\ ClientID(s)' = u /\ Address(s)' = Address(s)
           /\ session'[s].pc = "replied"
           /\ Register(u, s)
           /\ UNCHANGED <<keepalive, task, sent, pushed>>
<1> DEFINE r == session[s]
           q == [r EXCEPT !.pc = "replied", !.clientID = u, !.keep = TRUE]
<1>0. r \in SessionRecord
  BY DEF Registry
<1>1. /\ session' = [session EXCEPT ![s] = q] /\ Register(u, s) /\ r.clientID = NoUser
      /\ UNCHANGED <<keepalive, task, sent, pushed>>
  BY DEF Login, UNCHANGED_delivery, Authenticated
<1>2. q \in SessionRecord /\ q.clientID = u /\ q.udpAddress = r.udpAddress /\ q.pc = "replied"
  BY <1>0, Zenon DEF SessionRecord
<1> HIDE DEF q
<1> QED
  BY <1>1, <1>2 DEF Registry, ClientID, Address

\* The second half of a keepalive.
LEMMA AddressEffect ==
    ASSUME Registry, keepalive.from \in Sessions, keepalive.to \in Sessions, SetUdpAddress
    PROVE  /\ session' \in [Sessions -> SessionRecord]
           /\ \A t \in Sessions \ {keepalive.to} : session'[t] = session[t]
           /\ \A t \in Sessions : ClientID(t)' = ClientID(t) /\ session'[t].pc = session[t].pc
           /\ session'[keepalive.to].udpAddress = keepalive.from
           /\ keepalive' = NoKeepalive
           /\ UNCHANGED <<registryVars, steady, task, sent, pushed>>
<1>0. PICK s \in Sessions, x \in Sessions : s = keepalive.to /\ x = keepalive.from
  OBVIOUS
<1> DEFINE r == session[s]
           q == [r EXCEPT !.udpAddress = x]
<1>1. /\ session' = [session EXCEPT ![s] = q] /\ keepalive' = NoKeepalive
      /\ UNCHANGED <<registryVars, steady, task, sent, pushed>>
  BY <1>0 DEF SetUdpAddress, UNCHANGED_registry, UNCHANGED_delivery
<1>2. q \in SessionRecord /\ q.clientID = r.clientID /\ q.udpAddress = x /\ q.pc = r.pc
  BY DEF Registry, SessionRecord
<1> HIDE DEF q
<1> QED
  BY <1>0, <1>1, <1>2 DEF Registry, ClientID

\* A crash keeps of a session only its user.
LEMMA CrashEffect ==
    ASSUME Registry, Crash
    PROVE  /\ session' \in [Sessions -> SessionRecord]
           /\ \A s \in Sessions :
                /\ session'[s].pc \in {"unborn", "closed"} /\ Address(s)' = NoSession
                /\ session'[s].pc = "unborn" => ClientID(s)' = NoUser
<1> SUFFICES ASSUME NEW s \in Sessions
             PROVE  /\ session'[s] \in SessionRecord
                    /\ session'[s].pc \in {"unborn", "closed"} /\ Address(s)' = NoSession
                    /\ session'[s].pc = "unborn" => ClientID(s)' = NoUser
  <2>1. \E f : session' = [s \in Sessions |-> f[s]]
    <3>1. session' = [s \in Sessions |-> session'[s]]
      BY Zenon DEF Crash
    <3> QED
      BY <3>1
  <2> QED
    BY <2>1
<1> DEFINE q == [NewSession EXCEPT !.pc = "closed", !.clientID = session[s].clientID]
<1>1. q \in SessionRecord /\ q.pc = "closed" /\ q.udpAddress = NoSession
  BY Zenon DEF NewSession, SessionRecord, Registry
<1>2. session'[s] = IF At(s, "unborn") THEN NewSession ELSE q
  BY Zenon DEF Crash
<1> HIDE DEF q
<1> QED
  BY <1>1, <1>2, NewRecords DEF ClientID, Address

-----------------------------------------------------------------------------
(* The registry and the addresses.                                         *)

\* A session that has not been accepted is nobody's; the two sessions of a
\* keepalive in progress have one user.
SessionsInv ==
    /\ \A s \in Sessions : session[s].pc = "unborn" => ClientID(s) = NoUser
    /\ keepalive = NoKeepalive \/
         /\ keepalive.from \in Sessions /\ keepalive.to \in Sessions
         /\ ClientID(keepalive.from) = ClientID(keepalive.to)
         /\ ClientID(keepalive.to) # NoUser

\* The user of an open session logged in to this process.
LoggedInKnown ==
    \A s \in Sessions : Live(s) /\ ClientID(s) # NoUser => ClientID(s) \in connectedUsers

RegistryInv ==
    /\ Registry /\ LoggedInKnown /\ SessionsInv
    /\ RegistryPartition /\ RegistryMatchesSessions /\ AddressBelongsToUser

\* At first nobody is registered.
LEMMA RegistryInitially == Init => RegistryInv
<1> SUFFICES ASSUME Init PROVE RegistryInv
  OBVIOUS
<1> USE DEF Init, RegistryInit
<1>1. Registry
  BY NewRecords DEF Registry, RegistryTypeOK
<1>2. RegistryPartition
  BY DEF RegistryPartition, isClientRegistered
<1>3. RegistryMatchesSessions
  BY Zenon DEF RegistryMatchesSessions, isClientRegistered
<1>4. SessionsInv /\ LoggedInKnown
  BY NewRecords DEF SessionsInv, LoggedInKnown, ClientID
<1>5. AddressBelongsToUser
  BY NewRecords DEF AddressBelongsToUser
<1> QED
  BY <1>1, <1>2, <1>3, <1>4, <1>5 DEF RegistryInv

\* A step that changes no user, no address and not the registry.
LEMMA QuietRegistry ==
    ASSUME RegistryInv, session' \in [Sessions -> SessionRecord],
           \A s \in Sessions : /\ ClientID(s)' = ClientID(s) /\ Address(s)' = Address(s)
                               /\ Live(s)' => Live(s) \/ session[s].pc = "unborn"
                               /\ session'[s].pc = "unborn" => session[s].pc = "unborn",
           UNCHANGED <<registryVars, keepalive>>
    PROVE  RegistryInv'
<1> USE DEF RegistryInv, ClientID, Address, registryVars
<1>1. Registry'
  BY DEF Registry, RegistryTypeOK
<1>2. RegistryPartition'
  BY DEF RegistryPartition, isClientRegistered
<1>3. SessionsInv' /\ LoggedInKnown'
  BY DEF SessionsInv, LoggedInKnown
<1>4. AddressBelongsToUser'
  <2> SUFFICES ASSUME NEW s \in Sessions, session'[s].udpAddress # NoSession
               PROVE  /\ session'[s].clientID # NoUser
                      /\ session'[session'[s].udpAddress].clientID = session'[s].clientID
    BY DEF AddressBelongsToUser, Authenticated
  <2>1. Address(s) \in Sessions
    BY DEF Registry, SessionRecord
  <2> QED
    BY <2>1 DEF AddressBelongsToUser, Authenticated
<1>5. RegistryMatchesSessions'
  <2> SUFFICES ASSUME NEW u \in Users
               PROVE  /\ activeSessions'[u] # NoSession => session'[activeSessions'[u]].clientID = u
                      /\ u \in offlineUsers' /\ HasLiveSession(u)' =>
                           \E s, t \in Sessions : s # t /\ session'[s].clientID = u /\ session'[t].clientID = u
    BY DEF RegistryMatchesSessions, isClientRegistered, getSession
  <2>1. activeSessions[u] \in Sessions \cup {NoSession}
    BY DEF Registry, RegistryTypeOK
  <2>2. HasLiveSession(u)' => HasLiveSession(u)
    BY DeliveryAssumption DEF HasLiveSession, Live, SessionsInv
  <2> QED
    BY <2>1, <2>2 DEF RegistryMatchesSessions, isClientRegistered, getSession
<1> QED
  BY <1>1, <1>2, <1>3, <1>4, <1>5

\* A login makes the session the one that serves the user.
LEMMA LoginKeepsRegistry ==
    ASSUME RegistryInv, NEW s \in Sessions, NEW u \in Users, Login(s, u)
    PROVE  RegistryInv'
<1>0. Registry
  BY DEF RegistryInv
<1>1. /\ session' \in [Sessions -> SessionRecord]
      /\ \A t \in Sessions \ {s} : session'[t] = session[t]
      /\ ClientID(s) = NoUser /\ session'[s].clientID = u /\ session'[s].udpAddress = Address(s)
      /\ session'[s].pc = "replied" /\ UNCHANGED keepalive
  BY <1>0, LoginEffect DEF ClientID, Address
<1>2. registerSession(u, s)
  BY <1>0, LoginEffect DEF Register
<1>3. /\ activeSessions' \in [Users -> Sessions \cup {NoSession}]
      /\ activeSessions'[u] = s /\ \A v \in Users \ {u} : activeSessions'[v] = activeSessions[v]
      /\ offlineUsers' = offlineUsers \ {u} /\ connectedUsers' = connectedUsers \cup {u}
  BY <1>0, <1>2 DEF registerSession, Registry, RegistryTypeOK
<1>4. s # NoSession
  BY NoSessionAssumption
<1>5. Registry'
  BY <1>0, <1>1, <1>3 DEF Registry, RegistryTypeOK
<1>6. RegistryPartition'
  BY <1>0, <1>3, <1>4 DEF RegistryInv, RegistryPartition, isClientRegistered, Registry, RegistryTypeOK
<1>7. SessionsInv' /\ LoggedInKnown'
  BY <1>1, <1>3 DEF RegistryInv, SessionsInv, LoggedInKnown, ClientID, Live
<1>8. AddressBelongsToUser'
  <2> SUFFICES ASSUME NEW t \in Sessions, session'[t].udpAddress # NoSession
               PROVE  /\ session'[t].clientID # NoUser
                      /\ session'[session'[t].udpAddress].clientID = session'[t].clientID
    BY DEF AddressBelongsToUser, Authenticated
  <2>1. t # s /\ Address(t) \in Sessions /\ ClientID(t) # NoUser /\ ClientID(Address(t)) = ClientID(t)
    BY <1>0, <1>1 DEF RegistryInv, AddressBelongsToUser, Authenticated, ClientID, Address, Registry, SessionRecord
  <2>2. Address(t) # s
    BY <1>1, <2>1, Zenon
  <2> QED
    BY <1>1, <2>1, <2>2 DEF ClientID, Address
<1>9. RegistryMatchesSessions'
  <2> SUFFICES ASSUME NEW v \in Users
               PROVE  /\ activeSessions'[v] # NoSession => session'[activeSessions'[v]].clientID = v
                      /\ v \in offlineUsers' /\ HasLiveSession(v)' =>
                           \E x, y \in Sessions : x # y /\ session'[x].clientID = v /\ session'[y].clientID = v
    BY DEF RegistryMatchesSessions, isClientRegistered, getSession
  <2>1. CASE v = u
    BY <1>1, <1>3, <2>1, SMTT(30)
  <2>2. CASE v # u
    <3>1. activeSessions[v] # NoSession => activeSessions[v] \in Sessions \ {s} /\ ClientID(activeSessions[v]) = v
      BY <1>0, <1>1, DeliveryAssumption, SMTT(30)
         DEF Registry, RegistryTypeOK, RegistryInv, RegistryMatchesSessions, isClientRegistered, getSession, ClientID
    <3>2. HasLiveSession(v)' => HasLiveSession(v)
      BY <1>1, <2>2 DEF HasLiveSession
    <3>3. v \in offlineUsers /\ HasLiveSession(v) =>
            \E x, y \in Sessions \ {s} : x # y /\ ClientID(x) = v /\ ClientID(y) = v
      BY <1>1, DeliveryAssumption DEF RegistryInv, RegistryMatchesSessions, ClientID
    <3> QED
      BY <1>1, <1>3, <2>2, <3>1, <3>2, <3>3, SMTT(30) DEF ClientID
  <2> QED
    BY <2>1, <2>2, Zenon
<1> QED
  BY <1>5, <1>6, <1>7, <1>8, <1>9 DEF RegistryInv

\* The end of a session makes its user offline, whoever serves the user.
LEMMA LeaveKeepsRegistry ==
    ASSUME RegistryInv, NEW s \in Sessions, Leaves(s)
    PROVE  RegistryInv'
<1>0. Registry
  BY DEF RegistryInv
<1>1. /\ session' \in [Sessions -> SessionRecord]
      /\ \A t \in Sessions : session'[t].clientID = ClientID(t) /\ session'[t].udpAddress = Address(t)
      /\ \A t \in Sessions \ {s} : session'[t] = session[t]
      /\ Live(s) /\ session'[s].pc = "closed" /\ UNCHANGED keepalive
  BY <1>0, LeaveEffect DEF ClientID, Address
<1>2. UnregisterIfLoggedIn(s)
  BY <1>0, LeaveEffect
<1>3. CASE ClientID(s) = NoUser
  <2>1. UNCHANGED <<registryVars, keepalive>>
    BY <1>1, <1>2, <1>3 DEF UnregisterIfLoggedIn, UNCHANGED_registry, ClientID
  <2>2. \A t \in Sessions : /\ ClientID(t)' = ClientID(t) /\ Address(t)' = Address(t)
                            /\ Live(t)' => Live(t) \/ session[t].pc = "unborn"
                            /\ session'[t].pc = "unborn" => session[t].pc = "unborn"
    BY <1>1 DEF Live, ClientID, Address
  <2> QED
    BY <1>1, <2>1, <2>2, QuietRegistry
<1>4. CASE ClientID(s) # NoUser
  <2>1. PICK u \in Users : u = ClientID(s)
    BY <1>0, <1>4 DEF Registry, SessionRecord, ClientID
  <2>2. unregisterSession(u)
    BY <1>2, <1>4, <2>1 DEF UnregisterIfLoggedIn, Unregister, ClientID
  <2>3. /\ activeSessions' \in [Users -> Sessions \cup {NoSession}]
        /\ activeSessions'[u] = NoSession
        /\ \A v \in Users \ {u} : activeSessions'[v] = activeSessions[v]
        /\ offlineUsers' = offlineUsers \cup {u} /\ UNCHANGED connectedUsers
    BY <1>0, <2>2 DEF unregisterSession, Registry, RegistryTypeOK
  <2>4. u \in connectedUsers
    BY <1>1, <1>4, <2>1 DEF RegistryInv, LoggedInKnown
  <2>5. Registry'
    BY <1>0, <1>1, <2>3 DEF Registry, RegistryTypeOK
  <2>6. RegistryPartition'
    BY <1>0, <2>3, <2>4, ZenonT(60) DEF RegistryInv, RegistryPartition, isClientRegistered, Registry, RegistryTypeOK
  <2>7. SessionsInv' /\ LoggedInKnown'
    BY <1>1, <2>3 DEF RegistryInv, SessionsInv, LoggedInKnown, ClientID, Live
  <2>8. AddressBelongsToUser'
    <3> SUFFICES ASSUME NEW t \in Sessions, session'[t].udpAddress # NoSession
                 PROVE  /\ session'[t].clientID # NoUser
                        /\ session'[session'[t].udpAddress].clientID = session'[t].clientID
      BY DEF AddressBelongsToUser, Authenticated
    <3>1. Address(t) \in Sessions /\ ClientID(t) # NoUser /\ ClientID(Address(t)) = ClientID(t)
      BY <1>0, <1>1 DEF RegistryInv, AddressBelongsToUser, Authenticated, ClientID, Address, Registry, SessionRecord
    <3> QED
      BY <1>1, <3>1
  <2>9. RegistryMatchesSessions'
    <3> SUFFICES ASSUME NEW v \in Users
                 PROVE  /\ activeSessions'[v] # NoSession => session'[activeSessions'[v]].clientID = v
                        /\ v \in offlineUsers' /\ HasLiveSession(v)' =>
                             \E x, y \in Sessions : x # y /\ session'[x].clientID = v /\ session'[y].clientID = v
      BY DEF RegistryMatchesSessions, isClientRegistered, getSession
    <3>1. activeSessions'[v] # NoSession => session'[activeSessions'[v]].clientID = v
      BY <1>0, <1>1, <2>3
         DEF Registry, RegistryTypeOK, RegistryInv, RegistryMatchesSessions, isClientRegistered, getSession, ClientID
    <3>2. HasLiveSession(v)' =>
            \E t \in Sessions \ {s} : session[t].clientID = v /\ session[t].pc \notin {"unborn", "closed"}
      BY <1>1, Zenon DEF HasLiveSession
    <3>3. CASE v = u
      BY <1>1, <2>1, <3>1, <3>2, <3>3, ZenonT(60) DEF ClientID
    <3>4. CASE v # u
      <4>1. v \in offlineUsers' /\ HasLiveSession(v)' => v \in offlineUsers /\ HasLiveSession(v)
        BY <2>3, <3>2, <3>4 DEF HasLiveSession
      <4> QED
        BY <1>1, <3>1, <4>1, SMTT(30) DEF RegistryInv, RegistryMatchesSessions, ClientID
    <3> QED
      BY <3>3, <3>4
  <2> QED
    BY <2>5, <2>6, <2>7, <2>8, <2>9, SMTT(30) DEF RegistryInv
<1> QED
  BY <1>3, <1>4

\* A keepalive is for the session that serves its user.
LEMMA FindKeepsRegistry ==
    ASSUME RegistryInv, NEW s \in Sessions, FindSession(s)
    PROVE  RegistryInv'
<1>0. Registry
  BY DEF RegistryInv
<1>1. PICK u \in Users : u = ClientID(s)
  BY <1>0 DEF FindSession, Authenticated, Registry, SessionRecord, ClientID
<1>2. PICK t \in Sessions : t = activeSessions[u]
  BY <1>0, <1>1 DEF FindSession, isClientRegistered, Registry, RegistryTypeOK, ClientID
<1>3. ClientID(t) = u
  BY <1>2, NoSessionAssumption DEF RegistryInv, RegistryMatchesSessions, isClientRegistered, getSession, ClientID
<1>4. keepalive' = [from |-> s, to |-> t] /\ UNCHANGED <<registryVars, session>>
  BY <1>1, <1>2 DEF FindSession, getSession, UNCHANGED_registry, ClientID
<1>5. keepalive'.from = s /\ keepalive'.to = t
  BY <1>4, Zenon
<1>6. SessionsInv'
  BY <1>1, <1>3, <1>4, <1>5, DeliveryAssumption, ZenonT(60) DEF SessionsInv, ClientID, RegistryInv
<1>7. /\ Registry' /\ LoggedInKnown' /\ RegistryPartition'
      /\ RegistryMatchesSessions' /\ AddressBelongsToUser'
  BY <1>4 DEF RegistryInv, Registry, RegistryTypeOK, LoggedInKnown, RegistryPartition, RegistryMatchesSessions,
              AddressBelongsToUser, HasLiveSession, Authenticated, isClientRegistered, getSession,
              ClientID, Live, registryVars
<1> QED
  BY <1>6, <1>7 DEF RegistryInv

\* The address that it stores is of a client of the session's user.
LEMMA AddressKeepsRegistry ==
    ASSUME RegistryInv, SetUdpAddress
    PROVE  RegistryInv'
<1>0. Registry
  BY DEF RegistryInv
<1>1. PICK to, from \in Sessions : /\ to = keepalive.to /\ from = keepalive.from
                                   /\ ClientID(from) = ClientID(to) /\ ClientID(to) # NoUser
  BY Zenon DEF RegistryInv, SessionsInv, SetUdpAddress
<1>2. /\ session' \in [Sessions -> SessionRecord]
      /\ \A t \in Sessions \ {to} : session'[t] = session[t]
      /\ \A t \in Sessions : session'[t].clientID = ClientID(t) /\ session'[t].pc = session[t].pc
      /\ session'[to].udpAddress = from
      /\ keepalive' = NoKeepalive
      /\ UNCHANGED registryVars
  BY <1>0, <1>1, AddressEffect DEF ClientID
<1>3. Registry' /\ RegistryPartition'
  BY <1>0, <1>2, Zenon DEF RegistryInv, Registry, RegistryTypeOK, RegistryPartition, isClientRegistered, registryVars
<1>4. SessionsInv' /\ LoggedInKnown'
  BY <1>2 DEF RegistryInv, SessionsInv, LoggedInKnown, ClientID, Live, registryVars
<1>5. AddressBelongsToUser'
  <2> SUFFICES ASSUME NEW t \in Sessions, session'[t].udpAddress # NoSession
               PROVE  /\ session'[t].clientID # NoUser
                      /\ session'[session'[t].udpAddress].clientID = session'[t].clientID
    BY Zenon DEF AddressBelongsToUser, Authenticated
  <2>1. CASE t = to
    BY <1>1, <1>2, <2>1
  <2>2. CASE t # to
    <3>1. Address(t) \in Sessions /\ ClientID(t) # NoUser /\ ClientID(Address(t)) = ClientID(t)
      BY <1>0, <1>2, <2>2, ZenonT(60) DEF RegistryInv, AddressBelongsToUser, Authenticated, ClientID, Address, Registry, SessionRecord
    <3> QED
      BY <1>2, <2>2, <3>1 DEF Address
  <2> QED
    BY <2>1, <2>2
<1>6. RegistryMatchesSessions'
  <2> SUFFICES ASSUME NEW v \in Users
               PROVE  /\ activeSessions'[v] # NoSession => session'[activeSessions'[v]].clientID = v
                      /\ v \in offlineUsers' /\ HasLiveSession(v)' =>
                           \E x, y \in Sessions : x # y /\ session'[x].clientID = v /\ session'[y].clientID = v
    BY DEF RegistryMatchesSessions, isClientRegistered, getSession
  <2>1. activeSessions' = activeSessions /\ offlineUsers' = offlineUsers
    BY <1>2 DEF registryVars
  <2>2. activeSessions[v] \in Sessions \cup {NoSession}
    BY <1>0 DEF Registry, RegistryTypeOK
  <2>3. HasLiveSession(v)' => HasLiveSession(v)
    BY <1>2 DEF HasLiveSession, ClientID
  <2> QED
    BY <1>2, <2>1, <2>2, <2>3
       DEF RegistryInv, RegistryMatchesSessions, isClientRegistered, getSession, ClientID
<1> QED
  BY <1>3, <1>4, <1>5, <1>6 DEF RegistryInv

\* After a crash the registry is empty.
LEMMA CrashKeepsRegistry ==
    ASSUME RegistryInv, Crash
    PROVE  RegistryInv'
<1>1. /\ session' \in [Sessions -> SessionRecord]
      /\ \A s \in Sessions :
           /\ session'[s].pc \in {"unborn", "closed"} /\ session'[s].udpAddress = NoSession
           /\ session'[s].pc = "unborn" => session'[s].clientID = NoUser
  BY CrashEffect DEF RegistryInv, Address, ClientID
<1>2. /\ activeSessions' = [u \in Users |-> NoSession] /\ offlineUsers' = {} /\ connectedUsers' = {}
      /\ keepalive' = NoKeepalive
  BY Zenon DEF Crash
<1>3. Registry'
  BY <1>1, <1>2 DEF Registry, RegistryTypeOK
<1>4. RegistryPartition'
  BY <1>2 DEF RegistryPartition, isClientRegistered
<1>5. RegistryMatchesSessions'
  BY <1>2, Zenon DEF RegistryMatchesSessions, isClientRegistered
<1>6. SessionsInv' /\ LoggedInKnown'
  BY <1>1, <1>2 DEF SessionsInv, LoggedInKnown, ClientID, Live
<1>7. AddressBelongsToUser'
  BY <1>1 DEF AddressBelongsToUser
<1> QED
  BY <1>3, <1>4, <1>5, <1>6, <1>7 DEF RegistryInv

\* Every step keeps the registry, the sessions and the addresses in agreement.
LEMMA RegistryStep == RegistryInv /\ [Next]_vars => RegistryInv'
<1> SUFFICES ASSUME RegistryInv, [Next]_vars
             PROVE  RegistryInv'
  OBVIOUS
<1>0. Registry
  BY DEF RegistryInv
<1>1. ASSUME UNCHANGED <<registryVars, session, keepalive>>
      PROVE  RegistryInv'
  BY <1>0, <1>1, QuietRegistry, Zenon DEF Registry, ClientID, Address, Live
<1>2. ASSUME NEW s \in Sessions, Plain(s)
      PROVE  RegistryInv'
  <2>1. /\ session' \in [Sessions -> SessionRecord] /\ UNCHANGED <<registryVars, keepalive>>
        /\ \A t \in Sessions \ {s} : session'[t] = session[t]
        /\ ClientID(s)' = ClientID(s) /\ Address(s)' = Address(s) /\ session'[s].pc # "unborn"
        /\ Live(s)' => Live(s) \/ session[s].pc = "unborn"
    BY <1>0, <1>2, PlainEffect, Zenon
  <2>2. \A t \in Sessions : /\ ClientID(t)' = ClientID(t) /\ Address(t)' = Address(t)
                            /\ Live(t)' => Live(t) \/ session[t].pc = "unborn"
                            /\ session'[t].pc = "unborn" => session[t].pc = "unborn"
    BY <2>1 DEF ClientID, Address, Live
  <2> QED
    BY <2>1, <2>2, QuietRegistry, Zenon
<1>3. ASSUME NEW s \in Sessions, SessionStep(s)
      PROVE  RegistryInv'
  <2>1. Plain(s) \/ Leaves(s) \/ \E u \in Users : Login(s, u)
    BY <1>3 DEF SessionStep, Plain, Leaves
  <2> QED
    BY <1>2, <2>1, LeaveKeepsRegistry, LoginKeepsRegistry
<1>4. ASSUME NEW a \in Alerts, AlertStep(a)
      PROVE  RegistryInv'
  <2>1. UNCHANGED <<registryVars, session, keepalive>>
    BY <1>4, Zenon DEF AlertStep, RejectAlert, BroadcastActive, BroadcastOffline, EnterPush, PushEvent,
                UNCHANGED_sessions, UNCHANGED_registry, sessionVars
  <2> QED
    BY <1>1, <2>1
<1>5. CASE UNCHANGED vars
  BY <1>1, <1>5 DEF vars, sessionVars
<1> QED
  BY <1>3, <1>4, <1>5, FindKeepsRegistry, AddressKeepsRegistry, CrashKeepsRegistry DEF Next

\* The registry and the addresses agree with the sessions in every state.
LEMMA RegistryHolds == Spec => []RegistryInv
BY RegistryInitially, RegistryStep, PTL DEF Spec

\* registerSession and unregisterSession keep every user that logged in either
\* served or offline, never both and never neither, with any number of users,
\* sessions and crashes.
THEOREM Partition == Spec => []RegistryPartition
BY RegistryHolds, PTL DEF RegistryInv

\* The registry serves a user with a session of that user, and only another
\* session's end makes a user with a live session offline.
THEOREM Matches == Spec => []RegistryMatchesSessions
BY RegistryHolds, PTL DEF RegistryInv

\* handleKeepalive never stores the address of one user's client in another
\* user's session, though its lookup and its write are apart.
THEOREM Addresses == Spec => []AddressBelongsToUser
BY RegistryHolds, PTL DEF RegistryInv

-----------------------------------------------------------------------------
(* The two channels of an alert.                                           *)

\* What an event appended to a queue adds to it.
LEMMA ElementsAppend ==
    ASSUME NEW T, NEW q \in Seq(T), NEW e \in T
    PROVE  Append(q, e) \in Seq(T) /\ Elements(Append(q, e)) = Elements(q) \cup {e}
<1>1. /\ Append(q, e) \in Seq(T) /\ Len(Append(q, e)) = Len(q) + 1 /\ Len(q) \in Nat
      /\ Append(q, e)[Len(q) + 1] = e /\ \A i \in 1..Len(q) : Append(q, e)[i] = q[i]
  OBVIOUS
<1> DEFINE r == Append(q, e)
<1> HIDE DEF r
<1>2. /\ Len(r) = Len(q) + 1 /\ Len(q) \in Nat
      /\ r[Len(q) + 1] = e /\ \A i \in 1..Len(q) : r[i] = q[i]
  BY <1>1 DEF r
<1>3. \A x : x \in Elements(r) <=> x \in Elements(q) \/ x = e
  <2> SUFFICES ASSUME NEW x PROVE (\E i \in 1..Len(r) : x = r[i]) <=> (\E i \in 1..Len(q) : x = q[i]) \/ x = e
    BY SMTT(30) DEF Elements
  <2>1. ASSUME NEW i \in 1..Len(r), x = r[i] PROVE (\E j \in 1..Len(q) : x = q[j]) \/ x = e
    BY <1>2, <2>1
  <2>2. ASSUME NEW i \in 1..Len(q), x = q[i] PROVE \E j \in 1..Len(r) : x = r[j]
    BY <1>2, <2>2
  <2>3. x = e => \E j \in 1..Len(r) : x = r[j]
    BY <1>2
  <2> QED
    BY <2>1, <2>2, <2>3
<1> QED
  BY <1>1, <1>3 DEF r

ChannelTypes ==
    /\ task \in [Alerts -> TaskRecord]
    /\ sent \in [Alerts -> SUBSET Sessions]
    /\ steady \in [Alerts -> SUBSET Users]
    /\ pushed \in [Users -> Seq(Alerts)]

\* An alert goes to sessions that have a user, and a session keeps its user.
SentToUsers == \A a \in Alerts : \A s \in sent[a] : ClientID(s) # NoUser

\* Between the two looks of broadcastMessage a steady user was sent the alert
\* or is offline; after them it was sent the alert, or is still to be served by
\* the loop, or has the alert queued.
Channel(a, u) ==
    /\ task[a].pc \in {"arriving", "rejected", "offline"} => ~QueuedFor(a, u)
    /\ task[a].pc = "offline" /\ u \in steady[a] => (SentTo(a, u) <=> u \notin offlineUsers)
    /\ task[a].pc \in {"queueing", "pushing", "done"} /\ u \in steady[a] =>
          (SentTo(a, u) <=> ~(u \in task[a].offline \/ QueuedFor(a, u)))

Loop(a) ==
    /\ task[a].pc = "pushing" => task[a].user \in task[a].offline
    /\ task[a].pc = "done" => task[a].offline = {}

ChannelInv ==
    /\ ChannelTypes
    /\ SentToUsers
    /\ \A a \in Alerts : Loop(a) /\ \A u \in Users : Channel(a, u)

\* No alert has come yet.
LEMMA ChannelInitially == Init => ChannelInv
<1> SUFFICES ASSUME Init PROVE ChannelInv
  OBVIOUS
<1>1. /\ \A a \in Alerts : task[a] = NewTask /\ sent[a] = {} /\ steady[a] = {}
      /\ \A u \in Users : pushed[u] = <<>>
  BY Zenon DEF Init
<1>2. ChannelTypes
  BY NewRecords DEF Init, ChannelTypes
<1>3. \A a \in Alerts, u \in Users : ~QueuedFor(a, u)
  <2>1. Elements(<<>>) = {}
    BY DEF Elements
  <2> QED
    BY <1>1, <2>1, Zenon DEF QueuedFor
<1> QED
  BY <1>1, <1>2, <1>3, NewRecords, Zenon DEF ChannelInv, SentToUsers, Loop, Channel

\* A step that is not of an alert: no session changes its user, and whoever is
\* registered or unregistered during a broadcast is not steady for it.
LEMMA QuietChannel ==
    ASSUME ChannelInv, ChannelTypes',
           \A s \in Sessions : ClientID(s) # NoUser => ClientID(s)' = ClientID(s),
           \A a \in Alerts : /\ steady'[a] \subseteq steady[a]
                             /\ task[a].pc = "offline" =>
                                  \A u \in steady'[a] : u \in offlineUsers' <=> u \in offlineUsers,
           UNCHANGED <<task, sent, pushed>>
    PROVE  ChannelInv'
<1>1. SentToUsers'
  BY Zenon DEF ChannelInv, SentToUsers, ChannelTypes, ClientID
<1>2. ASSUME NEW a \in Alerts, NEW u \in Users
      PROVE  (SentTo(a, u)' <=> SentTo(a, u)) /\ (QueuedFor(a, u)' <=> QueuedFor(a, u))
  <2>1. \A s \in sent[a] : session'[s].clientID = session[s].clientID
    BY Zenon DEF ChannelInv, SentToUsers, ChannelTypes, ClientID
  <2> QED
    BY <2>1, Zenon DEF SentTo, QueuedFor
<1>3. ASSUME NEW a \in Alerts, NEW u \in Users
      PROVE  Channel(a, u)'
  BY <1>2, Zenon DEF ChannelInv, Channel
<1>4. \A a \in Alerts : Loop(a)'
  BY Zenon DEF ChannelInv, Loop
<1> QED
  BY <1>1, <1>3, <1>4, Zenon DEF ChannelInv

\* The alerts that a step of alert a leaves alone.
LEMMA OtherAlerts ==
    ASSUME ChannelInv, NEW a \in Alerts, NEW b \in Alerts, a # b,
           task'[b] = task[b], sent'[b] = sent[b], steady'[b] = steady[b],
           \A u \in Users : QueuedFor(b, u)' <=> QueuedFor(b, u),
           UNCHANGED <<session, offlineUsers>>
    PROVE  /\ Loop(b)' /\ \A u \in Users : Channel(b, u)'
           /\ \A s \in sent'[b] : ClientID(s)' # NoUser
<1>1. \A u \in Users : SentTo(b, u)' <=> SentTo(b, u)
  BY DEF SentTo
<1> QED
  BY <1>1, Zenon DEF ChannelInv, Channel, Loop, SentToUsers, ClientID

\* broadcastMessage sends to the addresses of the users that have one.
LEMMA FirstLook ==
    ASSUME RegistryInv, NEW u \in Users
    PROVE  /\ ActiveUdpAddresses \subseteq Sessions
           /\ \A x \in ActiveUdpAddresses : ClientID(x) # NoUser
           /\ (\E x \in ActiveUdpAddresses : session[x].clientID = u) <=> HasAddress(u)
<1>1. ASSUME NEW x \in ActiveUdpAddresses
      PROVE  /\ x \in Sessions /\ ClientID(x) # NoUser
             /\ ClientID(x) = u => HasAddress(u)
  <2>1. PICK v \in Users : /\ isClientRegistered(v) /\ x = session[activeSessions[v]].udpAddress /\ x # NoSession
    BY DEF ActiveUdpAddresses, getSession
  <2>2. PICK s \in Sessions : s = activeSessions[v]
    BY <2>1, Zenon DEF RegistryInv, Registry, RegistryTypeOK, isClientRegistered
  <2>3. ClientID(s) = v
    BY <2>1, <2>2 DEF RegistryInv, RegistryMatchesSessions, getSession, ClientID
  <2>4. x \in Sessions
    BY <2>1, <2>2, Zenon DEF RegistryInv, Registry, SessionRecord
  <2>5. ClientID(x) = v
    BY <2>1, <2>2, <2>3 DEF RegistryInv, AddressBelongsToUser, ClientID
  <2> QED
    BY <2>1, <2>4, <2>5, DeliveryAssumption, SMTT(30) DEF HasAddress, getSession
<1>2. ASSUME HasAddress(u)
      PROVE  \E x \in ActiveUdpAddresses : session[x].clientID = u
  <2>1. PICK s \in Sessions : s = activeSessions[u] /\ session[s].udpAddress # NoSession
    BY <1>2, Zenon DEF RegistryInv, Registry, RegistryTypeOK, isClientRegistered, HasAddress, getSession
  <2>2. ClientID(s) = u
    BY <1>2, <2>1, Zenon DEF RegistryInv, RegistryMatchesSessions, getSession, HasAddress, ClientID
  <2>3. session[session[s].udpAddress].clientID = u
    BY <2>1, <2>2, Zenon DEF RegistryInv, AddressBelongsToUser, ClientID
  <2>4. session[s].udpAddress \in ActiveUdpAddresses
    BY <1>2, <2>1, Zenon DEF ActiveUdpAddresses, getSession, HasAddress
  <2> QED
    BY <2>3, <2>4
<1> QED
  BY <1>1, <1>2 DEF ClientID

\* The first look at the registry: a user with an address is sent the alert,
\* an offline user is not.
LEMMA BroadcastKeepsChannel ==
    ASSUME RegistryInv, ChannelInv, NEW a \in Alerts, BroadcastActive(a)
    PROVE  ChannelInv'
<1> DEFINE r == task[a]
           q == [r EXCEPT !.pc = "offline"]
           first == ActiveUdpAddresses
           who == offlineUsers \cup {u \in Users : HasAddress(u)}
<1>1. /\ task' = [task EXCEPT ![a] = q] /\ r.pc = "arriving"
      /\ sent' = [sent EXCEPT ![a] = first] /\ steady' = [steady EXCEPT ![a] = who]
      /\ UNCHANGED <<session, offlineUsers, pushed>>
  BY DEF BroadcastActive, registryVars, sessionVars
<1>2. q \in TaskRecord /\ q.pc = "offline"
  BY Zenon DEF ChannelInv, ChannelTypes, TaskRecord
<1>3. /\ first \subseteq Sessions /\ \A x \in first : ClientID(x) # NoUser
      /\ \A u \in Users : (\E x \in first : session[x].clientID = u) <=> HasAddress(u)
  <2>1. CASE Users = {}
    BY <2>1 DEF ActiveUdpAddresses
  <2>2. CASE Users # {}
    BY <2>2, FirstLook, Zenon
  <2> QED
    BY <2>1, <2>2
<1>4. who \subseteq Users /\ \A u \in who : HasAddress(u) <=> u \notin offlineUsers
  BY Zenon DEF RegistryInv, Registry, RegistryTypeOK, RegistryPartition, HasAddress
<1> HIDE DEF q, first, who
<1>5. ChannelTypes'
  BY <1>1, <1>2, <1>3, <1>4, Zenon DEF ChannelInv, ChannelTypes
<1>6. /\ task'[a] = q /\ sent'[a] = first /\ steady'[a] = who
      /\ \A b \in Alerts \ {a} : task'[b] = task[b] /\ sent'[b] = sent[b] /\ steady'[b] = steady[b]
  BY <1>1 DEF ChannelInv, ChannelTypes
<1>7. \A b \in Alerts, u \in Users : QueuedFor(b, u)' <=> QueuedFor(b, u)
  BY <1>1, Zenon DEF QueuedFor
<1>8. ASSUME NEW b \in Alerts \ {a}
      PROVE  /\ Loop(b)' /\ \A u \in Users : Channel(b, u)'
             /\ \A s \in sent'[b] : ClientID(s)' # NoUser
  BY <1>1, <1>6, <1>7, OtherAlerts, Zenon
<1>9. Loop(a)'
  BY <1>2, <1>6 DEF Loop
<1>10. \A s \in sent'[a] : ClientID(s)' # NoUser
  BY <1>1, <1>3, <1>6, Zenon DEF ClientID
<1>11. ASSUME NEW u \in Users PROVE Channel(a, u)'
  <2>1. ~QueuedFor(a, u)'
    BY <1>1, <1>7, Zenon DEF ChannelInv, Channel
  <2>2. SentTo(a, u)' <=> HasAddress(u)
    BY <1>1, <1>3, <1>6, Zenon DEF SentTo
  <2> QED
    BY <1>1, <1>2, <1>4, <1>6, <2>1, <2>2, Zenon DEF Channel
<1>12. SentToUsers'
  BY <1>8, <1>10, Zenon DEF SentToUsers
<1> QED
  BY <1>5, <1>8, <1>9, <1>11, <1>12 DEF ChannelInv

\* The steps of an alert that only its own record tells.
LEMMA TaskKeepsChannel ==
    ASSUME RegistryInv, ChannelInv, NEW a \in Alerts, NEW q \in TaskRecord,
           task' = [task EXCEPT ![a] = q],
           UNCHANGED <<session, offlineUsers, sent, steady, pushed>>,
           \/ task[a].pc = "arriving" /\ q.pc = "rejected"
           \/ task[a].pc = "offline" /\ q.pc = NextPush(offlineUsers) /\ q.offline = offlineUsers
           \/ /\ task[a].pc = "queueing" /\ q.pc = "pushing"
              /\ q.offline = task[a].offline /\ q.user \in q.offline
    PROVE  ChannelInv'
<1>1. ChannelTypes'
  BY Zenon DEF ChannelInv, ChannelTypes
<1>2. task'[a] = q /\ \A b \in Alerts \ {a} : task'[b] = task[b]
  BY Zenon DEF ChannelInv, ChannelTypes
<1>3. \A b \in Alerts, u \in Users : QueuedFor(b, u)' <=> QueuedFor(b, u)
  BY Zenon DEF QueuedFor
<1>4. ASSUME NEW b \in Alerts \ {a}
      PROVE  Loop(b)' /\ \A u \in Users : Channel(b, u)'
  BY <1>2, <1>3, OtherAlerts, Zenon
<1>5. \A u \in Users : SentTo(a, u)' <=> SentTo(a, u)
  BY Zenon DEF SentTo
<1>6. Loop(a)'
  BY <1>2, Zenon DEF Loop, NextPush
<1>7. ASSUME NEW u \in Users PROVE Channel(a, u)'
  <2>0. Channel(a, u)
    BY Zenon DEF ChannelInv
  <2>1. CASE task[a].pc = "arriving" /\ q.pc = "rejected"
    BY <1>2, <1>3, <2>0, <2>1, Zenon DEF Channel
  <2>2. CASE task[a].pc = "offline" /\ q.pc = NextPush(offlineUsers) /\ q.offline = offlineUsers
    BY <1>2, <1>3, <1>5, <2>0, <2>2, Zenon DEF Channel, NextPush
  <2>3. CASE task[a].pc = "queueing" /\ q.pc = "pushing" /\ q.offline = task[a].offline
    BY <1>2, <1>3, <1>5, <2>0, <2>3, Zenon DEF Channel
  <2> QED
    BY <2>1, <2>2, <2>3, Zenon
<1>8. SentToUsers'
  BY DEF ChannelInv, SentToUsers, ClientID
<1> QED
  BY <1>1, <1>4, <1>6, <1>7, <1>8, Zenon DEF ChannelInv

\* pushEvent moves a user from the rest of the loop to the queued ones.
LEMMA PushKeepsChannel ==
    ASSUME RegistryInv, ChannelInv, NEW a \in Alerts, PushEvent(a)
    PROVE  ChannelInv'
<1>0. PICK u \in Users : u = task[a].user /\ u \in task[a].offline /\ task[a].pc = "pushing"
  BY Zenon DEF PushEvent, ChannelInv, Loop, ChannelTypes, TaskRecord
<1> DEFINE remaining == task[a].offline \ {u}
           q == [pc |-> NextPush(remaining), offline |-> remaining, user |-> NoUser]
           p == Append(pushed[u], a)
<1>1. /\ task' = [task EXCEPT ![a] = q] /\ pushed' = [pushed EXCEPT ![u] = p]
      /\ UNCHANGED <<session, offlineUsers, sent, steady>>
  BY <1>0, Zenon DEF PushEvent, UNCHANGED_sessions, UNCHANGED_registry, registryVars, sessionVars
<1>2. q \in TaskRecord /\ q.offline = remaining /\ q.pc = NextPush(remaining)
  BY DEF ChannelInv, ChannelTypes, TaskRecord, NextPush
<1>3. p \in Seq(Alerts) /\ Elements(p) = Elements(pushed[u]) \cup {a}
  BY ElementsAppend DEF ChannelInv, ChannelTypes
<1> HIDE DEF q, p
<1>4. ChannelTypes'
  BY <1>1, <1>2, <1>3, Zenon DEF ChannelInv, ChannelTypes
<1>5. /\ task'[a] = q /\ \A b \in Alerts \ {a} : task'[b] = task[b]
      /\ pushed'[u] = p /\ \A v \in Users \ {u} : pushed'[v] = pushed[v]
  BY <1>1, Zenon DEF ChannelInv, ChannelTypes
<1>6. /\ QueuedFor(a, u)' /\ \A v \in Users \ {u} : QueuedFor(a, v)' <=> QueuedFor(a, v)
      /\ \A b \in Alerts \ {a}, v \in Users : QueuedFor(b, v)' <=> QueuedFor(b, v)
  <2>1. \A v \in Users \ {u} : Elements(pushed'[v]) = Elements(pushed[v])
    BY <1>5
  <2>2. Elements(pushed'[u]) = Elements(pushed[u]) \cup {a}
    BY <1>3, <1>5
  <2>3. \A b \in Alerts, v \in Users : QueuedFor(b, v)' <=> b \in Elements(pushed'[v])
    BY Zenon DEF QueuedFor, Elements
  <2> QED
    BY <2>1, <2>2, <2>3, Zenon DEF QueuedFor
<1>7. ASSUME NEW b \in Alerts \ {a}
      PROVE  Loop(b)' /\ \A v \in Users : Channel(b, v)'
  BY <1>1, <1>5, <1>6, <1>7, OtherAlerts, Zenon
<1>8. Loop(a)'
  BY <1>2, <1>5, Zenon DEF Loop, NextPush
<1>9. ASSUME NEW v \in Users PROVE Channel(a, v)'
  <2>1. SentTo(a, v)' <=> SentTo(a, v)
    BY <1>1, Zenon DEF SentTo
  <2>2. v \in steady[a] => (SentTo(a, v) <=> ~(v \in task[a].offline \/ QueuedFor(a, v)))
    BY <1>0, Zenon DEF ChannelInv, Channel
  <2>3. v \in q.offline \/ QueuedFor(a, v)' <=> v \in task[a].offline \/ QueuedFor(a, v)
    BY <1>0, <1>2, <1>6, Zenon
  <2>4. q.pc \in {"queueing", "done"}
    BY <1>2, Zenon DEF NextPush
  <2> QED
    BY <1>1, <1>5, <2>1, <2>2, <2>3, <2>4, Zenon DEF Channel
<1>10. SentToUsers'
  BY <1>1 DEF ChannelInv, SentToUsers, ClientID
<1> QED
  BY <1>4, <1>7, <1>8, <1>9, <1>10, Zenon DEF ChannelInv

\* A step of an alert.
LEMMA AlertKeepsChannel ==
    ASSUME RegistryInv, ChannelInv, NEW a \in Alerts, AlertStep(a)
    PROVE  ChannelInv'
<1> DEFINE r == task[a]
<1>0. r \in TaskRecord
  BY DEF ChannelInv, ChannelTypes
<1> USE DEF UNCHANGED_sessions, UNCHANGED_registry, registryVars, sessionVars
<1>1. CASE RejectAlert(a)
  <2> DEFINE q == [r EXCEPT !.pc = "rejected"]
  <2>1. q \in TaskRecord /\ q.pc = "rejected"
    BY <1>0 DEF TaskRecord
  <2>2. /\ task' = [task EXCEPT ![a] = q] /\ r.pc = "arriving"
        /\ UNCHANGED <<session, offlineUsers, sent, steady, pushed>>
    BY <1>1 DEF RejectAlert
  <2> HIDE DEF q
  <2> QED
    BY <2>1, <2>2, TaskKeepsChannel, Zenon
<1>2. CASE BroadcastOffline(a)
  <2> DEFINE q == [r EXCEPT !.pc = NextPush(offlineUsers), !.offline = offlineUsers]
  <2>1. q \in TaskRecord /\ q.pc = NextPush(offlineUsers) /\ q.offline = offlineUsers
    BY <1>0, Zenon DEF TaskRecord, NextPush, RegistryInv, Registry, RegistryTypeOK
  <2>2. /\ task' = [task EXCEPT ![a] = q] /\ r.pc = "offline"
        /\ UNCHANGED <<session, offlineUsers, sent, steady, pushed>>
    BY <1>2 DEF BroadcastOffline
  <2> HIDE DEF q
  <2> QED
    BY <2>1, <2>2, TaskKeepsChannel, Zenon
<1>3. ASSUME NEW u \in Users, EnterPush(a, u) PROVE ChannelInv'
  <2> DEFINE q == [r EXCEPT !.pc = "pushing", !.user = u]
  <2>1. q \in TaskRecord /\ q.pc = "pushing" /\ q.offline = r.offline /\ q.user = u
    BY <1>0, Zenon DEF TaskRecord
  <2>2. /\ task' = [task EXCEPT ![a] = q] /\ r.pc = "queueing" /\ u \in r.offline
        /\ UNCHANGED <<session, offlineUsers, sent, steady, pushed>>
    BY <1>3 DEF EnterPush
  <2> HIDE DEF q
  <2> QED
    BY <2>1, <2>2, TaskKeepsChannel, Zenon
<1> QED
  BY <1>1, <1>2, <1>3, BroadcastKeepsChannel, PushKeepsChannel, SMTT(30) DEF AlertStep

\* A crash forgets what was sent and queued for every alert.
LEMMA CrashKeepsChannel == ChannelInv /\ Crash => ChannelInv'
<1> SUFFICES ASSUME ChannelInv, Crash PROVE ChannelInv'
  OBVIOUS
<1> DEFINE q == [NewTask EXCEPT !.pc = "rejected"]
<1>1. q \in TaskRecord /\ q.pc = "rejected"
  BY NewRecords DEF TaskRecord
<1>2. /\ task' = [a \in Alerts |-> IF task[a].pc = "arriving" THEN NewTask ELSE q]
      /\ sent' = [a \in Alerts |-> {}] /\ steady' = [a \in Alerts |-> {}]
      /\ pushed' = [u \in Users |-> <<>>]
  BY Zenon DEF Crash
<1> HIDE DEF q
<1>3. ChannelTypes'
  BY <1>1, <1>2, NewRecords DEF ChannelTypes
<1>4. \A a \in Alerts, u \in Users : ~QueuedFor(a, u)'
  <2>1. Elements(<<>>) = {}
    BY DEF Elements
  <2>2. \A u \in Users : Elements(pushed'[u]) = {}
    BY <1>2, <2>1, Zenon
  <2> QED
    BY <2>2, Zenon DEF QueuedFor, Elements
<1>5. \A a \in Alerts : task'[a].pc \in {"arriving", "rejected"} /\ sent'[a] = {}
  BY <1>1, <1>2, NewRecords, Zenon
<1> QED
  BY <1>3, <1>4, <1>5, Zenon DEF ChannelInv, SentToUsers, Loop, Channel

\* A change of one user's registration.
LEMMA DisturbEffect ==
    ASSUME ChannelInv, NEW u \in Users, Disturb(u),
           \A v \in Users \ {u} : v \in offlineUsers' <=> v \in offlineUsers,
           UNCHANGED <<task, sent, pushed>>
    PROVE  /\ ChannelTypes'
           /\ \A a \in Alerts : /\ steady'[a] \subseteq steady[a]
                                /\ task[a].pc = "offline" =>
                                     \A v \in steady'[a] : v \in offlineUsers' <=> v \in offlineUsers
<1>1. \A a \in Alerts : steady'[a] = IF task[a].pc = "offline" THEN steady[a] \ {u} ELSE steady[a]
  BY DEF Disturb
<1>2. steady' \in [Alerts -> SUBSET Users]
  BY DEF Disturb, ChannelInv, ChannelTypes
<1> QED
  BY <1>1, <1>2, Zenon DEF ChannelInv, ChannelTypes

\* Every step keeps every alert in one channel for every steady user.
LEMMA ChannelStep == RegistryInv /\ ChannelInv /\ [Next]_vars => ChannelInv'
<1> SUFFICES ASSUME RegistryInv, ChannelInv, [Next]_vars
             PROVE  ChannelInv'
  OBVIOUS
<1>0. Registry
  BY Zenon DEF RegistryInv
<1>1. ASSUME \A s \in Sessions : ClientID(s)' = ClientID(s),
             UNCHANGED <<registryVars, steady, task, sent, pushed>>
      PROVE  ChannelInv'
  <2>1. ChannelTypes'
    BY <1>1, Zenon DEF ChannelInv, ChannelTypes
  <2> QED
    BY <1>1, <2>1, QuietChannel, Zenon DEF registryVars
<1>2. ASSUME NEW s \in Sessions, Plain(s)
      PROVE  ChannelInv'
  <2>1. /\ \A t \in Sessions \ {s} : session'[t] = session[t]
        /\ ClientID(s)' = ClientID(s) /\ UNCHANGED <<registryVars, steady, task, sent, pushed>>
    BY <1>0, <1>2, PlainEffect
  <2> QED
    BY <1>1, <2>1, Zenon DEF ClientID
<1>3. ASSUME NEW s \in Sessions, Leaves(s)
      PROVE  ChannelInv'
  <2>1. /\ \A t \in Sessions \ {s} : session'[t] = session[t]
        /\ ClientID(s)' = ClientID(s) /\ UNCHANGED <<task, sent, pushed>>
    BY <1>0, <1>3, LeaveEffect, Zenon
  <2>2. UnregisterIfLoggedIn(s)
    BY <1>0, <1>3, LeaveEffect
  <2>3. \A t \in Sessions : ClientID(t)' = ClientID(t)
    BY <2>1, Zenon DEF ClientID
  <2>4. CASE ClientID(s) = NoUser
    BY <1>1, <2>1, <2>2, <2>3, <2>4, ZenonT(60) DEF UnregisterIfLoggedIn, UNCHANGED_registry, ClientID
  <2>5. CASE ClientID(s) # NoUser
    <3>1. PICK u \in Users : u = ClientID(s)
      BY <1>0, <2>5, Zenon DEF Registry, SessionRecord, ClientID
    <3>2. Disturb(u) /\ offlineUsers' = offlineUsers \cup {u}
      BY <2>2, <2>5, <3>1 DEF UnregisterIfLoggedIn, Unregister, unregisterSession, ClientID
    <3> QED
      BY <2>1, <2>3, <3>2, DisturbEffect, QuietChannel
  <2> QED
    BY <2>4, <2>5, Zenon
<1>4. ASSUME NEW s \in Sessions, NEW u \in Users, Login(s, u)
      PROVE  ChannelInv'
  <2>1. /\ \A t \in Sessions \ {s} : session'[t] = session[t]
        /\ ClientID(s) = NoUser /\ UNCHANGED <<task, sent, pushed>>
    BY <1>0, <1>4, LoginEffect, Zenon
  <2>2. Disturb(u) /\ offlineUsers' = offlineUsers \ {u}
    BY <1>0, <1>4, LoginEffect, ZenonT(60) DEF Register, registerSession
  <2>3. \A t \in Sessions : ClientID(t) # NoUser => ClientID(t)' = ClientID(t)
    BY <2>1 DEF ClientID
  <2> QED
    BY <2>1, <2>2, <2>3, DisturbEffect, QuietChannel, Zenon
<1>5. ASSUME NEW s \in Sessions, SessionStep(s) \/ FindSession(s)
      PROVE  ChannelInv'
  <2>1. CASE FindSession(s)
    <3>1. UNCHANGED <<session, registryVars, steady, task, sent, pushed>>
      BY <2>1, Zenon DEF FindSession, UNCHANGED_registry, UNCHANGED_delivery
    <3> QED
      BY <1>1, <3>1, Zenon DEF ClientID
  <2>2. CASE SessionStep(s)
    <3>1. Plain(s) \/ Leaves(s) \/ \E u \in Users : Login(s, u)
      BY <2>2, Zenon DEF SessionStep, Plain, Leaves
    <3> QED
      BY <1>2, <1>3, <1>4, <3>1, Zenon
  <2> QED
    BY <1>5, <2>1, <2>2, Zenon
<1>6. CASE SetUdpAddress
  <2>1. keepalive.from \in Sessions /\ keepalive.to \in Sessions
    BY <1>6, Zenon DEF SetUdpAddress, RegistryInv, SessionsInv
  <2>2. /\ \A t \in Sessions : ClientID(t)' = ClientID(t)
        /\ UNCHANGED <<registryVars, steady, task, sent, pushed>>
    BY <1>0, <1>6, <2>1, AddressEffect, Zenon
  <2> QED
    BY <1>1, <2>2
<1>7. CASE UNCHANGED vars
  BY <1>1, <1>7 DEF vars, sessionVars, observerVars, ClientID
<1> QED
  BY <1>5, <1>6, <1>7, AlertKeepsChannel, CrashKeepsChannel DEF Next

\* When broadcastMessage returns, a user whose registration did not change in
\* between was sent the alert or had it queued, and not both: for any number of
\* users, sessions, alerts and crashes.
THEOREM OneChannel == Spec => []ExactlyOneChannel
<1>1. RegistryInv /\ ChannelInv => ExactlyOneChannel
  <2> SUFFICES ASSUME ChannelInv, NEW a \in Alerts, task[a].pc = "done", NEW u \in steady[a]
               PROVE  SentTo(a, u) # QueuedFor(a, u)
    BY Zenon DEF ExactlyOneChannel
  <2>1. u \in Users /\ task[a].offline = {}
    BY Zenon DEF ChannelInv, ChannelTypes, Loop
  <2>2. SentTo(a, u) <=> ~QueuedFor(a, u)
    BY <2>1, Zenon DEF ChannelInv, Channel
  <2>3. SentTo(a, u) \in BOOLEAN /\ QueuedFor(a, u) \in BOOLEAN
    BY DEF SentTo, QueuedFor
  <2> QED
    BY <2>2, <2>3, Zenon
<1> QED
  BY <1>1, RegistryHolds, ChannelInitially, ChannelStep, PTL DEF Spec

-----------------------------------------------------------------------------
(* The event queues.                                                       *)

\* The queue q of a user is the end of p, all that was pushed; z was popped.
\* What is neither queued nor popped has at least QueueSize younger events.
Window(p, q, z) ==
    /\ Len(q) <= Len(p) /\ Len(q) <= QueueSize
    /\ \A i \in 1..Len(q) : q[i] = p[Len(p) - Len(q) + i]
    /\ \A i, j \in 1..Len(p) : p[i] = p[j] => i = j
    /\ \A x \in z : \E i \in 1..(Len(p) - Len(q)) : p[i] = x
    /\ \A i \in 1..(Len(p) - Len(q)) : i + QueueSize > Len(p) => p[i] \in z

\* pushEvent of an event that was not pushed before keeps this.
LEMMA PushWindow ==
    ASSUME NEW p \in Seq(Alerts), NEW q \in Seq(Alerts), NEW z \in SUBSET Alerts, NEW e \in Alerts,
           Window(p, q, z), e \notin Elements(p)
    PROVE  Pushed(q, e) \in Seq(Alerts) /\ Window(Append(p, e), Pushed(q, e), z)
<1> DEFINE r == Append(p, e)
           w == Pushed(q, e)
<1>0. Len(p) \in Nat /\ Len(q) \in Nat /\ QueueSize \in Nat /\ QueueSize > 0
  BY DeliveryAssumption
<1>1. r \in Seq(Alerts) /\ Len(r) = Len(p) + 1 /\ r[Len(p) + 1] = e /\ \A i \in 1..Len(p) : r[i] = p[i]
  OBVIOUS
<1>2. \A i \in 1..Len(p) : p[i] # e
  BY Zenon DEF Elements
<1>3. CASE Len(q) >= QueueSize
  <2>1. Len(q) > 0 /\ q # <<>>
    BY <1>0, <1>3
  <2>2. Tail(q) \in Seq(Alerts) /\ Len(Tail(q)) = Len(q) - 1 /\ \A i \in 1..(Len(q) - 1) : Tail(q)[i] = q[i + 1]
    BY <2>1
  <2> DEFINE v == Tail(q)
  <2> HIDE DEF v
  <2>3. w = Append(v, e) /\ v \in Seq(Alerts) /\ Len(v) = Len(q) - 1 /\ \A i \in 1..(Len(q) - 1) : v[i] = q[i + 1]
    BY <1>3, <2>2, Zenon DEF v, Pushed
  <2>4. w \in Seq(Alerts) /\ Len(w) = Len(q) /\ w[Len(q)] = e /\ \A i \in 1..(Len(q) - 1) : w[i] = q[i + 1]
    BY <1>0, <2>1, <2>3, SMTT(30)
  <2> HIDE DEF r, w
  <2>5. Len(w) <= Len(r) /\ Len(w) <= QueueSize
    BY <1>0, <1>1, <2>4 DEF Window
  <2>6. ASSUME NEW i \in 1..Len(w) PROVE w[i] = r[Len(r) - Len(w) + i]
    <3>1. CASE i = Len(q)
      BY <1>0, <1>1, <2>4, <3>1, SMTT(30)
    <3>2. CASE i # Len(q)
      <4>1. w[i] = q[i + 1] /\ i + 1 \in 1..Len(q)
        BY <1>0, <2>4, <3>2, SMTT(30)
      <4>2. q[i + 1] = p[Len(p) - Len(q) + (i + 1)] /\ Len(p) - Len(q) + (i + 1) \in 1..Len(p)
        BY <1>0, <4>1, SMTT(30) DEF Window
      <4> QED
        BY <1>0, <1>1, <2>4, <4>1, <4>2, SMTT(30)
    <3> QED
      BY <3>1, <3>2, Zenon
  <2>7. \A i, j \in 1..Len(r) : r[i] = r[j] => i = j
    <3>1. SUFFICES ASSUME NEW i \in 1..Len(r), NEW j \in 1..Len(r), r[i] = r[j] PROVE i = j
      OBVIOUS
    <3>2. (i \in 1..Len(p) \/ i = Len(p) + 1) /\ (j \in 1..Len(p) \/ j = Len(p) + 1)
      BY <1>0, <1>1
    <3> QED
      BY <1>1, <1>2, <3>1, <3>2, SMTT(30) DEF Window
  <2>8. ASSUME NEW x \in z PROVE \E i \in 1..(Len(r) - Len(w)) : r[i] = x
    <3>1. PICK i \in 1..(Len(p) - Len(q)) : p[i] = x
      BY Zenon DEF Window
    <3>2. i \in 1..Len(p) /\ i \in 1..(Len(r) - Len(w))
      BY <1>0, <1>1, <2>4 DEF Window
    <3> QED
      BY <1>1, <3>1, <3>2, Zenon
  <2>9. ASSUME NEW i \in 1..(Len(r) - Len(w)), i + QueueSize > Len(r) PROVE r[i] \in z
    <3>1. i \in 1..(Len(p) - Len(q)) /\ i + QueueSize > Len(p)
      BY <1>0, <1>1, <1>3, <2>4, <2>9, SMTT(30) DEF Window
    <3>2. p[i] \in z /\ i \in 1..Len(p)
      BY <1>0, <3>1, SMTT(30) DEF Window
    <3> QED
      BY <1>1, <3>2, Zenon
  <2>10. w \in Seq(Alerts) /\ Window(r, w, z)
    BY <2>4, <2>5, <2>6, <2>7, <2>8, <2>9, SMTT(30) DEF Window
  <2> QED
    BY <2>10 DEF r, w
<1>4. CASE ~(Len(q) >= QueueSize)
  <2>1. w = Append(q, e)
    BY <1>4, Zenon DEF Pushed
  <2>2. w \in Seq(Alerts) /\ Len(w) = Len(q) + 1 /\ w[Len(q) + 1] = e /\ \A i \in 1..Len(q) : w[i] = q[i]
    BY <2>1, SMTT(30)
  <2> HIDE DEF r, w
  <2>3. Len(w) <= Len(r) /\ Len(w) <= QueueSize
    BY <1>0, <1>1, <1>4, <2>2 DEF Window
  <2>4. ASSUME NEW i \in 1..Len(w) PROVE w[i] = r[Len(r) - Len(w) + i]
    <3>1. CASE i = Len(q) + 1
      BY <1>0, <1>1, <2>2, <3>1, SMTT(30)
    <3>2. CASE i # Len(q) + 1
      <4>1. i \in 1..Len(q) /\ Len(p) - Len(q) + i \in 1..Len(p)
        BY <1>0, <2>2, <3>2, SMTT(30) DEF Window
      <4>2. q[i] = p[Len(p) - Len(q) + i]
        BY <4>1, SMTT(30) DEF Window
      <4> QED
        BY <1>0, <1>1, <2>2, <4>1, <4>2, SMTT(30)
    <3> QED
      BY <3>1, <3>2, ZenonT(60)
  <2>5. \A i, j \in 1..Len(r) : r[i] = r[j] => i = j
    <3>1. SUFFICES ASSUME NEW i \in 1..Len(r), NEW j \in 1..Len(r), r[i] = r[j] PROVE i = j
      OBVIOUS
    <3>2. (i \in 1..Len(p) \/ i = Len(p) + 1) /\ (j \in 1..Len(p) \/ j = Len(p) + 1)
      BY <1>0, <1>1
    <3> QED
      BY <1>1, <1>2, <3>1, <3>2 DEF Window
  <2>6. ASSUME NEW x \in z PROVE \E i \in 1..(Len(r) - Len(w)) : r[i] = x
    <3>1. PICK i \in 1..(Len(p) - Len(q)) : p[i] = x
      BY DEF Window
    <3>2. i \in 1..Len(p) /\ i \in 1..(Len(r) - Len(w))
      BY <1>0, <1>1, <2>2, SMTT(30) DEF Window
    <3> QED
      BY <1>1, <3>1, <3>2, SMTT(30)
  <2>7. ASSUME NEW i \in 1..(Len(r) - Len(w)), i + QueueSize > Len(r) PROVE r[i] \in z
    <3>1. i \in 1..(Len(p) - Len(q)) /\ i + QueueSize > Len(p)
      BY <1>0, <1>1, <2>2, <2>7, SMTT(30)
    <3>2. p[i] \in z /\ i \in 1..Len(p)
      BY <1>0, <3>1 DEF Window
    <3> QED
      BY <1>1, <3>2, SMTT(30)
  <2>8. w \in Seq(Alerts) /\ Window(r, w, z)
    BY <2>2, <2>3, <2>4, <2>5, <2>6, <2>7, Zenon DEF Window
  <2> QED
    BY <2>8 DEF r, w
<1> QED
  BY <1>3, <1>4

\* So does popEvent.
LEMMA PopWindow ==
    ASSUME NEW p \in Seq(Alerts), NEW q \in Seq(Alerts), NEW z \in SUBSET Alerts, Window(p, q, z), q # <<>>
    PROVE  /\ Head(q) \in Alerts /\ Tail(q) \in Seq(Alerts)
           /\ Window(p, Tail(q), z \cup {Head(q)})
<1> DEFINE w == Tail(q)
           e == Head(q)
           y == z \cup {e}
<1>0. Len(p) \in Nat /\ Len(q) \in Nat /\ QueueSize \in Nat /\ Len(q) > 0
  BY DeliveryAssumption
<1>1. /\ w \in Seq(Alerts) /\ Len(w) = Len(q) - 1 /\ \A i \in 1..(Len(q) - 1) : w[i] = q[i + 1]
      /\ e \in Alerts /\ e = q[1]
  BY <1>0
<1>2. e = p[Len(p) - Len(q) + 1]
  BY <1>0, <1>1 DEF Window
<1> HIDE DEF w, e
<1>3. Len(w) <= Len(p) /\ Len(w) <= QueueSize
  BY <1>0, <1>1 DEF Window
<1>4. ASSUME NEW i \in 1..Len(w) PROVE w[i] = p[Len(p) - Len(w) + i]
  <2>1. w[i] = q[i + 1] /\ i + 1 \in 1..Len(q)
    BY <1>0, <1>1
  <2>2. q[i + 1] = p[Len(p) - Len(q) + (i + 1)]
    BY <2>1, Zenon DEF Window
  <2>3. Len(p) - Len(q) + (i + 1) = Len(p) - Len(w) + i
    BY <1>0, <1>1
  <2> QED
    BY <2>1, <2>2, <2>3, SMTT(30)
<1>5. ASSUME NEW x \in y PROVE \E i \in 1..(Len(p) - Len(w)) : p[i] = x
  <2>1. CASE x = e
    BY <1>0, <1>1, <1>2, <2>1, SMTT(30) DEF Window
  <2>2. CASE x \in z
    <3>1. PICK i \in 1..(Len(p) - Len(q)) : p[i] = x
      BY <2>2, Zenon DEF Window
    <3> QED
      BY <1>0, <1>1, <3>1
  <2> QED
    BY <1>5, <2>1, <2>2, Zenon
<1>6. ASSUME NEW i \in 1..(Len(p) - Len(w)), i + QueueSize > Len(p) PROVE p[i] \in y
  <2>0. Len(w) = Len(q) - 1 /\ Len(q) <= Len(p)
    BY <1>1, Zenon DEF Window
  <2>1. i = Len(p) - Len(q) + 1 \/ i \in 1..(Len(p) - Len(q))
    BY <1>0, <2>0
  <2> QED
    BY <1>2, <1>6, <2>1, Zenon DEF Window
<1>7. \A i, j \in 1..Len(p) : p[i] = p[j] => i = j
  BY Zenon DEF Window
<1>8. e \in Alerts /\ w \in Seq(Alerts) /\ Window(p, w, y)
  <2> HIDE DEF y
  <2> QED
    BY <1>1, <1>3, <1>4, <1>5, <1>6, <1>7, Zenon DEF Window
<1> QED
  BY <1>8 DEF w, e

\* What the window says about one user's queue.
LEMMA WindowKeeps ==
    ASSUME NEW p \in Seq(Alerts), NEW q \in Seq(Alerts), NEW z \in SUBSET Alerts, Window(p, q, z)
    PROVE  /\ \A i \in 1..Len(p) : i + QueueSize > Len(p) => p[i] \in Elements(q) \cup z
           /\ Elements(q) \cap z = {}
           /\ Cardinality(Elements(q)) = Len(q)
<1>0. Len(p) \in Nat /\ Len(q) \in Nat /\ Len(q) <= Len(p) /\ QueueSize \in Nat
  BY DeliveryAssumption DEF Window
<1>1. ASSUME NEW i \in 1..Len(p), i + QueueSize > Len(p) PROVE p[i] \in Elements(q) \cup z
  <2>1. CASE i \in 1..(Len(p) - Len(q))
    BY <1>1, <2>1, Zenon DEF Window
  <2>2. CASE i \notin 1..(Len(p) - Len(q))
    <3>1. PICK j \in 1..Len(q) : i = Len(p) - Len(q) + j
      <4>1. i - (Len(p) - Len(q)) \in 1..Len(q) /\ i = Len(p) - Len(q) + (i - (Len(p) - Len(q)))
        BY <1>0, <2>2
      <4> QED
        BY <4>1, Zenon
    <3>2. q[j] = p[i]
      BY <3>1, Zenon DEF Window
    <3> QED
      BY <3>2, Zenon DEF Elements
  <2> QED
    BY <2>1, <2>2, Zenon
<1>2. ASSUME NEW x \in Elements(q), x \in z PROVE FALSE
  <2>1. PICK j \in 1..Len(q) : q[j] = x
    BY Zenon DEF Elements
  <2>2. PICK i \in 1..(Len(p) - Len(q)) : p[i] = x
    BY <1>2, Zenon DEF Window
  <2>3. p[Len(p) - Len(q) + j] = x
    BY <2>1, Zenon DEF Window
  <2>4. i \in 1..Len(p) /\ Len(p) - Len(q) + j \in 1..Len(p) /\ i # Len(p) - Len(q) + j
    BY <1>0
  <2> QED
    BY <2>2, <2>3, <2>4, Zenon DEF Window
<1>3. Cardinality(Elements(q)) = Len(q)
  <2> DEFINE f == [i \in 1..Len(q) |-> q[i]]
  <2>1. ASSUME NEW i \in 1..Len(q), NEW j \in 1..Len(q), q[i] = q[j] PROVE i = j
    <3>1. p[Len(p) - Len(q) + i] = p[Len(p) - Len(q) + j]
      BY <2>1, Zenon DEF Window
    <3>2. Len(p) - Len(q) + i \in 1..Len(p) /\ Len(p) - Len(q) + j \in 1..Len(p)
      BY <1>0
    <3>3. Len(p) - Len(q) + i = Len(p) - Len(q) + j
      BY <3>1, <3>2, Zenon DEF Window
    <3> QED
      BY <1>0, <3>3
  <2>2. f \in Bijection(1..Len(q), Elements(q))
    BY <2>1, Zenon DEF Elements, Bijection, Injection, Surjection, IsInjective
  <2>3. ExistsBijection(1..Len(q), Elements(q))
    BY <2>2, Zenon DEF ExistsBijection
  <2> QED
    BY <1>0, <2>3, FS_CountingElements
<1> QED
  BY <1>1, <1>2, <1>3, Zenon

QueueTypes ==
    /\ keepalive \in [from : Sessions \cup {NoSession}, to : Sessions \cup {NoSession}]
    /\ delayed \in [Alerts -> SUBSET Sessions]
    /\ eventQueue \in [Users -> Seq(Alerts)]
    /\ popped \in [Users -> SUBSET Alerts]

Queue(u) == Window(pushed[u], eventQueue[u], popped[u])

\* The loop of broadcastMessage pushes an alert once for a user.
Awaits(a) == \A u \in task[a].offline : ~QueuedFor(a, u)

QueueInv ==
    /\ QueueTypes
    /\ \A u \in Users : Queue(u)
    /\ \A a \in Alerts : Awaits(a)

\* The primed queue, with the prime on its three variables.
LEMMA QueueNext ==
    ASSUME NEW u \in Users
    PROVE  Queue(u)' <=> Window(pushed'[u], eventQueue'[u], popped'[u])
  BY Zenon DEF Queue, Window

\* An empty queue.
LEMMA EmptyWindow == Window(<<>>, <<>>, {})
  BY DeliveryAssumption DEF Window

\* At first nothing is queued.
LEMMA QueueInitially == Init => QueueInv
<1> SUFFICES ASSUME Init PROVE QueueInv
  OBVIOUS
<1>1. /\ pushed = [u \in Users |-> <<>>] /\ eventQueue = [u \in Users |-> <<>>]
      /\ popped = [u \in Users |-> {}] /\ \A a \in Alerts : task[a].offline = {}
  BY NewRecords, SMTT(30) DEF Init, EventQueueInit
<1>2. QueueTypes
  BY <1>1 DEF Init, QueueTypes, NoKeepalive
<1>3. \A u \in Users : Queue(u)
  BY <1>1, EmptyWindow, Zenon DEF Queue
<1> QED
  BY <1>1, <1>2, <1>3, Zenon DEF QueueInv, Awaits

\* A step that pushes and pops nothing; only BroadcastOffline looks up new users.
LEMMA QuietQueue ==
    ASSUME ChannelInv, QueueInv, QueueTypes', UNCHANGED <<eventQueue, pushed, popped>>,
           \A a \in Alerts : task[a].pc # "offline" => task'[a].offline = task[a].offline,
           \A a \in Alerts : task'[a].offline \subseteq Users
    PROVE  QueueInv'
<1>1. \A u \in Users : Queue(u)'
  BY Zenon DEF QueueInv, Queue
<1>2. \A a \in Alerts, u \in Users : QueuedFor(a, u)' <=> QueuedFor(a, u)
  BY Zenon DEF QueuedFor
<1>3. ASSUME NEW a \in Alerts PROVE Awaits(a)'
  <2>1. CASE task[a].pc = "offline"
    BY <1>2, <2>1, Zenon DEF ChannelInv, Channel, Awaits
  <2>2. CASE task[a].pc # "offline"
    BY <1>2, <2>2, Zenon DEF QueueInv, Awaits
  <2> QED
    BY <2>1, <2>2
<1> QED
  BY <1>1, <1>3, Zenon DEF QueueInv

\* popEvent by a session; one without a user would find no queue.
LEMMA PopKeepsQueue ==
    ASSUME RegistryInv, ChannelInv, QueueInv, NEW s \in Sessions, PopEvent(s)
    PROVE  QueueInv'
<1>1. UNCHANGED <<keepalive, task, delayed, pushed>>
  BY Zenon DEF PopEvent
<1>2. PICK u \in Users \cup {NoUser} : u = session[s].clientID
  BY DEF RegistryInv, Registry, SessionRecord
<1>3. PICK e \in Alerts : /\ eventQueue[u] # <<>> /\ e = Head(eventQueue[u])
                          /\ eventQueue' = [eventQueue EXCEPT ![u] = Tail(@)]
                          /\ popped' = [popped EXCEPT ![u] = @ \cup {e}]
  BY <1>2, Zenon DEF PopEvent, popEvent, hasEvent
<1>4. CASE u \notin Users
  <2>1. UNCHANGED <<eventQueue, popped>>
    BY <1>3, <1>4, ZenonT(60) DEF QueueInv, QueueTypes
  <2>2. QueueTypes'
    BY <1>1, <2>1, Zenon DEF QueueInv, QueueTypes
  <2>3. \A a \in Alerts : task'[a].offline = task[a].offline /\ task'[a].offline \subseteq Users
    BY <1>1, Zenon DEF ChannelInv, ChannelTypes, TaskRecord
  <2> QED
    BY <1>1, <2>1, <2>2, <2>3, QuietQueue, Zenon
<1>5. CASE u \in Users
  <2> DEFINE p == pushed[u]
             q == eventQueue[u]
             z == popped[u]
  <2>1. p \in Seq(Alerts) /\ q \in Seq(Alerts) /\ z \in SUBSET Alerts /\ Window(p, q, z) /\ q # <<>>
    BY <1>3, <1>5, Zenon DEF QueueInv, QueueTypes, ChannelInv, ChannelTypes, Queue
  <2>2. Tail(q) \in Seq(Alerts) /\ Window(p, Tail(q), z \cup {Head(q)})
    <3> HIDE DEF p, q, z
    <3> QED
      BY <2>1, PopWindow, Zenon
  <2>3. /\ eventQueue'[u] = Tail(q) /\ \A v \in Users \ {u} : eventQueue'[v] = eventQueue[v]
        /\ popped'[u] = z \cup {Head(q)} /\ \A v \in Users \ {u} : popped'[v] = popped[v]
    BY <1>3, <1>5, Zenon DEF QueueInv, QueueTypes
  <2>4. eventQueue' \in [Users -> Seq(Alerts)] /\ popped' \in [Users -> SUBSET Alerts]
    BY <1>3, <1>5, <2>2, Zenon DEF QueueInv, QueueTypes
  <2>5. QueueTypes'
    BY <1>1, <2>4, Zenon DEF QueueInv, QueueTypes
  <2>6. Queue(u)'
    BY <1>1, <1>5, <2>2, <2>3, QueueNext, ZenonT(60)
  <2>7. ASSUME NEW v \in Users \ {u} PROVE Queue(v)'
    BY <1>1, <2>3, QueueNext DEF QueueInv, Queue
  <2>8. ASSUME NEW a \in Alerts PROVE Awaits(a)'
    BY <1>1, ZenonT(60) DEF QueueInv, Awaits, QueuedFor
  <2> QED
    BY <2>5, <2>6, <2>7, <2>8, Zenon DEF QueueInv
<1> QED
  BY <1>4, <1>5

\* pushEvent by the worker of an alert.
LEMMA PushKeepsQueue ==
    ASSUME RegistryInv, ChannelInv, QueueInv, NEW a \in Alerts, PushEvent(a)
    PROVE  QueueInv'
<1>0. PICK u \in Users : u = task[a].user /\ u \in task[a].offline /\ task[a].pc = "pushing"
  BY ZenonT(60) DEF PushEvent, ChannelInv, Loop, ChannelTypes, TaskRecord
<1> DEFINE remaining == task[a].offline \ {u}
           r == [pc |-> NextPush(remaining), offline |-> remaining, user |-> NoUser]
           p == pushed[u]
           q == eventQueue[u]
           z == popped[u]
<1>1. /\ task' = [task EXCEPT ![a] = r] /\ pushed' = [pushed EXCEPT ![u] = Append(p, a)]
      /\ eventQueue' = [eventQueue EXCEPT ![u] = Pushed(q, a)]
      /\ UNCHANGED <<keepalive, delayed, popped>>
  BY <1>0, SMTT(30) DEF PushEvent, pushEvent, UNCHANGED_sessions, sessionVars
<1>2. r.offline = remaining
  OBVIOUS
<1> HIDE DEF r
<1>3. p \in Seq(Alerts) /\ q \in Seq(Alerts) /\ z \in SUBSET Alerts /\ Window(p, q, z) /\ a \notin Elements(p)
  BY <1>0, Zenon DEF QueueInv, QueueTypes, ChannelInv, ChannelTypes, Queue, Awaits, QueuedFor
<1>4. Pushed(q, a) \in Seq(Alerts) /\ Window(Append(p, a), Pushed(q, a), z)
  <2> HIDE DEF p, q, z
  <2> QED
    BY <1>3, PushWindow, Zenon
<1>5. Append(p, a) \in Seq(Alerts) /\ Elements(Append(p, a)) = Elements(p) \cup {a}
  BY <1>3, ElementsAppend, ZenonT(60)
<1> DEFINE w == Pushed(q, a)
           o == Append(p, a)
<1> HIDE DEF w, o
<1>6. /\ eventQueue'[u] = w /\ \A v \in Users \ {u} : eventQueue'[v] = eventQueue[v]
      /\ pushed'[u] = o /\ \A v \in Users \ {u} : pushed'[v] = pushed[v]
      /\ task'[a] = r /\ \A b \in Alerts \ {a} : task'[b] = task[b]
  BY <1>1, Zenon DEF QueueInv, QueueTypes, ChannelInv, ChannelTypes, w, o
<1>7. QueueTypes'
  <2>1. eventQueue' \in [Users -> Seq(Alerts)]
    BY <1>1, <1>4 DEF QueueInv, QueueTypes
  <2> QED
    BY <1>1, <2>1, Zenon DEF QueueInv, QueueTypes
<1>8. Queue(u)'
  BY <1>1, <1>4, <1>6, QueueNext, Zenon DEF w, o
<1>9. ASSUME NEW v \in Users \ {u} PROVE Queue(v)'
  BY <1>1, <1>6, QueueNext, Zenon DEF QueueInv, Queue
<1>10. ASSUME NEW b \in Alerts, NEW v \in task'[b].offline PROVE ~QueuedFor(b, v)'
  <2>0. task[b].offline \subseteq Users
    BY Zenon DEF ChannelInv, ChannelTypes, TaskRecord
  <2>1. v \in task[b].offline /\ (b = a => v # u)
    BY <1>2, <1>6, <1>10, Zenon
  <2>2. ~QueuedFor(b, v)
    BY <2>1, Zenon DEF QueueInv, Awaits
  <2>3. Elements(pushed'[v]) = Elements(pushed[v]) \/ (v = u /\ Elements(pushed'[v]) = Elements(pushed[v]) \cup {a})
    BY <1>5, <1>6, <2>0, <2>1, Zenon DEF o
  <2>4. b \notin Elements(pushed'[v])
    BY <2>1, <2>2, <2>3, Zenon DEF QueuedFor
  <2> QED
    BY <2>4, Zenon DEF QueuedFor, Elements
<1> QED
  BY <1>7, <1>8, <1>9, <1>10 DEF QueueInv, Awaits

\* A crash forgets the queues.
LEMMA CrashKeepsQueue == Crash => QueueInv'
<1> SUFFICES ASSUME Crash PROVE QueueInv'
  OBVIOUS
<1> DEFINE q == [NewTask EXCEPT !.pc = "rejected"]
<1>1. q.offline = {}
  BY NewRecords DEF TaskRecord
<1>2. task' = [a \in Alerts |-> IF task[a].pc = "arriving" THEN NewTask ELSE q]
  BY Zenon DEF Crash
<1> HIDE DEF q
<1>3. \A a \in Alerts : task'[a].offline = {}
  BY <1>1, <1>2, NewRecords, Zenon
<1>4. QueueTypes'
  <2>1. /\ keepalive' = NoKeepalive /\ delayed' = [a \in Alerts |-> {}]
        /\ eventQueue' = [u \in Users |-> <<>>] /\ popped' = [u \in Users |-> {}]
    BY Zenon DEF Crash
  <2> QED
    BY <2>1 DEF QueueTypes, NoKeepalive
<1>5. ASSUME NEW u \in Users PROVE Queue(u)'
  <2>1. pushed'[u] = <<>> /\ eventQueue'[u] = <<>> /\ popped'[u] = {}
    BY Zenon DEF Crash
  <2> QED
    BY <2>1, EmptyWindow, QueueNext, Zenon
<1> QED
  BY <1>3, <1>4, <1>5 DEF QueueInv, Awaits

\* Every step keeps each queue the end of what was pushed.
LEMMA QueueStep == RegistryInv /\ ChannelInv /\ QueueInv /\ [Next]_vars => QueueInv'
<1> SUFFICES ASSUME RegistryInv, ChannelInv, QueueInv, [Next]_vars
             PROVE  QueueInv'
  OBVIOUS
<1>0. \A a \in Alerts : task[a] \in TaskRecord /\ task[a].offline \subseteq Users
  BY Zenon DEF ChannelInv, ChannelTypes, TaskRecord
<1>1. ASSUME QueueTypes', UNCHANGED <<eventQueue, pushed, popped, task>>
      PROVE  QueueInv'
  BY <1>0, <1>1, QuietQueue, Zenon
<1>2. ASSUME UNCHANGED <<keepalive, delayed, eventQueue, popped>> PROVE QueueTypes'
  BY <1>2, Zenon DEF QueueInv, QueueTypes
<1>3. ASSUME UNCHANGED keepalive, UNCHANGED_delivery PROVE QueueInv'
  BY <1>1, <1>2, <1>3, Zenon DEF UNCHANGED_delivery
<1>4. ASSUME NEW s \in Sessions, SendEvent(s) PROVE QueueInv'
  <2>1. PICK e \in Alerts \cup {NoAlert}, x \in Sessions : delayed' = [delayed EXCEPT ![e] = @ \cup {x}]
    <3>1. session[s].udpAddress \in Sessions /\ session[s].event \in Alerts \cup {NoAlert}
      BY <1>4 DEF SendEvent, RegistryInv, Registry, SessionRecord
    <3> QED
      BY <1>4, <3>1, Zenon DEF SendEvent
  <2>2. UNCHANGED <<keepalive, task, eventQueue, pushed, popped>>
    BY <1>4, Zenon DEF SendEvent
  <2>3. delayed' \in [Alerts -> SUBSET Sessions]
    BY <2>1, Zenon DEF QueueInv, QueueTypes
  <2>4. QueueTypes'
    BY <2>2, <2>3, Zenon DEF QueueInv, QueueTypes
  <2> QED
    BY <1>1, <2>2, <2>4
<1>5. ASSUME NEW s \in Sessions, FindSession(s) PROVE QueueInv'
  <2>1. PICK u \in Users : keepalive' = [from |-> s, to |-> activeSessions[u]]
    <3>1. session[s].clientID \in Users
      BY <1>5, Zenon DEF FindSession, Authenticated, RegistryInv, Registry, SessionRecord
    <3> QED
      BY <1>5, <3>1, Zenon DEF FindSession, getSession
  <2>2. UNCHANGED <<task, delayed, eventQueue, pushed, popped>>
    BY <1>5, Zenon DEF FindSession, UNCHANGED_delivery
  <2>3. activeSessions[u] \in Sessions \cup {NoSession}
    BY Zenon DEF RegistryInv, Registry, RegistryTypeOK
  <2>4. QueueTypes'
    BY <2>1, <2>2, <2>3, Zenon DEF QueueInv, QueueTypes
  <2> QED
    BY <1>1, <2>2, <2>4, Zenon
<1>6. ASSUME NEW s \in Sessions, SessionStep(s) PROVE QueueInv'
  <2>1. CASE PopEvent(s)
    BY <2>1, PopKeepsQueue
  <2>2. CASE ~PopEvent(s) /\ ~SendEvent(s)
    <3>1. UNCHANGED keepalive /\ UNCHANGED_delivery
      BY <1>6, <2>2, Zenon DEF SessionStep, Accept, ReadEOF, ReadError, Login, Request, WriteError, WriteReply,
         PopNothing, DropEvent, CloseSession
    <3> QED
      BY <1>3, <3>1
  <2> QED
    BY <1>4, <2>1, <2>2
<1>7. CASE SetUdpAddress
  <2>1. keepalive' = NoKeepalive /\ UNCHANGED <<task, delayed, eventQueue, pushed, popped>>
    BY <1>7, Zenon DEF SetUdpAddress, UNCHANGED_delivery
  <2>2. QueueTypes'
    BY <2>1, Zenon DEF QueueInv, QueueTypes, NoKeepalive
  <2> QED
    BY <1>1, <2>1, <2>2
<1>8. ASSUME NEW a \in Alerts, AlertStep(a) PROVE QueueInv'
  <2>1. CASE PushEvent(a)
    BY <2>1, PushKeepsQueue
  <2>2. CASE ~PushEvent(a)
    <3>1. UNCHANGED <<keepalive, delayed, eventQueue, pushed, popped>>
      BY <1>8, <2>2, Zenon DEF AlertStep, RejectAlert, BroadcastActive, BroadcastOffline, EnterPush,
         UNCHANGED_sessions, sessionVars
    <3>2. PICK q : task' = [task EXCEPT ![a] = q] /\ q.offline \subseteq Users /\
                   (task[a].pc # "offline" => q.offline = task[a].offline)
      <4> DEFINE r == task[a]
      <4>1. CASE RejectAlert(a)
        <5>1. task' = [task EXCEPT ![a] = [r EXCEPT !.pc = "rejected"]]
          BY <4>1, Zenon DEF RejectAlert
        <5>2. [r EXCEPT !.pc = "rejected"].offline = r.offline
          BY <1>0 DEF TaskRecord
        <5> QED
          BY <1>0, <5>1, <5>2, Zenon
      <4>2. CASE BroadcastActive(a)
        <5>1. task' = [task EXCEPT ![a] = [r EXCEPT !.pc = "offline"]]
          BY <4>2, Zenon DEF BroadcastActive
        <5>2. [r EXCEPT !.pc = "offline"].offline = r.offline
          BY <1>0 DEF TaskRecord
        <5> QED
          BY <1>0, <5>1, <5>2, Zenon
      <4>3. CASE BroadcastOffline(a)
        <5>1. task' = [task EXCEPT ![a] = [r EXCEPT !.pc = NextPush(offlineUsers), !.offline = offlineUsers]]
          BY <4>3, Zenon DEF BroadcastOffline
        <5>2. [r EXCEPT !.pc = NextPush(offlineUsers), !.offline = offlineUsers].offline = offlineUsers
          BY <1>0, Zenon DEF TaskRecord
        <5>3. offlineUsers \subseteq Users /\ r.pc = "offline"
          BY <4>3 DEF BroadcastOffline, RegistryInv, Registry, RegistryTypeOK
        <5> QED
          BY <5>1, <5>2, <5>3, Zenon
      <4>4. ASSUME NEW u \in Users, EnterPush(a, u)
            PROVE  \E q : task' = [task EXCEPT ![a] = q] /\ q.offline \subseteq Users /\ q.offline = r.offline
        <5>1. task' = [task EXCEPT ![a] = [r EXCEPT !.pc = "pushing", !.user = u]]
          BY <4>4, Zenon DEF EnterPush
        <5>2. [r EXCEPT !.pc = "pushing", !.user = u].offline = r.offline
          BY <1>0, Zenon DEF TaskRecord
        <5> QED
          BY <1>0, <5>1, <5>2, Zenon
      <4> QED
        BY <1>8, <2>2, <4>1, <4>2, <4>3, <4>4, Zenon DEF AlertStep
    <3>3. \A b \in Alerts : /\ task[b].pc # "offline" => task'[b].offline = task[b].offline
                            /\ task'[b].offline \subseteq Users
      BY <1>0, <3>2, Zenon DEF ChannelInv, ChannelTypes
    <3> QED
      BY <1>2, <3>1, <3>3, QuietQueue, SMTT(30)
  <2> QED
    BY <2>1, <2>2, Zenon
<1>9. CASE UNCHANGED vars
  BY <1>3, <1>9 DEF vars, sessionVars, observerVars, UNCHANGED_delivery
<1> QED
  BY <1>5, <1>6, <1>7, <1>8, <1>9, CrashKeepsQueue, SMTT(30) DEF Next

\* The three invariants together.
LEMMA DeliveryHolds == Spec => [](RegistryInv /\ ChannelInv /\ QueueInv)
BY RegistryInitially, RegistryStep, ChannelInitially, ChannelStep, QueueInitially, QueueStep, PTL DEF Spec

\* Every variable keeps its type, and no user's deque outgrows the queue size,
\* whichever workers push and pop and however often the server crashes.
THEOREM Typed == Spec => []TypeOK
<1>1. RegistryInv /\ ChannelInv /\ QueueInv => TypeOK
  <2> SUFFICES ASSUME RegistryInv, ChannelInv, QueueInv PROVE TypeOK
    OBVIOUS
  <2>1. \A u \in Users : Len(eventQueue[u]) <= QueueSize
    BY Zenon DEF QueueInv, Queue, Window
  <2> QED
    BY <2>1 DEF TypeOK, EventQueueTypeOK, RegistryInv, Registry, ChannelInv, ChannelTypes, QueueInv, QueueTypes
<1> QED
  BY <1>1, DeliveryHolds, PTL

\* pushEvent drops only the oldest event of a full deque, and popEvent hands an
\* event out once: of the newest QueueSize alerts pushed for a user each is
\* queued or was popped, never both and never queued twice, for any queue size.
THEOREM NewestKept == Spec => []NewestEventsKept
<1>1. ChannelInv /\ QueueInv => NewestEventsKept
  <2> SUFFICES ASSUME ChannelInv, QueueInv, NEW u \in Users
               PROVE  /\ \A i \in 1..Len(pushed[u]) :
                            i + QueueSize > Len(pushed[u]) =>
                                pushed[u][i] \in Elements(eventQueue[u]) \cup popped[u]
                      /\ Elements(eventQueue[u]) \cap popped[u] = {}
                      /\ Cardinality(Elements(eventQueue[u])) = Len(eventQueue[u])
    BY Zenon DEF NewestEventsKept
  <2> DEFINE p == pushed[u]
             q == eventQueue[u]
             z == popped[u]
  <2>1. p \in Seq(Alerts) /\ q \in Seq(Alerts) /\ z \in SUBSET Alerts /\ Window(p, q, z)
    BY Zenon DEF QueueInv, QueueTypes, ChannelInv, ChannelTypes, Queue
  <2>2. /\ \A i \in 1..Len(p) : i + QueueSize > Len(p) => p[i] \in Elements(q) \cup z
        /\ Elements(q) \cap z = {}
        /\ Cardinality(Elements(q)) = Len(q)
    <3> HIDE DEF p, q, z
    <3> QED
      BY <2>1, WindowKeeps
  <2> QED
    BY <2>2
<1> QED
  BY <1>1, DeliveryHolds, PTL
=============================================================================
