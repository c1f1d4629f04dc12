--------------------------- MODULE SessionManager ---------------------------
(***************************************************************************)
(* The registry part of SessionManager (src/server/sessionManager.cpp):    *)
(* which session object serves each user, and which users are offline.     *)
(* Every method runs under SessionManager::m_mutex, so each one is a single *)
(* atomic step of whichever worker thread calls it.                        *)
(***************************************************************************)
CONSTANTS Users,      \* client identifiers (hostnames of the users table)
          Sessions,   \* clientSession objects, one per accepted connection
          NoSession   \* the null shared_ptr

ASSUME NoSessionAssumption == NoSession \notin Sessions

VARIABLES activeSessions,   \* m_activeSessions: the session serving each user
          offlineUsers,     \* m_offlineUsers
          connectedUsers    \* m_connectedUsers: users that logged in once

registryVars == <<activeSessions, offlineUsers, connectedUsers>>

\* A fresh SessionManager knows nobody: nothing of the registry is persisted.
RegistryInit ==
    /\ activeSessions = [u \in Users |-> NoSession]
    /\ offlineUsers = {}
    /\ connectedUsers = {}

registerWithoutErase(u, s) ==
    /\ activeSessions' = [activeSessions EXCEPT ![u] = s]
    /\ connectedUsers' = connectedUsers \cup {u}
    /\ UNCHANGED offlineUsers

registerSession(u, s) ==
    /\ activeSessions' = [activeSessions EXCEPT ![u] = s]
    /\ offlineUsers' = offlineUsers \ {u}
    /\ connectedUsers' = connectedUsers \cup {u}

unregisterWithoutInsert(u) ==
    /\ activeSessions' = [activeSessions EXCEPT ![u] = NoSession]
    /\ UNCHANGED <<offlineUsers, connectedUsers>>

\* By user, whichever session calls it: the entry may belong to another one.
unregisterSession(u) ==
    /\ activeSessions' = [activeSessions EXCEPT ![u] = NoSession]
    /\ offlineUsers' = offlineUsers \cup {u}
    /\ UNCHANGED connectedUsers

getSession(u) == activeSessions[u]

isClientRegistered(u) == activeSessions[u] # NoSession

RegistryTypeOK ==
    /\ activeSessions \in [Users -> Sessions \cup {NoSession}]
    /\ offlineUsers \subseteq Users
    /\ connectedUsers \subseteq Users

(***************************************************************************)
(* Every user that ever logged in is either served by a session or listed  *)
(* as offline, never both and never neither: registerSession and           *)
(* unregisterSession move a user between the two in one critical section,  *)
(* so a broadcast that reads both sets cannot find a user in neither       *)
(* at any one instant.                                                     *)
(***************************************************************************)
RegistryPartition ==
    /\ connectedUsers = offlineUsers \cup {u \in Users : isClientRegistered(u)}
    /\ \A u \in offlineUsers : ~isClientRegistered(u)
=============================================================================
