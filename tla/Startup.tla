------------------------------ MODULE Startup -------------------------------
(***************************************************************************)
(* Servers are started, fail to start, run, stop and crash on one host     *)
(* (main.cpp, the constructor and destructor of Server, its setup          *)
(* functions, and those of Storage).  They share the ports, the name of    *)
(* the UNIX socket and the database file; the last two outlive them.       *)
(*                                                                         *)
(* An exception in the constructor of Server ends the process without      *)
(* ~Server: the kernel closes its sockets, the name of the UNIX socket     *)
(* stays.  That the pool, whose threads are joined on the way out, comes   *)
(* to its end is StopEnds of ThreadPool.                                   *)
(***************************************************************************)
EXTENDS Config

CONSTANTS Servers, NoServer,
          Inputs     \* the launches that are tried

ASSUME StartupAssumption == NoServer \notin Servers /\ Inputs \subseteq Launches

VARIABLES pc,        \* how far each server has come, or "off"
          launch,    \* how it was launched
          ports,     \* its configuration: m_tcpPort and m_udpPort
          why,       \* why its last start failed, or "none"
          tcp, udp,  \* who is bound to each port
          metrics,   \* who serves the metrics
          path,      \* whose socket has the name of the UNIX socket
          tables,    \* the tables of the database
          admin      \* users has the row of admin

\* An observer: no other server has been up since this one was launched.
VARIABLE alone

dbVars == <<tables, admin>>
portVars == <<tcp, udp, metrics>>
vars == <<pc, launch, ports, why, portVars, path, dbVars, alone>>

PortNumbers == {80, 90}
Schema == {"users", "inventory", "logs"}
NoLaunch == [argc |-> 1, exists |-> TRUE, tcp |-> Unset, udp |-> Unset, env |-> Unset,
             port |-> Unset, sound |-> TRUE]

Up(s) == pc[s] # "off"

Init ==
    /\ pc = [s \in Servers |-> "off"] /\ launch = [s \in Servers |-> NoLaunch]
    /\ ports = [s \in Servers |-> NoPorts] /\ why = [s \in Servers |-> "none"]
    /\ tcp = [p \in PortNumbers |-> NoServer] /\ udp = [p \in PortNumbers |-> NoServer]
    /\ metrics = NoServer /\ path = NoServer /\ tables = {} /\ admin = FALSE
    /\ alone = [s \in Servers |-> FALSE]

Goto(s, label) == pc' = [pc EXCEPT ![s] = label]

\* The process is gone and the kernel has closed its sockets.
Exit(s, reason) ==
    /\ Goto(s, "off")
    /\ why' = [why EXCEPT ![s] = reason]
    /\ tcp' = [p \in PortNumbers |-> IF tcp[p] = s THEN NoServer ELSE tcp[p]]
    /\ udp' = [p \in PortNumbers |-> IF udp[p] = s THEN NoServer ELSE udp[p]]
    /\ metrics' = IF metrics = s THEN NoServer ELSE metrics

\* A step of s that goes on, or throws.
Proceed(s, label) == Goto(s, label) /\ UNCHANGED <<launch, ports, why, alone>>
Throw(s, reason) == Exit(s, reason) /\ UNCHANGED <<launch, ports, path, dbVars, alone>>

-----------------------------------------------------------------------------
(* main, and the constructors it calls.                                    *)

\* validateArguments and Config.
Main(s) ==
    /\ ~Up(s)
    /\ \E l \in Inputs :
          LET p == IF validateArguments(l) THEN Configured(l) ELSE NoPorts IN
          /\ launch' = [launch EXCEPT ![s] = l]
          /\ ports' = [ports EXCEPT ![s] = p]
          /\ why' = [why EXCEPT ![s] = IF p = NoPorts THEN "refused" ELSE "none"]
          /\ IF p = NoPorts
             THEN UNCHANGED <<pc, alone>>
             ELSE /\ Goto(s, "schema")
                  /\ alone' = [r \in Servers |-> r = s /\ ~\E q \in Servers \ {s} : Up(q)]
    /\ UNCHANGED <<portVars, path, dbVars>>

\* Storage opens the database and initializeSchema creates the tables that are
\* not there, in this order; a statement may throw after the first few.
initializeSchema(s) ==
    /\ pc[s] = "schema"
    /\ \/ tables' = Schema /\ Proceed(s, "tcp") /\ UNCHANGED portVars
       \/ /\ \E new \in {{}, {"users"}, {"users", "inventory"}} : tables' = tables \cup new
          /\ Exit(s, "fault") /\ UNCHANGED <<launch, ports, alone>>
    /\ UNCHANGED <<path, admin>>

\* openLogFile may fail, which is not an error.  Then the event loop's epoll and
\* the TCP socket: bind and listen fail on a port that is taken.
setTCPConfig(s) ==
    /\ pc[s] = "tcp"
    /\ LET p == ports[s].tcp IN
       \/ /\ tcp[p] = NoServer
          /\ tcp' = [tcp EXCEPT ![p] = s]
          /\ Proceed(s, "udp") /\ UNCHANGED <<udp, metrics, path, dbVars>>
       \/ tcp[p] # NoServer /\ Throw(s, "tcp")
       \/ Throw(s, "fault")

\* A mutant: a port that is taken is no error.
BindAnyway(s) ==
    /\ pc[s] = "udp"
    /\ LET p == ports[s].udp IN
       udp' = [udp EXCEPT ![p] = IF @ = NoServer THEN s ELSE @]
    /\ Proceed(s, "unlink") /\ UNCHANGED <<tcp, metrics, path, dbVars>>

setUDPConfig(s) ==
    /\ pc[s] = "udp"
    /\ LET p == ports[s].udp IN
       \/ /\ udp[p] = NoServer
          /\ udp' = [udp EXCEPT ![p] = s]
          /\ Proceed(s, "unlink") /\ UNCHANGED <<tcp, metrics, path, dbVars>>
       \/ udp[p] # NoServer /\ Throw(s, "udp")
       \/ Throw(s, "fault")

\* A mutant: the name an earlier server left is not removed.
KeepName(s) ==
    /\ pc[s] = "unlink"
    /\ Proceed(s, "bind") /\ UNCHANGED <<portVars, path, dbVars>>

\* setUNIXconfig, first part: the name is removed, whoever's it is.
UnlinkName(s) ==
    /\ pc[s] = "unlink"
    /\ \/ path' = NoServer /\ Proceed(s, "bind") /\ UNCHANGED <<portVars, dbVars>>
       \/ Throw(s, "fault")

\* A mutant: the name is removed once more, after the socket is bound.
BindThenUnlink(s) ==
    /\ pc[s] = "bind"
    /\ path' = NoServer /\ Proceed(s, "admin") /\ UNCHANGED <<portVars, dbVars>>

\* setUNIXconfig, second part: bind, listen and epoll_ctl.
BindName(s) ==
    /\ pc[s] = "bind"
    /\ \/ path = NoServer /\ path' = s /\ Proceed(s, "admin") /\ UNCHANGED <<portVars, dbVars>>
       \/ path # NoServer /\ Throw(s, "path")
       \/ /\ path = NoServer /\ path' \in {s, NoServer}
          /\ Exit(s, "fault") /\ UNCHANGED <<launch, ports, dbVars, alone>>

\* setupServer asks for the user admin, and creates it where there is none.
UserExists(s) ==
    /\ pc[s] = "admin"
    /\ \/ Proceed(s, IF admin THEN "expose" ELSE "create") /\ UNCHANGED <<portVars, path, dbVars>>
       \/ Throw(s, "fault")

\* createUser throws when another server has created it meanwhile.
CreateAdmin(s) ==
    /\ pc[s] = "create"
    /\ \/ ~admin /\ admin' = TRUE /\ Proceed(s, "expose") /\ UNCHANGED <<portVars, path, tables>>
       \/ admin /\ Throw(s, "admin")
       \/ Throw(s, "fault")

\* A server that cannot expose its metrics (another one does) runs without.
startPrometheusExposer(s) ==
    /\ pc[s] = "expose"
    /\ \/ metrics = NoServer /\ metrics' = s
       \/ UNCHANGED metrics
    /\ Proceed(s, "run") /\ UNCHANGED <<tcp, udp, path, dbVars>>

-----------------------------------------------------------------------------
(* The end of a server.                                                    *)

\* A signal, and ~Server: the name is removed, whoever's it is.
Shutdown(s) ==
    /\ pc[s] = "run"
    /\ Exit(s, "none")
    /\ path' = NoServer
    /\ UNCHANGED <<launch, ports, dbVars, alone>>

Crash(s) == Up(s) /\ Throw(s, "none")

Step(s) ==
    \/ initializeSchema(s) \/ setTCPConfig(s) \/ setUDPConfig(s) \/ UnlinkName(s)
    \/ BindName(s) \/ UserExists(s) \/ CreateAdmin(s) \/ startPrometheusExposer(s)

Next == \E s \in Servers : Main(s) \/ Step(s) \/ Shutdown(s) \/ Crash(s)

Spec == Init /\ [][Next]_vars

-----------------------------------------------------------------------------
(* Properties.                                                             *)

\* The variables have their types; a server that is up has two valid ports.
TypeOK ==
    /\ pc \in [Servers -> {"off", "schema", "tcp", "udp", "unlink", "bind", "admin",
                           "create", "expose", "run"}]
    /\ why \in [Servers -> {"none", "refused", "fault", "tcp", "udp", "path", "admin"}]
    /\ \A s \in Servers : Up(s) => {ports[s].tcp, ports[s].udp} \subseteq PortNumbers
    /\ tcp \in [PortNumbers -> Servers \cup {NoServer}]
    /\ udp \in [PortNumbers -> Servers \cup {NoServer}]
    /\ {path, metrics} \subseteq Servers \cup {NoServer} /\ tables \subseteq Schema
    /\ admin \in BOOLEAN /\ alone \in [Servers -> BOOLEAN]

\* A server whose loop runs has all it serves with: both its ports, every table
\* and a user to log in with, whatever failed or crashed before it (setupServer,
\* initializeSchema).
RunningIsReady ==
    \A s \in Servers : pc[s] = "run" =>
        /\ tcp[ports[s].tcp] = s /\ udp[ports[s].udp] = s
        /\ tables = Schema /\ admin

\* What earlier servers left behind, the name of the UNIX socket, a part of the
\* tables, the user admin, never keeps a server from starting: while no other
\* server is up a start fails only for its configuration or a system call.
StartsAfterAnything ==
    \A s \in Servers : alone[s] => why[s] \in {"none", "refused", "fault"}

\* Scripts reach a server by the name of its UNIX socket, unless another server
\* has been started beside it, which takes the name (setUNIXconfig).
ReachedByName == \A s \in Servers : alone[s] /\ pc[s] = "run" => path = s

\* The port a launch was given last.
LastGiven(l) == IF l.argc >= 3 THEN l.tcp ELSE IF l.env # Unset THEN l.env ELSE l.port

\* A client with the same arguments, or with its variable set to the same port.
LikeClient(l) ==
    IF l.argc >= 3 THEN parse_arguments(l.argc, l.tcp, l.udp, Unset)
    ELSE parse_arguments(2, Unset, Unset, LastGiven(l))

\* The ports come from the arguments, then from the environment, then from the
\* file, and one port serves for both; a client that is given the same
\* connects to these ports or to none (validatePort, parse_arguments,
\* config_arguments_ports).
PortsAgree ==
    \A s \in Servers : Up(s) =>
        LET l == launch[s] IN
        /\ ports[s] = Ports(Number(LastGiven(l)),
                            Number(IF l.argc = 4 THEN l.udp ELSE LastGiven(l)))
        /\ Service(LikeClient(l).tcp) \in {ports[s].tcp, 0}
        /\ Service(LikeClient(l).udp) \in {ports[s].udp, 0}
=============================================================================
