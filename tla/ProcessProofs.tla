---------------------------- MODULE ProcessProofs ----------------------------
(***************************************************************************)
(* Proofs about the processes of a host, which meet in the names it gives  *)
(* out.  First Startup, for any set of servers and of launches: ports, the *)
(* path of the UNIX socket and the tables.  Then ClientProcess, for any    *)
(* clients and queues: the one queue name that all clients share.          *)
(***************************************************************************)
EXTENDS Startup, ClientProcess, TLAPS

PastUnlink == {"admin", "create", "expose", "run"}
PastUdp == {"unlink", "bind"} \cup PastUnlink
PastTcp == {"udp"} \cup PastUdp
PastSchema == {"tcp"} \cup PastTcp
Labels == {"off", "schema"} \cup PastSchema
Reasons == {"none", "refused", "fault", "tcp", "udp", "path", "admin"}
Holders == Servers \cup {NoServer}

\* The types the proofs need.  A server that is up has the ports of a launch
\* that was not refused.
TypeInv ==
    /\ pc \in [Servers -> Labels] /\ why \in [Servers -> Reasons]
    /\ launch \in [Servers -> Launches] /\ ports \in [Servers -> [tcp : Nat, udp : Nat]]
    /\ tcp \in [PortNumbers -> Holders] /\ udp \in [PortNumbers -> Holders]
    /\ path \in Holders /\ metrics \in Holders
    /\ tables \subseteq Schema /\ admin \in BOOLEAN /\ alone \in [Servers -> BOOLEAN]

PortsInv ==
    \A s \in Servers : Up(s) =>
        /\ validateArguments(launch[s])
        /\ ports[s] = Configured(launch[s]) /\ ports[s] # NoPorts

\* Who holds a port has passed the step that binds it, and the other way round.
TcpInv ==
    /\ \A s \in Servers : pc[s] \in PastTcp => tcp[ports[s].tcp] = s
    /\ \A p \in PortNumbers : tcp[p] # NoServer => pc[tcp[p]] \in PastTcp
UdpInv ==
    /\ \A s \in Servers : pc[s] \in PastUdp => udp[ports[s].udp] = s
    /\ \A p \in PortNumbers : udp[p] # NoServer => pc[udp[p]] \in PastUdp

DatabaseInv ==
    /\ \A s \in Servers : pc[s] \in PastSchema => tables = Schema
    /\ \A s \in Servers : pc[s] \in {"expose", "run"} => admin

\* While a server is alone the host is as it left it.
AloneInv ==
    \A s \in Servers : alone[s] =>
        /\ why[s] \in {"none", "refused", "fault"}
        /\ Up(s) => \A q \in Servers : Up(q) => q = s
        /\ pc[s] = "bind" => path = NoServer
        /\ pc[s] \in PastUnlink => path = s
        /\ pc[s] = "create" => ~admin

StartupInv == TypeInv /\ PortsInv /\ TcpInv /\ UdpInv /\ DatabaseInv /\ AloneInv

-----------------------------------------------------------------------------
(* The configuration.                                                      *)

\* A text that is in range is the number of one of the two ports (validatePort
\* and validateArguments refuse every other).
LEMMA InRangePort ==
    ASSUME NEW text \in Texts, InRange(text)
    PROVE  Number(text) \in PortNumbers
BY DEF Texts, InRange, Number, PortNumbers, Unset, MAX_PORT

\* The ports of a launch are numbers.
LEMMA ConfiguredType ==
    ASSUME NEW l \in Launches
    PROVE  Configured(l) \in [tcp : Nat, udp : Nat]
<1>1. \A text : Number(text) \in Nat
  BY DEF Number
<1>2. validatePort(l) \in [tcp : Nat, udp : Nat]
  BY <1>1 DEF validatePort, Ports, NoPorts
<1> QED
  BY <1>2 DEF Configured, Ports, NoPorts

\* A launch that passes validateArguments and Config has two ports that can be
\* bound.
LEMMA ConfiguredPorts ==
    ASSUME NEW l \in Launches, validateArguments(l), Configured(l) # NoPorts
    PROVE  Configured(l).tcp \in PortNumbers /\ Configured(l).udp \in PortNumbers
<1>1. Configured(l) = validatePort(l) /\ Service(l.port) # 0
  BY DEF Configured, validatePort
<1>2. l.argc \in 1..5 /\ l.tcp \in Texts /\ l.udp \in Texts /\ l.env \in Texts /\ l.port \in Texts
  BY DEF Launches
<1>3. CASE l.argc = 4
  BY <1>1, <1>2, <1>3, InRangePort DEF validatePort, validateArguments, Ports
<1>4. CASE l.argc = 3
  BY <1>1, <1>2, <1>4, InRangePort DEF validatePort, validateArguments, Ports
<1>5. CASE l.argc < 3 /\ l.env # Unset
  <2>1. validatePort(l) = IF InRange(l.env) THEN Ports(Number(l.env), Number(l.env)) ELSE NoPorts
    BY <1>1, <1>2, <1>5 DEF validatePort
  <2> QED
    BY <1>1, <1>2, <2>1, InRangePort DEF Ports
<1>6. CASE l.argc < 3 /\ l.env = Unset
  <2>1. validatePort(l) = Ports(Number(l.port), Number(l.port))
    BY <1>1, <1>2, <1>6 DEF validatePort
  <2>2. Number(l.port) \in PortNumbers
    BY <1>1 DEF Service, Number, PortNumbers
  <2> QED
    BY <1>1, <2>1, <2>2 DEF Ports
<1> QED
  BY <1>2, <1>3, <1>4, <1>5, <1>6 DEF validateArguments

-----------------------------------------------------------------------------
(* The invariant.                                                          *)

\* On a fresh host nobody holds anything.
LEMMA StartupInit == Init => StartupInv
<1> SUFFICES ASSUME Init PROVE StartupInv
  OBVIOUS
<1> USE StartupAssumption DEF Init
<1>1. NoLaunch \in Launches
  BY DEF NoLaunch, Launches, Texts, Unset
<1>2. NoPorts \in [tcp : Nat, udp : Nat]
  BY DEF NoPorts, Ports
<1>3. TypeInv
  BY <1>1, <1>2, Zenon DEF TypeInv, Labels, Reasons, Holders
<1> QED
  BY <1>3 DEF StartupInv, PortsInv, TcpInv, UdpInv, DatabaseInv, AloneInv, Up, PastUnlink,
     PastUdp, PastTcp, PastSchema

\* The ports of a server that is up can be bound.
LEMMA PortsOf ==
    ASSUME TypeInv, PortsInv, NEW s \in Servers, Up(s)
    PROVE  ports[s].tcp \in PortNumbers /\ ports[s].udp \in PortNumbers
BY ConfiguredPorts DEF TypeInv, PortsInv

\* The end of a process (~Server, an exception in setupServer, a crash) keeps
\* the invariant, whatever it does to the name of the UNIX socket: while a
\* server is alone nobody else ends.
LEMMA ExitKeeps ==
    ASSUME StartupInv, NEW s \in Servers, Up(s), NEW reason \in Reasons,
           alone[s] => reason \in {"none", "refused", "fault"},
           Exit(s, reason), UNCHANGED <<launch, ports, alone, admin>>,
           path' \in Holders, tables \subseteq tables', tables' \subseteq Schema
    PROVE  StartupInv'
<1> USE StartupAssumption DEF StartupInv
<1>1. pc' = [pc EXCEPT ![s] = "off"] /\ why' = [why EXCEPT ![s] = reason]
  BY DEF Exit, Goto
<1>2. TypeInv'
  BY <1>1 DEF TypeInv, Exit, Labels, Holders
<1>3. PortsInv'
  BY <1>1 DEF PortsInv, TypeInv, Up
<1>4. TcpInv'
  <2>1. ASSUME NEW r \in Servers, pc'[r] \in PastTcp PROVE tcp'[ports'[r].tcp] = r
    <3>1. r # s /\ pc[r] \in PastTcp /\ Up(r)
      BY <1>1, <2>1 DEF TypeInv, PastTcp, PastUdp, PastUnlink, Up
    <3> QED
      BY <3>1, PortsOf, Zenon DEF TcpInv, Exit
  <2>2. ASSUME NEW p \in PortNumbers, tcp'[p] # NoServer PROVE pc'[tcp'[p]] \in PastTcp
    BY <1>1, <2>2 DEF TypeInv, TcpInv, Exit, Holders
  <2> QED
    BY <2>1, <2>2 DEF TcpInv
<1>5. UdpInv'
  <2>1. ASSUME NEW r \in Servers, pc'[r] \in PastUdp PROVE udp'[ports'[r].udp] = r
    <3>1. r # s /\ pc[r] \in PastUdp /\ Up(r)
      BY <1>1, <2>1 DEF TypeInv, PastUdp, PastUnlink, Up
    <3> QED
      BY <3>1, PortsOf DEF UdpInv, Exit
  <2>2. ASSUME NEW p \in PortNumbers, udp'[p] # NoServer PROVE pc'[udp'[p]] \in PastUdp
    BY <1>1, <2>2 DEF TypeInv, UdpInv, Exit, Holders
  <2> QED
    BY <2>1, <2>2 DEF UdpInv
<1>6. DatabaseInv'
  BY <1>1, Zenon DEF DatabaseInv, TypeInv, PastSchema, PastTcp, PastUdp, PastUnlink
<1>7. AloneInv'
  BY <1>1 DEF AloneInv, TypeInv, Up, PastUnlink
<1> QED
  BY <1>2, <1>3, <1>4, <1>5, <1>6, <1>7

\* An exception keeps it where it is one a server that is alone can meet.
LEMMA ThrowKeeps ==
    ASSUME StartupInv, NEW s \in Servers, Up(s), NEW reason \in Reasons,
           alone[s] => reason \in {"none", "refused", "fault"}, Throw(s, reason)
    PROVE  StartupInv'
<1>1. path' \in Holders /\ tables \subseteq tables' /\ tables' \subseteq Schema
  BY DEF Throw, dbVars, StartupInv, TypeInv
<1> QED
  BY <1>1, ExitKeeps DEF Throw, dbVars

\* While a server is alone nobody else holds a port.
LEMMA AlonePorts ==
    ASSUME StartupInv, NEW s \in Servers, Up(s), alone[s], NEW p \in PortNumbers
    PROVE  /\ tcp[p] # NoServer => pc[s] \in PastTcp
           /\ udp[p] # NoServer => pc[s] \in PastUdp
BY SMTT(30) DEF StartupInv, AloneInv, TypeInv, TcpInv, UdpInv, Holders, Up, PastTcp, PastUdp, PastUnlink

-----------------------------------------------------------------------------
(* The steps.                                                              *)

USE DEF StartupInv, portVars, dbVars

\* A step that goes on and takes neither a port nor a table keeps the
\* invariant if it keeps what is said of a server that is alone.
LEMMA ProceedKeeps ==
    ASSUME StartupInv, NEW s \in Servers, NEW label \in Labels, Up(s), Proceed(s, label),
           label # "off", UNCHANGED <<tcp, udp, tables>>,
           metrics' \in Holders, path' \in Holders, admin' \in BOOLEAN, admin => admin',
           pc[s] \in PastTcp <=> label \in PastTcp,
           pc[s] \in PastUdp <=> label \in PastUdp,
           pc[s] \in PastSchema <=> label \in PastSchema,
           label \in {"expose", "run"} => admin',
           alone[s] => /\ label = "bind" => path' = NoServer
                       /\ label \in PastUnlink => path' = s
                       /\ label = "create" => ~admin'
    PROVE  StartupInv'
<1> USE StartupAssumption
<1>1. pc' = [pc EXCEPT ![s] = label] /\ UNCHANGED <<launch, ports, why, alone>>
  BY DEF Proceed, Goto
<1>2. TypeInv'
  BY <1>1 DEF TypeInv
<1>3. PortsInv'
  BY <1>1 DEF PortsInv, TypeInv, Up
<1>4. TcpInv'
  BY <1>1 DEF TcpInv, TypeInv, Holders
<1>5. UdpInv'
  BY <1>1 DEF UdpInv, TypeInv, Holders
<1>6. DatabaseInv'
  BY <1>1 DEF DatabaseInv, TypeInv
<1>7. AloneInv'
  BY <1>1 DEF AloneInv, TypeInv, Up, PastUnlink
<1> QED
  BY <1>2, <1>3, <1>4, <1>5, <1>6, <1>7

\* A launch (main) makes the others no longer alone, or is refused.
LEMMA MainKeeps ==
    ASSUME StartupInv, NEW s \in Servers, Main(s)
    PROVE  StartupInv'
<1> USE StartupAssumption
<1>1. PICK l \in Inputs :
          LET p == IF validateArguments(l) THEN Configured(l) ELSE NoPorts IN
          /\ launch' = [launch EXCEPT ![s] = l]
          /\ ports' = [ports EXCEPT ![s] = p]
          /\ why' = [why EXCEPT ![s] = IF p = NoPorts THEN "refused" ELSE "none"]
          /\ IF p = NoPorts
             THEN UNCHANGED <<pc, alone>>
             ELSE /\ Goto(s, "schema")
                  /\ alone' = [r \in Servers |-> r = s /\ ~\E q \in Servers \ {s} : Up(q)]
  BY Zenon DEF Main
<1> DEFINE p == IF validateArguments(l) THEN Configured(l) ELSE NoPorts
<1>2. ~Up(s) /\ UNCHANGED <<tcp, udp, metrics, path, tables, admin>>
  BY DEF Main
<1>3. l \in Launches /\ p \in [tcp : Nat, udp : Nat]
  BY ConfiguredType DEF NoPorts, Ports
<1>4. CASE p = NoPorts
  <2>1. /\ launch' = [launch EXCEPT ![s] = l] /\ ports' = [ports EXCEPT ![s] = p]
        /\ why' = [why EXCEPT ![s] = "refused"] /\ UNCHANGED <<pc, alone>>
    BY <1>1, <1>4
  <2> HIDE DEF p
  <2>2. TypeInv'
    BY <1>2, <1>3, <2>1 DEF TypeInv, Reasons
  <2>3. PortsInv'
    BY <1>2, <2>1, Zenon DEF PortsInv, TypeInv, Up
  <2>4. TcpInv' /\ UdpInv'
    BY <1>2, <2>1 DEF TcpInv, UdpInv, TypeInv, Up, PastTcp, PastUdp, PastUnlink
  <2>5. DatabaseInv'
    BY <1>2, <2>1 DEF DatabaseInv
  <2>6. AloneInv'
    BY <1>2, <2>1 DEF AloneInv, TypeInv, Up
  <2> QED
    BY <2>2, <2>3, <2>4, <2>5, <2>6
<1>5. CASE p # NoPorts
  <2>1. /\ launch' = [launch EXCEPT ![s] = l] /\ ports' = [ports EXCEPT ![s] = p]
        /\ why' = [why EXCEPT ![s] = "none"] /\ pc' = [pc EXCEPT ![s] = "schema"]
        /\ alone' = [r \in Servers |-> r = s /\ ~\E q \in Servers \ {s} : Up(q)]
    BY <1>1, <1>5 DEF Goto
  <2>2. validateArguments(l) /\ p = Configured(l)
    BY <1>5
  <2> HIDE DEF p
  <2>3. TypeInv'
    BY <1>2, <1>3, <2>1 DEF TypeInv, Reasons, Labels
  <2>4. PortsInv'
    BY <1>2, <1>5, <2>1, <2>2, Zenon DEF PortsInv, TypeInv, Up
  <2>5. TcpInv' /\ UdpInv'
    BY <1>2, <2>1 DEF TcpInv, UdpInv, TypeInv, Up, PastTcp, PastUdp, PastUnlink, Holders
  <2>6. DatabaseInv'
    BY <1>2, <2>1, Zenon DEF DatabaseInv, TypeInv, PastSchema, PastTcp, PastUdp, PastUnlink
  <2>7. AloneInv'
    BY <1>2, <2>1, ZenonT(60) DEF AloneInv, TypeInv, Up, PastUnlink
  <2> QED
    BY <2>3, <2>4, <2>5, <2>6, <2>7
<1> QED
  BY <1>4, <1>5

\* initializeSchema completes the tables, or leaves a part of them.
LEMMA SchemaKeeps ==
    ASSUME StartupInv, NEW s \in Servers, initializeSchema(s)
    PROVE  StartupInv'
<1> USE StartupAssumption
<1>1. pc[s] = "schema" /\ Up(s) /\ UNCHANGED <<path, admin>>
  BY DEF initializeSchema, Up
<1>2. CASE tables' = Schema /\ Proceed(s, "tcp") /\ UNCHANGED portVars
  <2>1. /\ pc' = [pc EXCEPT ![s] = "tcp"]
        /\ UNCHANGED <<launch, ports, why, alone, tcp, udp, metrics>>
    BY <1>2 DEF Proceed, Goto
  <2>2. TypeInv'
    BY <1>1, <1>2, <2>1 DEF TypeInv, Labels, PastSchema
  <2>3. PortsInv'
    BY <1>1, <2>1, Zenon DEF PortsInv, TypeInv, Up
  <2>4. TcpInv' /\ UdpInv'
    BY <1>1, <2>1 DEF TcpInv, UdpInv, TypeInv, Holders, PastTcp, PastUdp, PastUnlink
  <2>5. DatabaseInv'
    BY <1>1, <1>2, <2>1, Zenon DEF DatabaseInv, TypeInv
  <2>6. AloneInv'
    BY <1>1, <2>1, ZenonT(60) DEF AloneInv, TypeInv, Up, PastUnlink
  <2> QED
    BY <2>2, <2>3, <2>4, <2>5, <2>6
<1>3. CASE /\ \E new \in {{}, {"users"}, {"users", "inventory"}} : tables' = tables \cup new
           /\ Exit(s, "fault") /\ UNCHANGED <<launch, ports, alone>>
  <2>1. tables \subseteq tables' /\ tables' \subseteq Schema /\ path' \in Holders
    BY <1>1, <1>3, Zenon DEF TypeInv, Schema
  <2>2. "fault" \in Reasons
    BY DEF Reasons
  <2> QED
    BY <1>1, <1>3, <2>1, <2>2, ExitKeeps, Zenon
<1> QED
  BY <1>2, <1>3 DEF initializeSchema

\* A port that nobody holds is taken, and a port that is taken is an error that
\* a server does not meet while it is alone.
LEMMA TcpKeeps ==
    ASSUME StartupInv, NEW s \in Servers, setTCPConfig(s)
    PROVE  StartupInv'
<1> USE StartupAssumption
<1> DEFINE p == ports[s].tcp
<1>1. pc[s] = "tcp" /\ Up(s) /\ p \in PortNumbers
  BY PortsOf, Zenon DEF setTCPConfig, Up
<1>2. CASE /\ tcp[p] = NoServer /\ tcp' = [tcp EXCEPT ![p] = s]
           /\ Proceed(s, "udp") /\ UNCHANGED <<udp, metrics, path, dbVars>>
  <2>1. pc' = [pc EXCEPT ![s] = "udp"] /\ UNCHANGED <<launch, ports, why, alone>>
    BY <1>2, Zenon DEF Proceed, Goto
  <2>2. TypeInv'
    BY <1>1, <1>2, <2>1 DEF TypeInv, Labels, PastSchema, PastTcp, Holders
  <2>3. PortsInv'
    BY <1>1, <2>1, Zenon DEF PortsInv, TypeInv, Up
  <2>4. TcpInv'
    <3>1. ASSUME NEW r \in Servers, pc'[r] \in PastTcp PROVE tcp'[ports'[r].tcp] = r
      <4>1. CASE r = s
        BY <1>1, <1>2, <2>1, <4>1, Zenon DEF TypeInv
      <4>2. CASE r # s
        <5>1. pc[r] \in PastTcp /\ Up(r)
          BY <2>1, <3>1, <4>2, Zenon DEF TypeInv, Up, PastTcp, PastUdp, PastUnlink
        <5> QED
          BY <1>1, <1>2, <2>1, <5>1, PortsOf DEF TcpInv, TypeInv
      <4> QED
        BY <4>1, <4>2, Zenon
    <3>2. ASSUME NEW q \in PortNumbers, tcp'[q] # NoServer PROVE pc'[tcp'[q]] \in PastTcp
      BY <1>1, <1>2, <2>1, <3>2 DEF TcpInv, TypeInv, Holders, PastTcp
    <3> QED
      BY <3>1, <3>2, Zenon DEF TcpInv
  <2>5. UdpInv'
    BY <1>1, <1>2, <2>1 DEF UdpInv, TypeInv, Holders, PastUdp, PastUnlink
  <2>6. DatabaseInv'
    BY <1>1, <1>2, <2>1, Zenon DEF DatabaseInv, TypeInv, PastSchema
  <2>7. AloneInv'
    BY <1>1, <1>2, <2>1 DEF AloneInv, TypeInv, Up, PastUnlink
  <2> QED
    BY <2>2, <2>3, <2>4, <2>5, <2>6, <2>7
<1>3. CASE tcp[p] # NoServer /\ Throw(s, "tcp")
  <2>1. ~alone[s]
    BY <1>1, <1>3, AlonePorts DEF PastTcp, PastUdp, PastUnlink
  <2> QED
    BY <1>1, <1>3, <2>1, ThrowKeeps, Zenon DEF Reasons
<1>4. CASE Throw(s, "fault")
  BY <1>1, <1>4, ThrowKeeps, Zenon DEF Reasons
<1> QED
  BY <1>2, <1>3, <1>4, Zenon DEF setTCPConfig

\* The same for the UDP port.
LEMMA UdpKeeps ==
    ASSUME StartupInv, NEW s \in Servers, setUDPConfig(s)
    PROVE  StartupInv'
<1> USE StartupAssumption
<1> DEFINE p == ports[s].udp
<1>1. pc[s] = "udp" /\ Up(s) /\ p \in PortNumbers
  BY PortsOf DEF setUDPConfig, Up
<1>2. CASE /\ udp[p] = NoServer /\ udp' = [udp EXCEPT ![p] = s]
           /\ Proceed(s, "unlink") /\ UNCHANGED <<tcp, metrics, path, dbVars>>
  <2>1. pc' = [pc EXCEPT ![s] = "unlink"] /\ UNCHANGED <<launch, ports, why, alone>>
    BY <1>2, Zenon DEF Proceed, Goto
  <2>2. TypeInv'
    BY <1>1, <1>2, <2>1 DEF TypeInv, Labels, PastSchema, PastTcp, PastUdp, Holders
  <2>3. PortsInv'
    BY <1>1, <2>1, Zenon DEF PortsInv, TypeInv, Up
  <2>4. UdpInv'
    <3>1. ASSUME NEW r \in Servers, pc'[r] \in PastUdp PROVE udp'[ports'[r].udp] = r
      <4>1. CASE r = s
        BY <1>1, <1>2, <2>1, <4>1, Zenon DEF TypeInv
      <4>2. CASE r # s
        <5>1. pc[r] \in PastUdp /\ Up(r)
          BY <2>1, <3>1, <4>2, Zenon DEF TypeInv, Up, PastUdp, PastUnlink
        <5> QED
          BY <1>1, <1>2, <2>1, <5>1, PortsOf DEF UdpInv, TypeInv
      <4> QED
        BY <4>1, <4>2, Zenon
    <3>2. ASSUME NEW q \in PortNumbers, udp'[q] # NoServer PROVE pc'[udp'[q]] \in PastUdp
      BY <1>1, <1>2, <2>1, <3>2 DEF UdpInv, TypeInv, Holders, PastUdp
    <3> QED
      BY <3>1, <3>2, Zenon DEF UdpInv
  <2>5. TcpInv'
    BY <1>1, <1>2, <2>1 DEF TcpInv, TypeInv, Holders, PastTcp, PastUdp
  <2>6. DatabaseInv'
    BY <1>1, <1>2, <2>1, Zenon DEF DatabaseInv, TypeInv, PastSchema, PastTcp
  <2>7. AloneInv'
    BY <1>1, <1>2, <2>1 DEF AloneInv, TypeInv, Up, PastUnlink
  <2> QED
    BY <2>2, <2>3, <2>4, <2>5, <2>6, <2>7
<1>3. CASE udp[p] # NoServer /\ Throw(s, "udp")
  <2>1. ~alone[s]
    BY <1>1, <1>3, AlonePorts, Zenon DEF PastUdp, PastUnlink
  <2> QED
    BY <1>1, <1>3, <2>1, ThrowKeeps, Zenon DEF Reasons
<1>4. CASE Throw(s, "fault")
  BY <1>1, <1>4, ThrowKeeps, Zenon DEF Reasons
<1> QED
  BY <1>2, <1>3, <1>4 DEF setUDPConfig

\* setUNIXconfig: a server that is alone finds no name after it has removed it.
LEMMA NameKeeps ==
    ASSUME StartupInv, NEW s \in Servers, UnlinkName(s) \/ BindName(s)
    PROVE  StartupInv'
<1> USE StartupAssumption
<1>1. Up(s) /\ "fault" \in Reasons /\ "path" \in Reasons
  BY Zenon DEF UnlinkName, BindName, Up, Reasons
<1>2. CASE pc[s] = "unlink" /\ path' = NoServer /\ Proceed(s, "bind") /\ UNCHANGED <<portVars, dbVars>>
  BY <1>1, <1>2, ProceedKeeps, Zenon DEF Labels, PastSchema, PastTcp, PastUdp, PastUnlink, Holders, TypeInv
<1>3. CASE /\ pc[s] = "bind" /\ path = NoServer /\ path' = s
           /\ Proceed(s, "admin") /\ UNCHANGED <<portVars, dbVars>>
  BY <1>1, <1>3, ProceedKeeps, Zenon DEF Labels, PastSchema, PastTcp, PastUdp, PastUnlink, Holders, TypeInv
<1>4. CASE pc[s] = "bind" /\ path # NoServer /\ Throw(s, "path")
  BY <1>1, <1>4, ThrowKeeps, Zenon DEF AloneInv
<1>5. CASE /\ pc[s] = "bind" /\ path' \in {s, NoServer}
           /\ Exit(s, "fault") /\ UNCHANGED <<launch, ports, dbVars, alone>>
  <2>1. path' \in Holders /\ tables \subseteq tables' /\ tables' \subseteq Schema
    BY <1>5 DEF Holders, TypeInv
  <2> QED
    BY <1>1, <1>5, <2>1, ExitKeeps, Zenon
<1>6. CASE Throw(s, "fault")
  BY <1>1, <1>6, ThrowKeeps, Zenon
<1> QED
  BY <1>2, <1>3, <1>4, <1>5, <1>6 DEF UnlinkName, BindName

\* The last steps of setupServer: the user admin is there when they are done,
\* and a server that is alone creates it itself.
LEMMA UserKeeps ==
    ASSUME StartupInv, NEW s \in Servers,
           UserExists(s) \/ CreateAdmin(s) \/ startPrometheusExposer(s)
    PROVE  StartupInv'
<1> USE StartupAssumption
<1>1. Up(s) /\ "fault" \in Reasons /\ "admin" \in Reasons
  BY Zenon DEF UserExists, CreateAdmin, startPrometheusExposer, Up, Reasons
<1>2. alone[s] /\ pc[s] \in PastUnlink => path = s
  BY DEF AloneInv
<1>3. CASE /\ pc[s] = "admin" /\ Proceed(s, IF admin THEN "expose" ELSE "create")
           /\ UNCHANGED <<portVars, path, dbVars>>
  <2>1. CASE admin
    <3>1. Proceed(s, "expose")
      BY <1>3, <2>1, Zenon
    <3> QED
      BY <1>1, <1>2, <1>3, <2>1, <3>1, ProceedKeeps DEF Labels, PastSchema, PastTcp, PastUdp, PastUnlink, TypeInv
  <2>2. CASE ~admin
    <3>1. Proceed(s, "create")
      BY <1>3, <2>2, Zenon
    <3> QED
      BY <1>1, <1>2, <1>3, <2>2, <3>1, ProceedKeeps DEF Labels, PastSchema, PastTcp, PastUdp, PastUnlink, TypeInv
  <2> QED
    BY <2>1, <2>2, SMTT(30)
<1>4. CASE /\ pc[s] = "create" /\ ~admin /\ admin' = TRUE
           /\ Proceed(s, "expose") /\ UNCHANGED <<portVars, path, tables>>
  BY <1>1, <1>2, <1>4, ProceedKeeps, Zenon DEF Labels, PastSchema, PastTcp, PastUdp, PastUnlink, TypeInv
<1>5. CASE pc[s] = "create" /\ admin /\ Throw(s, "admin")
  BY <1>1, <1>5, ThrowKeeps, ZenonT(60) DEF AloneInv
<1>6. CASE /\ pc[s] = "expose" /\ metrics' \in {s, metrics}
           /\ Proceed(s, "run") /\ UNCHANGED <<tcp, udp, path, dbVars>>
  <2>1. admin /\ metrics' \in Holders
    BY <1>6 DEF DatabaseInv, TypeInv, Holders
  <2> QED
    BY <1>1, <1>2, <1>6, <2>1, ProceedKeeps DEF Labels, PastSchema, PastTcp, PastUdp, PastUnlink, TypeInv
<1>7. CASE Throw(s, "fault")
  BY <1>1, <1>7, ThrowKeeps
<1> QED
  BY <1>3, <1>4, <1>5, <1>6, <1>7, Zenon DEF UserExists, CreateAdmin, startPrometheusExposer

\* The ends of a running server.
LEMMA EndKeeps ==
    ASSUME StartupInv, NEW s \in Servers, Shutdown(s) \/ Crash(s)
    PROVE  StartupInv'
<1>1. CASE Shutdown(s)
  <2>1. Up(s) /\ path' \in Holders /\ tables \subseteq tables' /\ tables' \subseteq Schema
    BY <1>1 DEF Shutdown, Up, Holders, TypeInv
  <2> QED
    BY <1>1, <2>1, ExitKeeps, Zenon DEF Shutdown, Reasons
<1>2. CASE Crash(s)
  BY <1>2, ThrowKeeps DEF Crash, Reasons
<1> QED
  BY <1>1, <1>2, Zenon

\* Every step keeps the invariant.
LEMMA StartupStep == StartupInv /\ [Next]_vars => StartupInv'
<1> SUFFICES ASSUME StartupInv, [Next]_vars PROVE StartupInv'
  OBVIOUS
<1>1. ASSUME NEW s \in Servers, Main(s) \/ Step(s) \/ Shutdown(s) \/ Crash(s)
      PROVE  StartupInv'
  BY <1>1, MainKeeps, SchemaKeeps, TcpKeeps, UdpKeeps, NameKeeps, UserKeeps, EndKeeps, Zenon DEF Step
<1>2. CASE UNCHANGED vars
  BY <1>2 DEF vars, TypeInv, PortsInv, TcpInv, UdpInv, DatabaseInv, AloneInv, Up
<1> QED
  BY <1>1, <1>2 DEF Next

THEOREM StartupInvariant == Spec => []StartupInv
<1> HIDE DEF StartupInv
<1> QED
  BY StartupInit, StartupStep, PTL DEF Spec

-----------------------------------------------------------------------------
(* The properties.                                                         *)

\* The variables have their types, and a server that is up has two ports that
\* can be bound (validateArguments, Config).
THEOREM TypeCorrect == Spec => []TypeOK
<1>1. StartupInv => TypeOK
  <2> SUFFICES ASSUME StartupInv PROVE TypeOK
    OBVIOUS
  <2>1. \A s \in Servers : Up(s) => {ports[s].tcp, ports[s].udp} \subseteq PortNumbers
    BY PortsOf, ZenonT(60)
  <2> QED
    BY <2>1 DEF TypeOK, TypeInv, Holders, Reasons, Labels, PastSchema, PastTcp, PastUdp, PastUnlink
<1> HIDE DEF StartupInv
<1> QED
  BY <1>1, StartupInvariant, PTL

\* For any number of servers, a server whose loop runs has both its ports, every
\* table and a user to log in with.
THEOREM Ready == Spec => []RunningIsReady
<1>1. StartupInv => RunningIsReady
  BY SMTT(30) DEF RunningIsReady, TcpInv, UdpInv, DatabaseInv, Labels, PastSchema, PastTcp, PastUdp, PastUnlink
<1> HIDE DEF StartupInv
<1> QED
  BY <1>1, StartupInvariant, PTL

\* For any number of servers, what others left behind never keeps a server from
\* starting while no other is up.
THEOREM Restartable == Spec => []StartsAfterAnything
<1>1. StartupInv => StartsAfterAnything
  BY DEF StartsAfterAnything, AloneInv
<1> HIDE DEF StartupInv
<1> QED
  BY <1>1, StartupInvariant, PTL

\* For any number of servers, one beside which no other was started is reached
\* by the name of its UNIX socket.
THEOREM Reached == Spec => []ReachedByName
<1>1. StartupInv => ReachedByName
  BY DEF ReachedByName, AloneInv, PastUnlink
<1> HIDE DEF StartupInv
<1> QED
  BY <1>1, StartupInvariant, PTL

\* validatePort takes the ports that were given last.
LEMMA PortsFrom ==
    ASSUME NEW l \in Launches, validateArguments(l), Configured(l) # NoPorts
    PROVE  /\ InRange(LastGiven(l))
           /\ l.argc = 4 => InRange(l.udp)
           /\ Configured(l) = Ports(Number(LastGiven(l)),
                                    Number(IF l.argc = 4 THEN l.udp ELSE LastGiven(l)))
<1>1. Configured(l) = validatePort(l) /\ Service(l.port) # 0
  BY DEF Configured, validatePort
<1>2. l.argc \in 1..5 /\ l.argc <= 4
  BY Zenon DEF Launches, validateArguments
<1>3. InRange(l.port)
  BY <1>1 DEF Service, InRange, Number, MAX_PORT
<1>4. CASE l.argc \in {3, 4}
  BY <1>1, <1>2, <1>4 DEF validatePort, validateArguments, LastGiven
<1>5. CASE l.argc < 3
  BY <1>1, <1>2, <1>3, <1>5 DEF validatePort, LastGiven
<1> QED
  BY <1>2, <1>4, <1>5

\* The client's two ports, and that it has the server's or none.
LEMMA ClientPorts ==
    ASSUME NEW l \in Launches, validateArguments(l), Configured(l) # NoPorts
    PROVE  /\ Service(LikeClient(l).tcp) \in {Configured(l).tcp, 0}
           /\ Service(LikeClient(l).udp) \in {Configured(l).udp, 0}
<1> DEFINE udpText == IF l.argc = 4 THEN l.udp ELSE LastGiven(l)
<1>1. LikeClient(l) = Ports(LastGiven(l), udpText)
  <2>1. l.argc \in 1..4
    BY DEF Launches, validateArguments
  <2>2. CASE l.argc = 4
    BY <2>2, PortsFrom DEF LastGiven, LikeClient, parse_arguments, config_arguments_ports
  <2>3. CASE l.argc = 3
    BY <2>3, PortsFrom DEF LastGiven, LikeClient, parse_arguments, config_arguments_ports
  <2>4. CASE l.argc < 3
    <3>1. LastGiven(l) # Unset
      BY PortsFrom DEF InRange, Number, Unset
    <3> QED
      BY <2>1, <2>4, <3>1, PortsFrom DEF LikeClient, parse_arguments
  <2> QED
    BY <2>1, <2>2, <2>3, <2>4
<1>2. \A text : Service(text) \in {Number(text), 0}
  BY ZenonT(60) DEF Service
<1> QED
  BY <1>1, <1>2, PortsFrom DEF Ports

\* For any launches, a server listens on the ports it was last given, and a
\* client that is given the same connects to these or to none.
THEOREM SamePorts == Spec => []PortsAgree
<1>1. StartupInv => PortsAgree
  BY PortsFrom, ClientPorts DEF PortsAgree, PortsInv, TypeInv
<1> HIDE DEF StartupInv
<1> QED
  BY <1>1, StartupInvariant, PTL

-----------------------------------------------------------------------------
(* Clients on one host (ClientProcess).                                    *)

INSTANCE FiniteSetTheorems

MainLabels == {"off", "ipc", "session", "cleanup", "ipc_exit", "unlink", "fclose",
               "return", "exited", "killed"}
Messages == [category : Categories \cup {Quiet, "exit"}, from : Clients]

\* The types the proofs need: a queue a client has open, a dashboard reads or
\* the name stands for is one that was created.
ProcessTypes ==
    /\ main \in [Clients -> MainLabels]
    /\ queue \in Seq(Seq(Messages))
    /\ mq \in [Clients -> 0..Len(queue)] /\ showing \in [Clients -> 0..Len(queue)]
    /\ name \in 0..Len(queue)
    /\ datagram \in [Clients -> Categories \cup {Quiet}]
    /\ dashboard \in [Clients -> {"none", "starting", "open", "ended"}]
    /\ mixed \in BOOLEAN /\ foreign \in BOOLEAN

\* A client has a queue open between ipc_init and its cleanup only.
HoldInv ==
    /\ \A c \in Clients : mq[c] # 0 => main[c] \in {"session", "cleanup", "ipc_exit", "unlink"}
    /\ \A c \in Clients : main[c] \in {"ipc_exit", "unlink"} => mq[c] # 0
    /\ \A c \in Clients : dashboard[c] = "open" => showing[c] # 0

From(q, c) == \A i \in DOMAIN q : q[i].from = c

\* Until they are mixed, one client at most has a queue open, the name stands
\* for its queue or for none, and what is in the queue a client has open or a
\* dashboard reads is its client's.
OneOpen == \A c, d \in Clients : mq[c] # 0 /\ mq[d] # 0 => c = d
NamedOpen == name # 0 => \E c \in Clients : mq[c] = name
OwnQueue == \A c \in Clients : mq[c] # 0 => From(queue[mq[c]], c)
OwnShown ==
    \A c \in Clients : showing[c] # 0 =>
        /\ From(queue[showing[c]], c)
        /\ \A d \in Clients : mq[d] = showing[c] => d = c
Apart == OneOpen /\ NamedOpen /\ OwnQueue /\ OwnShown

ProcessInv == ProcessTypes /\ HoldInv /\ (mixed \/ Apart) /\ OwnMessages

\* mq_send puts one message into the queue and keeps the others.
LEMMA EnqueueEffect ==
    ASSUME NEW q \in Seq(Messages), NEW m \in Messages
    PROVE  /\ Enqueue(q, m) \in Seq(Messages)
           /\ \A c : From(q, c) /\ m.from = c => From(Enqueue(q, m), c)
<1> DEFINE before == {i \in DOMAIN q : priority_check(q[i].category) >= priority_check(m.category)}
           k == Cardinality(before)
           front == SubSeq(q, 1, k)
           back == SubSeq(q, k + 1, Len(q))
<1>1. before \subseteq 1..Len(q) /\ Len(q) \in Nat
  OBVIOUS
<1>2. k \in Nat /\ k <= Len(q)
  <2>1. IsFiniteSet(1..Len(q)) /\ Cardinality(1..Len(q)) = Len(q)
    <3>1. 1 \in Int /\ Len(q) \in Int
      BY <1>1
    <3>2. /\ IsFiniteSet(1..Len(q))
          /\ Cardinality(1..Len(q)) = IF 1 > Len(q) THEN 0 ELSE Len(q) - 1 + 1
      BY ONLY <3>1, FS_Interval, Zenon
    <3> QED BY ONLY <1>1, <3>2, SMT
  <2> HIDE DEF before
  <2>2. IsFiniteSet(before) /\ Cardinality(before) <= Len(q)
    BY <1>1, <2>1, FS_Subset, ZenonT(60)
  <2> QED BY <2>2, FS_CardinalityType
<1>3. Enqueue(q, m) = front \o <<m>> \o back
  BY Zenon DEF Enqueue
<1> HIDE DEF before, k
<1>4. front \in Seq(Messages) /\ back \in Seq(Messages) /\ <<m>> \in Seq(Messages)
  BY <1>2
<1>5. /\ \A i \in DOMAIN front : front[i] = q[i] /\ i \in DOMAIN q
      /\ \A i \in DOMAIN back : back[i] = q[k + i] /\ k + i \in DOMAIN q
  <2>1. \A i \in DOMAIN front : front[i] = q[i] /\ i \in DOMAIN q
    BY <1>2
  <2>2. \A i \in DOMAIN back : back[i] = q[k + i] /\ k + i \in DOMAIN q
    BY <1>2
  <2> QED BY <2>1, <2>2, Zenon
<1> HIDE DEF front, back
<1>6. Enqueue(q, m) \in Seq(Messages)
  BY <1>3, <1>4
<1>7. ASSUME NEW c, From(q, c), m.from = c
      PROVE  From(Enqueue(q, m), c)
  <2> DEFINE both == front \o <<m>> \o back
  <2>1. \A i \in DOMAIN both :
           \/ i \in DOMAIN front /\ both[i] = front[i]
           \/ both[i] = m
           \/ \E j \in DOMAIN back : both[i] = back[j]
    <3> SUFFICES ASSUME NEW i \in DOMAIN both
                 PROVE  \/ i \in DOMAIN front /\ both[i] = front[i]
                        \/ both[i] = m
                        \/ \E j \in DOMAIN back : both[i] = back[j]
      OBVIOUS
    <3>1. CASE i <= Len(front)
      BY <3>1, <1>4
    <3>2. CASE i = Len(front) + 1
      BY <3>2, <1>4, SMTT(30)
    <3>3. CASE i > Len(front) + 1
      <4>1. i - (Len(front) + 1) \in DOMAIN back /\ both[i] = back[i - (Len(front) + 1)]
        BY <3>3, <1>4
      <4> QED BY <4>1
    <3> QED BY <3>1, <3>2, <3>3, <1>4, SMTT(30)
  <2> HIDE DEF both
  <2>2. \A i \in DOMAIN front : front[i].from = c
    BY <1>5, <1>7, Zenon DEF From
  <2>3. \A i \in DOMAIN back : back[i].from = c
    BY <1>5, <1>7, Zenon DEF From
  <2>4. \A i \in DOMAIN both : both[i].from = c
    BY <2>1, <2>2, <2>3, <1>7, Zenon
  <2>5. From(both, c)
    BY <2>4, Zenon DEF From
  <2> QED BY <2>5, <1>3, Zenon DEF both
<1> QED BY <1>6, <1>7

\* The kernel keeps a queue as it is or drops it.
LEMMA KeptEffect ==
    ASSUME NEW q \in Seq(Seq(Messages)), NEW names, NEW opened
    PROVE  LET kept == Kept(q, names, opened) IN
           /\ kept \in Seq(Seq(Messages)) /\ Len(kept) = Len(q)
           /\ \A g \in DOMAIN q : \A c : From(q[g], c) => From(kept[g], c)
<1> DEFINE kept == Kept(q, names, opened)
<1>1. kept = [g \in 1..Len(q) |-> IF g \in names \cup opened THEN q[g] ELSE <<>>]
  BY DEF Kept
<1>2. \A g \in 1..Len(q) : kept[g] = q[g] \/ kept[g] = <<>>
  BY <1>1
<1> HIDE DEF kept
<1>3. \A g \in 1..Len(q) : kept[g] \in Seq(Messages)
  <2>1. \A g \in 1..Len(q) : q[g] \in Seq(Messages)
    OBVIOUS
  <2>2. <<>> \in Seq(Messages)
    OBVIOUS
  <2> QED BY ONLY <1>2, <2>1, <2>2, Zenon
<1>4. kept \in Seq(Seq(Messages)) /\ Len(kept) = Len(q)
  BY <1>1, <1>3, SMTT(30)
<1>5. \A g \in DOMAIN q : \A c : From(q[g], c) => From(kept[g], c)
  BY <1>2, SMTT(30) DEF From
<1> QED BY <1>4, <1>5 DEF kept

\* A step that lets go of queues and drops messages leaves the clients apart.
LEMMA ApartKept ==
    ASSUME ProcessTypes, Apart, NamedOpen',
           \A d \in Clients : mq'[d] = mq[d] \/ mq'[d] = 0,
           \A d \in Clients : showing'[d] = showing[d] \/ showing'[d] = 0,
           \A g \in DOMAIN queue : \A d : From(queue[g], d) => From(queue'[g], d)
    PROVE  Apart'
<1>1. OneOpen'
  BY DEF Apart, OneOpen
<1>2. OwnQueue'
  <2> SUFFICES ASSUME NEW c \in Clients, mq'[c] # 0
               PROVE  From(queue'[mq'[c]], c)
    BY Zenon DEF OwnQueue
  <2>1. mq'[c] = mq[c] /\ mq[c] # 0
    BY SMTT(30)
  <2>2. From(queue[mq[c]], c) /\ mq[c] \in DOMAIN queue
    BY <2>1 DEF Apart, OwnQueue, ProcessTypes
  <2> QED BY <2>1, <2>2, Zenon
<1>3. OwnShown'
  <2> SUFFICES ASSUME NEW c \in Clients, showing'[c] # 0
               PROVE  /\ From(queue'[showing'[c]], c)
                      /\ \A d \in Clients : mq'[d] = showing'[c] => d = c
    BY Zenon DEF OwnShown
  <2>1. showing'[c] = showing[c] /\ showing[c] # 0
    BY SMTT(30)
  <2>2. From(queue[showing[c]], c) /\ showing[c] \in DOMAIN queue
    BY <2>1 DEF Apart, OwnShown, ProcessTypes
  <2>3. From(queue'[showing'[c]], c)
    BY <2>1, <2>2, Zenon
  <2>4. \A d \in Clients : mq'[d] = showing'[c] => d = c
    BY <2>1, Zenon DEF Apart, OwnShown
  <2> QED BY <2>3, <2>4, Zenon
<1> QED BY <1>1, <1>2, <1>3, Zenon DEF Apart

\* A step that leaves the queues and the observers alone.
LEMMA QueuesAlone ==
    ASSUME ProcessInv, HoldInv', UNCHANGED <<queue, mq, name, showing, mixed, foreign>>,
           main' \in [Clients -> MainLabels],
           datagram' \in [Clients -> Categories \cup {Quiet}],
           dashboard' \in [Clients -> {"none", "starting", "open", "ended"}]
    PROVE  ProcessInv'
<1>1. ProcessTypes'
  BY Zenon DEF ProcessInv, ProcessTypes
<1>2. Apart => Apart'
  BY Zenon DEF Apart, OneOpen, NamedOpen, OwnQueue, OwnShown
<1> QED BY <1>1, <1>2, Zenon DEF ProcessInv, OwnMessages

\* mq_send: the message of a client goes to the queue it has open, which no
\* other client's dashboard reads.
LEMMA SendApart ==
    ASSUME ProcessTypes, NEW c \in Clients, mq[c] # 0,
           NEW category \in Categories \cup {Quiet, "exit"},
           mq_send(c, category), UNCHANGED <<mq, name, showing>>
    PROVE  /\ queue' \in Seq(Seq(Messages)) /\ Len(queue') = Len(queue)
           /\ Apart => Apart'
<1> DEFINE g == mq[c]
           m == Message(category, c)
           q == Enqueue(queue[g], m)
<1>1. g \in 1..Len(queue) /\ queue \in Seq(Seq(Messages)) /\ queue[g] \in Seq(Messages)
  BY DEF ProcessTypes
<1>2. m \in Messages /\ m.from = c
  BY Zenon DEF Message, Messages
<1>3. q \in Seq(Messages) /\ (From(queue[g], c) => From(q, c))
  <2> HIDE DEF m, g
  <2> QED BY <1>1, <1>2, EnqueueEffect, Zenon
<1>4. queue' = [queue EXCEPT ![g] = q]
  BY DEF mq_send
<1> HIDE DEF q, m, g
<1>5. queue' \in Seq(Seq(Messages)) /\ Len(queue') = Len(queue)
  BY <1>1, <1>3, <1>4
<1>6. queue'[g] = q /\ \A h \in DOMAIN queue : h # g => queue'[h] = queue[h]
  BY <1>1, <1>4
<1>7. ASSUME Apart PROVE Apart'
  <2>1. OneOpen' /\ NamedOpen'
    BY <1>7 DEF Apart, OneOpen, NamedOpen
  <2>2. \A d \in Clients : mq[d] = g => d = c
    BY <1>7, <1>1 DEF Apart, OneOpen, g
  <2>3. From(queue[g], c)
    BY <1>7, <1>1 DEF Apart, OwnQueue, g
  <2>4. OwnQueue'
    <3> SUFFICES ASSUME NEW d \in Clients, mq[d] # 0
                 PROVE  From(queue'[mq[d]], d)
      BY Zenon DEF OwnQueue
    <3>1. CASE mq[d] = g
      BY <3>1, <2>2, <2>3, <1>3, <1>6, Zenon
    <3>2. CASE mq[d] # g
      <4>1. mq[d] \in DOMAIN queue /\ From(queue[mq[d]], d)
        BY <1>7 DEF ProcessTypes, Apart, OwnQueue
      <4> QED BY <3>2, <4>1, <1>6, Zenon
    <3> QED BY <3>1, <3>2
  <2>5. OwnShown'
    <3> SUFFICES ASSUME NEW d \in Clients, showing[d] # 0
                 PROVE  /\ From(queue'[showing[d]], d)
                        /\ \A e \in Clients : mq[e] = showing[d] => e = d
      BY Zenon DEF OwnShown
    <3>1. /\ showing[d] \in DOMAIN queue /\ From(queue[showing[d]], d)
          /\ \A e \in Clients : mq[e] = showing[d] => e = d
      BY <1>7 DEF ProcessTypes, Apart, OwnShown
    <3>2. CASE showing[d] = g
      <4>1. d = c
        BY <3>1, <3>2, Zenon DEF g
      <4> QED BY <3>1, <3>2, <4>1, <2>3, <1>3, <1>6, Zenon
    <3>3. CASE showing[d] # g
      BY <3>1, <3>3, <1>6, Zenon
    <3> QED BY <3>2, <3>3, Zenon
  <2> QED BY <2>1, <2>4, <2>5 DEF Apart
<1> QED BY <1>5, <1>7, Zenon

-----------------------------------------------------------------------------
(* The steps of the clients.                                               *)

\* Steps of the main thread that leave the queues alone.
LEMMA MainAlone ==
    ASSUME ProcessInv, NEW c \in Clients,
           \/ Setup(c) \/ Login(c) \/ EndSession(c) \/ CloseSockets(c) \/ logger_close(c)
    PROVE  ProcessInv'
<1> USE DEF MainTo, threadVars, dashboardVars, queueVars, observerVars, MainLabels
<1>1. UNCHANGED <<queue, mq, name, showing, mixed, foreign, datagram>>
  BY DEF Setup, Login, EndSession, CloseSockets, logger_close
<1>2. main \in [Clients -> MainLabels] /\ dashboard \in [Clients -> {"none", "starting", "open", "ended"}]
  BY Zenon DEF ProcessInv, ProcessTypes
<1>3. /\ main' \in [Clients -> MainLabels]
      /\ \A d \in Clients \ {c} : main'[d] = main[d]
  BY <1>2, Zenon DEF Setup, Login, EndSession, CloseSockets, logger_close
<1>4. /\ dashboard' \in [Clients -> {"none", "starting", "open", "ended"}]
      /\ \A d \in Clients : dashboard'[d] = "open" => dashboard[d] = "open"
  BY <1>2, ZenonT(60) DEF Setup, Login, EndSession, CloseSockets, logger_close
<1>5. /\ mq[c] # 0 => main'[c] \in {"session", "cleanup", "ipc_exit", "unlink"}
      /\ main'[c] \in {"ipc_exit", "unlink"} => mq[c] # 0
  BY <1>2 DEF Setup, Login, EndSession, CloseSockets, logger_close, ProcessInv, HoldInv
<1>6. HoldInv'
  BY <1>1, <1>3, <1>4, <1>5, Zenon DEF ProcessInv, HoldInv
<1>7. datagram' \in [Clients -> Categories \cup {Quiet}]
  BY <1>1, ZenonT(60) DEF ProcessInv, ProcessTypes
<1> QED BY <1>1, <1>3, <1>4, <1>6, <1>7, QueuesAlone, ZenonT(60)

\* Steps of the threads that send nothing.
LEMMA ThreadsAlone ==
    ASSUME ProcessInv, NEW c \in Clients,
           \/ ListenerCalls(c) \/ ListenerReceives(c) \/ KeepaliveEnds(c)
    PROVE  ProcessInv'
<1> USE DEF ListenerAt, dashboardVars, queueVars, observerVars
<1>1. UNCHANGED <<queue, mq, name, showing, mixed, foreign, main, dashboard>>
  BY Zenon DEF ListenerCalls, ListenerReceives, KeepaliveEnds
<1>2. datagram \in [Clients -> Categories \cup {Quiet}]
  BY Zenon DEF ProcessInv, ProcessTypes
<1>3. datagram' \in [Clients -> Categories \cup {Quiet}]
  BY <1>2, Zenon DEF ListenerCalls, ListenerReceives, KeepaliveEnds
<1>4. HoldInv'
  BY <1>1, Zenon DEF ProcessInv, HoldInv
<1> QED BY <1>1, <1>3, <1>4, QueuesAlone DEF ProcessInv, ProcessTypes

\* ipc_init: a client that opens the queue while no other has one creates it.
LEMMA InitApart ==
    ASSUME ProcessInv, NEW c \in Clients, ipc_init(c)
    PROVE  ProcessInv'
<1> USE DEF MainTo, threadVars, dashboardVars, queueVars
<1>1. CASE MainTo(c, "cleanup") /\ UNCHANGED <<mq, name, queue, mixed>>
  <2>1. UNCHANGED <<queue, mq, name, showing, mixed, foreign, datagram, dashboard>>
    BY <1>1, Zenon DEF ipc_init
  <2>2. main' \in [Clients -> MainLabels] /\ HoldInv'
    BY <1>1, <2>1, Zenon DEF ipc_init, ProcessInv, ProcessTypes, HoldInv, MainLabels
  <2> QED BY <2>1, <2>2, QueuesAlone, Zenon DEF ProcessInv, ProcessTypes
<1>2. CASE /\ MainTo(c, "session") /\ OpenQueue
           /\ mq' = [mq EXCEPT ![c] = name']
           /\ mixed' = (mixed \/ \E d \in Clients \ {c} : Alive(d) /\ mq[d] # 0)
  <2>1. UNCHANGED <<showing, foreign, datagram, dashboard>> /\ main[c] = "ipc"
    BY Zenon DEF ipc_init
  <2>2. mq[c] = 0
    BY <2>1 DEF ProcessInv, HoldInv
  <2>3. /\ queue \in Seq(Seq(Messages)) /\ Len(queue) \in Nat
        /\ name \in 0..Len(queue) /\ mq \in [Clients -> 0..Len(queue)]
        /\ showing \in [Clients -> 0..Len(queue)]
    BY DEF ProcessInv, ProcessTypes
  <2>4. /\ queue' \in Seq(Seq(Messages)) /\ Len(queue') >= Len(queue)
        /\ name' \in 1..Len(queue')
        /\ \A g \in DOMAIN queue : queue'[g] = queue[g]
        /\ name = 0 => queue'[name'] = <<>> /\ name' = Len(queue) + 1
        /\ name # 0 => name' = name
    <3>1. CASE name = 0
      <4>1. queue' = Append(queue, <<>>) /\ name' = Len(queue) + 1
        BY <1>2, <3>1, Zenon DEF OpenQueue
      <4> QED BY <4>1, <2>3, <3>1
    <3>2. CASE name # 0
      <4>1. queue' = queue /\ name' = name
        BY <1>2, <3>2 DEF OpenQueue
      <4> QED BY <4>1, <2>3, <3>2
    <3> QED BY <3>1, <3>2, Zenon
  <2>5. mq'[c] = name' /\ \A d \in Clients \ {c} : mq'[d] = mq[d]
    BY <1>2, <2>3, Zenon
  <2>6. main' \in [Clients -> MainLabels] /\ main'[c] = "session" /\ \A d \in Clients \ {c} : main'[d] = main[d]
    BY <1>2, Zenon DEF ProcessInv, ProcessTypes, MainLabels
  <2>7. HoldInv'
    BY <2>1, <2>4, <2>5, <2>6, Zenon DEF ProcessInv, HoldInv
  <2>8. ProcessTypes'
    <3>1. mq' \in [Clients -> 0..Len(queue')] /\ showing' \in [Clients -> 0..Len(queue')]
      <4>1. \A d \in Clients : mq'[d] \in 0..Len(queue') /\ showing[d] \in 0..Len(queue')
        <5>1. Len(queue) \in Nat /\ Len(queue') \in Nat /\ Len(queue') >= Len(queue)
          BY <2>3, <2>4
        <5>2. 0..Len(queue) \subseteq 0..Len(queue') /\ 1..Len(queue') \subseteq 0..Len(queue')
          BY ONLY <5>1, SMT
        <5> QED BY <2>3, <2>4, <2>5, <5>2, Zenon
      <4> QED BY <4>1, <1>2, <2>1, <2>3, Zenon
    <3>2. mixed' \in BOOLEAN
      BY <1>2, Zenon DEF ProcessInv, ProcessTypes
    <3>3. name' \in 0..Len(queue')
      BY <2>4
    <3> QED BY <3>1, <3>2, <3>3, <2>1, <2>4, <2>6, Zenon DEF ProcessInv, ProcessTypes
  <2>9. ASSUME ~mixed' PROVE Apart'
    <3>1. Apart /\ \A d \in Clients : mq[d] = 0
      <4>1. ~mixed /\ \A d \in Clients \ {c} : Alive(d) => mq[d] = 0
        BY <1>2, <2>9, Zenon
      <4>2. \A d \in Clients : mq[d] # 0 => Alive(d)
        BY Zenon DEF ProcessInv, HoldInv, Alive
      <4> QED BY <4>1, <4>2, <2>2 DEF ProcessInv
    <3>2. name = 0
      BY <3>1 DEF Apart, NamedOpen
    <3>3. \A d \in Clients : mq'[d] # 0 => d = c
      BY <3>1, <2>5, Zenon
    <3>4. OneOpen' /\ NamedOpen'
      BY <3>3, <2>5, ZenonT(60) DEF OneOpen, NamedOpen
    <3>5. OwnQueue'
      BY <3>3, <3>2, <2>4, <2>5, SMTT(30) DEF OwnQueue, From
    <3>6. OwnShown'
      <4> SUFFICES ASSUME NEW d \in Clients, showing[d] # 0
                   PROVE  /\ From(queue'[showing[d]], d)
                          /\ \A e \in Clients : mq'[e] = showing[d] => e = d
        BY <2>1, Zenon DEF OwnShown
      <4>1. showing[d] \in DOMAIN queue /\ From(queue[showing[d]], d)
        BY <3>1, <2>3, SMTT(30) DEF Apart, OwnShown
      <4>2. \A e \in Clients : mq'[e] # showing[d]
        BY <3>1, <3>2, <2>3, <2>4, <2>5, SMTT(30)
      <4> QED BY <4>1, <4>2, <2>4, Zenon
    <3> QED BY <3>4, <3>5, <3>6, SMTT(30) DEF Apart
  <2> QED BY <2>1, <2>7, <2>8, <2>9, Zenon DEF ProcessInv, OwnMessages, ProcessTypes
<1> QED BY <1>1, <1>2, Zenon DEF ipc_init

\* ipc_exit sends the exit message, or fails to.
LEMMA ExitApart ==
    ASSUME ProcessInv, NEW c \in Clients, ipc_exit(c) \/ ipc_exit_fails(c)
    PROVE  ProcessInv'
<1> USE DEF MainTo, threadVars, dashboardVars, queueVars, observerVars
<1>1. UNCHANGED <<mq, name, showing, foreign, datagram, dashboard>> /\ main[c] = "ipc_exit" /\ MainTo(c, "unlink")
  BY Zenon DEF ipc_exit, ipc_exit_fails
<1>2. mq[c] # 0
  BY <1>1, Zenon DEF ProcessInv, HoldInv
<1>3. main' \in [Clients -> MainLabels] /\ HoldInv'
  BY <1>1, Zenon DEF ProcessInv, ProcessTypes, HoldInv, MainLabels
<1>4. CASE ipc_exit(c)
  <2>1. mq_send(c, "exit") /\ mixed' = mixed
    BY <1>4, Zenon DEF ipc_exit
  <2>2. queue' \in Seq(Seq(Messages)) /\ Len(queue') = Len(queue) /\ (Apart => Apart')
    BY <1>1, <1>2, <2>1, SendApart, Zenon DEF ProcessInv
  <2>3. ProcessTypes'
    BY <1>1, <1>3, <2>1, <2>2, Zenon DEF ProcessInv, ProcessTypes
  <2> QED BY <1>1, <1>3, <2>1, <2>2, <2>3, Zenon DEF ProcessInv, OwnMessages
<1>5. CASE ipc_exit_fails(c)
  <2>1. mixed' = TRUE /\ queue' = queue
    BY <1>5, Zenon DEF ipc_exit_fails
  <2>2. ProcessTypes'
    BY <1>1, <1>3, <2>1, Zenon DEF ProcessInv, ProcessTypes
  <2> QED BY <1>1, <1>3, <2>1, <2>2, Zenon DEF ProcessInv, OwnMessages
<1> QED BY <1>4, <1>5, Zenon

\* The listener passes its datagram on, or drops it.
LEMMA ListenerApart ==
    ASSUME ProcessInv, NEW c \in Clients, ListenerSends(c)
    PROVE  ProcessInv'
<1> USE DEF dashboardVars, observerVars
<1>1. UNCHANGED <<main, mq, name, showing, mixed, foreign, dashboard>>
  BY Zenon DEF ListenerSends, ListenerAt
<1>2. datagram' \in [Clients -> Categories \cup {Quiet}]
  BY Zenon DEF ListenerSends, ProcessInv, ProcessTypes
<1>3. HoldInv'
  BY <1>1, ZenonT(60) DEF ProcessInv, HoldInv
<1>4. CASE queue' = queue
  BY <1>1, <1>2, <1>3, <1>4, QueuesAlone, SMTT(30) DEF ProcessInv, ProcessTypes
<1>5. CASE mq[c] # 0 /\ mq_send(c, datagram[c])
  <2>1. datagram[c] \in Categories \cup {Quiet, "exit"}
    BY Zenon DEF ProcessInv, ProcessTypes
  <2>2. queue' \in Seq(Seq(Messages)) /\ Len(queue') = Len(queue) /\ (Apart => Apart')
    BY <1>1, <1>5, <2>1, SendApart, Zenon DEF ProcessInv
  <2>3. ProcessTypes'
    BY <1>1, <1>2, <2>2, Zenon DEF ProcessInv, ProcessTypes
  <2> QED BY <1>1, <1>3, <2>2, <2>3, SMTT(30) DEF ProcessInv, OwnMessages
<1> QED BY <1>4, <1>5, Zenon DEF ListenerSends, ipc_send_message

\* A step of a client that lets go of its queue, after which the kernel keeps
\* what is still open or named.
LEMMA LetGo ==
    ASSUME ProcessInv, NEW c \in Clients, NEW names, NEW opened,
           mq' = [mq EXCEPT ![c] = 0], queue' = Kept(queue, names, opened),
           name' = name \/ name' = 0, mixed' \in BOOLEAN, mixed => mixed',
           UNCHANGED <<showing, dashboard, foreign>>,
           main' = [main EXCEPT ![c] = main'[c]], main'[c] \in {"fclose", "exited", "killed"},
           datagram' \in [Clients -> Categories \cup {Quiet}],
           mixed' \/ name' = 0 \/ mq[c] = 0
    PROVE  ProcessInv'
<1>1. /\ queue \in Seq(Seq(Messages)) /\ mq \in [Clients -> 0..Len(queue)]
      /\ main \in [Clients -> MainLabels]
  BY DEF ProcessInv, ProcessTypes
<1>2. /\ queue' \in Seq(Seq(Messages)) /\ Len(queue') = Len(queue)
      /\ \A g \in DOMAIN queue : \A d : From(queue[g], d) => From(queue'[g], d)
  BY <1>1, KeptEffect, Zenon
<1>3. mq'[c] = 0 /\ \A d \in Clients \ {c} : mq'[d] = mq[d]
  BY <1>1, Zenon
<1>4. main'[c] \in {"fclose", "exited", "killed"} /\ \A d \in Clients \ {c} : main'[d] = main[d]
  BY <1>1, Zenon
<1>5. HoldInv'
  BY <1>3, <1>4, Zenon DEF ProcessInv, HoldInv
<1>6. ProcessTypes'
  <2>1. mq' \in [Clients -> 0..Len(queue')]
    <3>1. 0 \in 0..Len(queue)
      BY <1>1
    <3> QED BY <1>1, <1>2, <3>1, Zenon
  <2>2. main' \in [Clients -> MainLabels]
    BY <1>1, Zenon DEF MainLabels
  <2>3. name' \in 0..Len(queue')
    <3>1. name \in 0..Len(queue) /\ 0 \in 0..Len(queue)
      BY <1>1 DEF ProcessInv, ProcessTypes
    <3> QED BY <1>2, <3>1, Zenon
  <2>4. showing' \in [Clients -> 0..Len(queue')]
    BY <1>2, Zenon DEF ProcessInv, ProcessTypes
  <2> QED BY <1>2, <2>1, <2>2, <2>3, <2>4, Zenon DEF ProcessInv, ProcessTypes
<1>7. ASSUME ~mixed' PROVE Apart'
  <2>1. Apart
    BY <1>7, Zenon DEF ProcessInv
  <2>2. NamedOpen'
    BY <1>7, <1>3, <2>1 DEF Apart, NamedOpen
  <2> QED BY <2>1, <2>2, <1>2, <1>3, ApartKept, Zenon DEF ProcessInv
<1> QED BY <1>5, <1>6, <1>7, Zenon DEF ProcessInv, OwnMessages

\* The ends of a client: mq_unlink, its return, and the ways to be killed.
LEMMA EndApart ==
    ASSUME ProcessInv, NEW c \in Clients,
           Unlink(c) \/ Return(c) \/ Kill(c) \/ WriteToFreed(c)
    PROVE  ProcessInv'
<1> USE DEF MainTo, threadVars, dashboardVars, observerVars
<1>1. main \in [Clients -> MainLabels] /\ datagram \in [Clients -> Categories \cup {Quiet}] /\ mixed \in BOOLEAN
  BY Zenon DEF ProcessInv, ProcessTypes
<1>2. CASE Unlink(c)
  <2>1. /\ mq' = [mq EXCEPT ![c] = 0] /\ name' = 0 /\ main' = [main EXCEPT ![c] = "fclose"]
        /\ queue' = Kept(queue, {}, Open(mq') \cup Open(showing))
        /\ UNCHANGED <<showing, dashboard, foreign, mixed, datagram>>
    BY <1>2, Zenon DEF Unlink
  <2>2. main'[c] = "fclose"
    BY <2>1, <1>1
  <2> QED BY <2>1, <2>2, <1>1, LetGo, Zenon
<1>3. CASE Return(c) \/ WriteToFreed(c) \/ Kill(c)
  <2>1. /\ mq' = [mq EXCEPT ![c] = 0] /\ name' = name
        /\ queue' = Kept(queue, {name}, Open(mq') \cup Open(showing))
        /\ datagram' = [datagram EXCEPT ![c] = Quiet]
        /\ UNCHANGED <<showing, dashboard, foreign>>
    BY <1>3, Zenon DEF Return, WriteToFreed, Kill, Gone
  <2>2. \E pc1 \in {"exited", "killed"} : main' = [main EXCEPT ![c] = pc1]
    BY <1>3, Zenon DEF Return, WriteToFreed, Kill
  <2>3. main' = [main EXCEPT ![c] = main'[c]] /\ main'[c] \in {"exited", "killed"}
    BY <2>2, <1>1, Zenon
  <2>4. mixed' \in BOOLEAN /\ (mixed => mixed') /\ (mixed' \/ mq[c] = 0)
    <3>1. CASE Kill(c)
      BY <3>1, <1>1, Zenon DEF Kill
    <3>2. CASE Return(c) \/ WriteToFreed(c)
      <4>1. main[c] = "return" /\ mixed' = mixed
        BY <3>2, Zenon DEF Return, WriteToFreed, LogFreed
      <4> QED BY <4>1, <1>1, Zenon DEF ProcessInv, HoldInv
    <3> QED BY <3>1, <3>2, <1>3, Zenon
  <2>5. datagram' \in [Clients -> Categories \cup {Quiet}]
    BY <2>1, <1>1, ZenonT(60)
  <2> QED BY <2>1, <2>3, <2>4, <2>5, LetGo, ZenonT(60)
<1> QED BY <1>2, <1>3, Zenon

\* A dashboard that finds its client's queue reads it alone; any other mixes.
LEMMA OpensApart ==
    ASSUME ProcessInv, NEW c \in Clients, DashboardOpens(c)
    PROVE  ProcessInv'
<1>1. /\ OpenQueue /\ showing' = [showing EXCEPT ![c] = name']
      /\ mixed' = (mixed \/ mq[c] # name')
      /\ dashboard' = [dashboard EXCEPT ![c] = "open"]
      /\ UNCHANGED <<main, mq, foreign, datagram>>
  BY Zenon DEF DashboardOpens, threadVars
<1>2. /\ queue \in Seq(Seq(Messages)) /\ Len(queue) \in Nat
      /\ name \in 0..Len(queue) /\ mq \in [Clients -> 0..Len(queue)]
      /\ showing \in [Clients -> 0..Len(queue)] /\ mixed \in BOOLEAN
      /\ dashboard \in [Clients -> {"none", "starting", "open", "ended"}]
  BY DEF ProcessInv, ProcessTypes
<1>3. /\ queue' \in Seq(Seq(Messages)) /\ Len(queue') >= Len(queue)
      /\ name' \in 1..Len(queue')
      /\ name = 0 => name' = Len(queue) + 1
      /\ name # 0 => name' = name /\ queue' = queue
  <2>1. CASE name = 0
    <3>1. queue' = Append(queue, <<>>) /\ name' = Len(queue) + 1
      BY <1>1, <2>1, Zenon DEF OpenQueue
    <3> QED BY <3>1, <1>2, <2>1, SMTT(30)
  <2>2. CASE name # 0
    <3>1. queue' = queue /\ name' = name
      BY <1>1, <2>2, Zenon DEF OpenQueue
    <3> QED BY <3>1, <1>2, <2>2
  <2> QED BY <2>1, <2>2, Zenon
<1>4. showing'[c] = name' /\ \A d \in Clients \ {c} : showing'[d] = showing[d]
  BY <1>1, <1>2, Zenon
<1>5. ProcessTypes'
  <2>1. \A d \in Clients : mq[d] \in 0..Len(queue') /\ showing'[d] \in 0..Len(queue')
    <3> SUFFICES ASSUME NEW d \in Clients
                 PROVE  mq[d] \in 0..Len(queue') /\ showing'[d] \in 0..Len(queue')
      OBVIOUS
    <3>1. Len(queue') \in Nat /\ mq[d] \in 0..Len(queue) /\ showing[d] \in 0..Len(queue)
      BY <1>2, <1>3, SMTT(30)
    <3>2. showing'[d] = name' \/ showing'[d] = showing[d]
      BY <1>4, Zenon
    <3> QED BY ONLY <3>1, <3>2, <1>2, <1>3, SMTT(30)
  <2>2. mq' \in [Clients -> 0..Len(queue')] /\ showing' \in [Clients -> 0..Len(queue')]
    BY <2>1, <1>1, <1>2, Zenon
  <2>3. dashboard' \in [Clients -> {"none", "starting", "open", "ended"}]
    BY <1>1, <1>2, ZenonT(60)
  <2> QED BY <1>1, <1>2, <1>3, <2>2, <2>3, ZenonT(60) DEF ProcessInv, ProcessTypes
<1>6. HoldInv'
  <2>1. \A d \in Clients \ {c} : dashboard'[d] = dashboard[d]
    BY <1>1, <1>2, Zenon
  <2> QED BY <1>1, <1>3, <1>4, <2>1, SMTT(30) DEF ProcessInv, HoldInv
<1>7. ASSUME ~mixed' PROVE Apart'
  <2>1. Apart /\ mq[c] = name'
    BY <1>7, <1>1, Zenon DEF ProcessInv
  <2>2. name # 0 /\ name' = name /\ queue' = queue /\ mq[c] # 0
    BY <2>1, <1>2, <1>3, SMTT(30)
  <2>3. OneOpen' /\ NamedOpen' /\ OwnQueue'
    BY <2>1, <2>2, <1>1, Zenon DEF Apart, OneOpen, NamedOpen, OwnQueue
  <2>4. OwnShown'
    <3> SUFFICES ASSUME NEW d \in Clients, showing'[d] # 0
                 PROVE  /\ From(queue[showing'[d]], d)
                        /\ \A e \in Clients : mq[e] = showing'[d] => e = d
      BY <2>2, <1>1, Zenon DEF OwnShown
    <3>1. CASE d = c
      <4>1. showing'[d] = mq[c]
        BY <3>1, <1>4, <2>1, Zenon
      <4> QED BY <4>1, <3>1, <2>1, <2>2, Zenon DEF Apart, OneOpen, OwnQueue
    <3>2. CASE d # c
      BY <3>2, <1>4, <2>1, Zenon DEF Apart, OwnShown
    <3> QED BY <3>1, <3>2, Zenon
  <2> QED BY <2>3, <2>4, Zenon DEF Apart
<1> QED BY <1>1, <1>5, <1>6, <1>7, SMTT(30) DEF ProcessInv, OwnMessages, ProcessTypes

\* A dashboard takes the first message of the queue it reads: its client's.
LEMMA ShowsOwn ==
    ASSUME ProcessInv, NEW c \in Clients, DashboardShows(c)
    PROVE  ProcessInv'
<1> DEFINE g == showing[c]
           m == Head(queue[g])
           q == [queue EXCEPT ![g] = Tail(queue[g])]
<1>1. /\ dashboard[c] = "open" /\ queue[g] # <<>>
      /\ foreign' = (foreign \/ (~mixed /\ m.from # c))
      /\ IF m.category = "exit"
         THEN /\ dashboard' = [dashboard EXCEPT ![c] = "ended"]
              /\ showing' = [showing EXCEPT ![c] = 0]
         ELSE UNCHANGED <<dashboard, showing>>
      /\ queue' = Kept(q, {name}, Open(mq) \cup Open(showing'))
      /\ UNCHANGED <<main, datagram, mq, name, mixed>>
  BY Zenon DEF DashboardShows, threadVars, dashboardVars
<1>2. /\ queue \in Seq(Seq(Messages)) /\ showing \in [Clients -> 0..Len(queue)]
      /\ dashboard \in [Clients -> {"none", "starting", "open", "ended"}]
  BY DEF ProcessInv, ProcessTypes
<1>3. g # 0 /\ g \in DOMAIN queue /\ queue[g] \in Seq(Messages)
  <2>1. g # 0 /\ g \in 0..Len(queue)
    BY <1>1, <1>2, Zenon DEF ProcessInv, HoldInv
  <2> HIDE DEF g
  <2>2. g \in DOMAIN queue
    BY <1>2, <2>1
  <2> QED BY <1>2, <2>1, <2>2
<1>4. q \in Seq(Seq(Messages)) /\ Len(q) = Len(queue)
  <2>1. Tail(queue[g]) \in Seq(Messages)
    BY <1>1, <1>3
  <2> HIDE DEF g
  <2> QED BY <2>1, <1>2, <1>3, SMTT(30)
<1>5. \A h \in DOMAIN queue : \A d : From(queue[h], d) => From(q[h], d)
  <2> SUFFICES ASSUME NEW h \in DOMAIN queue, NEW d, From(queue[h], d)
               PROVE  From(q[h], d)
    OBVIOUS
  <2> HIDE DEF g
  <2>1. CASE h = g
    <3>1. q[h] = Tail(queue[g])
      BY <2>1, <1>2, <1>3, ZenonT(60)
    <3>2. \A i \in DOMAIN Tail(queue[g]) : Tail(queue[g])[i] = queue[g][i + 1] /\ i + 1 \in DOMAIN queue[g]
      BY <1>1, <1>3
    <3> QED BY <2>1, <3>1, <3>2, ZenonT(60) DEF From
  <2>2. CASE h # g
    BY <2>2, <1>2, ZenonT(60)
  <2> QED BY <2>1, <2>2, Zenon
<1> HIDE DEF q
<1>6. /\ queue' \in Seq(Seq(Messages)) /\ Len(queue') = Len(queue)
      /\ \A h \in DOMAIN queue : \A d : From(queue[h], d) => From(queue'[h], d)
  <2>1. /\ queue' \in Seq(Seq(Messages)) /\ Len(queue') = Len(q)
        /\ \A h \in DOMAIN q : \A d : From(q[h], d) => From(queue'[h], d)
    BY <1>1, <1>4, KeptEffect, Zenon
  <2>2. DOMAIN q = DOMAIN queue
    BY <1>2, <1>4, SMTT(30)
  <2> QED BY <2>1, <2>2, <1>4, <1>5, SMTT(30)
<1>7. /\ dashboard' \in [Clients -> {"none", "starting", "open", "ended"}]
      /\ showing' \in [Clients -> 0..Len(queue)]
      /\ \A d \in Clients : showing'[d] = showing[d] \/ showing'[d] = 0
      /\ \A d \in Clients : dashboard'[d] = "open" => dashboard[d] = "open" /\ showing'[d] = showing[d]
  <2>1. CASE m.category = "exit"
    <3>1. /\ dashboard' = [dashboard EXCEPT ![c] = "ended"]
          /\ showing' = [showing EXCEPT ![c] = 0]
      BY <2>1, <1>1, Zenon
    <3> HIDE DEF g, m
    <3>2. 0 \in 0..Len(queue)
      BY <1>2
    <3> QED BY <3>1, <3>2, <1>2, Zenon
  <2>2. CASE m.category # "exit"
    <3>1. UNCHANGED <<dashboard, showing>>
      BY <2>2, <1>1
    <3> HIDE DEF g, m
    <3> QED BY <3>1, <1>2, ZenonT(60)
  <2> QED BY <2>1, <2>2, Zenon
<1>8. HoldInv'
  BY <1>1, <1>7, Zenon DEF ProcessInv, HoldInv
<1>9. ~mixed => m.from = c
  <2>1. 1 \in DOMAIN queue[g] /\ m = queue[g][1]
    BY <1>1, <1>3
  <2>2. ~mixed => From(queue[g], c)
    BY <1>3, Zenon DEF ProcessInv, Apart, OwnShown
  <2> QED BY <2>1, <2>2, ZenonT(60) DEF From
<1>10. ~foreign'
  BY <1>1, <1>9, Zenon DEF ProcessInv, OwnMessages
<1>11. ProcessTypes'
  BY <1>1, <1>6, <1>7, <1>10, Zenon DEF ProcessInv, ProcessTypes
<1>12. Apart => Apart'
  <2> SUFFICES ASSUME Apart PROVE Apart'
    OBVIOUS
  <2>1. NamedOpen'
    BY <1>1, Zenon DEF Apart, NamedOpen
  <2> QED BY <2>1, <1>1, <1>6, <1>7, ApartKept, ZenonT(60) DEF ProcessInv
<1> QED BY <1>1, <1>8, <1>10, <1>11, <1>12, Zenon DEF ProcessInv, OwnMessages

\* Clients that run one after the other on a host do not meet in the queue: for
\* any number of clients and queues, a dashboard shows the messages of its own
\* client only, until two clients have the queue open at a time, one dies before
\* its cleanup or a dashboard comes too late (ipc_init, client_cleanup).
THEOREM Unmixed == ClientSpec => []OwnMessages
<1>1. ClientInit => ProcessInv
  <2> SUFFICES ASSUME ClientInit PROVE ProcessInv
    OBVIOUS
  <2>1. ProcessTypes
    <3>1. queue \in Seq(Seq(Messages)) /\ Len(queue) = 0
      BY DEF ClientInit
    <3>2. 0 \in 0..Len(queue)
      BY <3>1
    <3>3. mq \in [Clients -> 0..Len(queue)] /\ showing \in [Clients -> 0..Len(queue)] /\ name \in 0..Len(queue)
      BY <3>2, Zenon DEF ClientInit
    <3>4. /\ main \in [Clients -> MainLabels]
          /\ datagram \in [Clients -> Categories \cup {Quiet}]
          /\ dashboard \in [Clients -> {"none", "starting", "open", "ended"}]
      BY Zenon DEF ClientInit, MainLabels
    <3> QED BY <3>1, <3>3, <3>4, Zenon DEF ClientInit, ProcessTypes
  <2>2. HoldInv /\ Apart /\ OwnMessages
    BY DEF ClientInit, HoldInv, Apart, OneOpen, NamedOpen, OwnQueue, OwnShown, OwnMessages
  <2> QED BY <2>1, <2>2, Zenon DEF ProcessInv
<1>2. ProcessInv /\ [ClientNext]_processVars => ProcessInv'
  <2> SUFFICES ASSUME ProcessInv, [ClientNext]_processVars
               PROVE  ProcessInv'
    OBVIOUS
  <2>1. CASE ClientNext
    <3> SUFFICES ASSUME NEW c \in Clients,
                        \/ Setup(c) \/ ipc_init(c) \/ Login(c) \/ EndSession(c)
                        \/ MainStep(c) \/ ipc_exit_fails(c) \/ Kill(c) \/ WriteToFreed(c)
                        \/ ListenerStep(c) \/ ListenerReceives(c) \/ KeepaliveEnds(c)
                        \/ DashboardOpens(c) \/ DashboardShows(c)
                 PROVE  ProcessInv'
      BY <2>1, Zenon DEF ClientNext
    <3> QED BY MainAlone, ThreadsAlone, InitApart, ExitApart, ListenerApart, EndApart,
               OpensApart, ShowsOwn, ZenonT(60) DEF MainStep, ListenerStep
  <2>2. CASE UNCHANGED processVars
    <3>1. UNCHANGED <<queue, mq, name, showing, mixed, foreign, main, datagram, dashboard>>
      BY <2>2, ZenonT(60) DEF processVars, threadVars, dashboardVars, queueVars, observerVars
    <3>2. HoldInv'
      BY <3>1 DEF ProcessInv, HoldInv
    <3> QED BY <3>1, <3>2, QueuesAlone, Zenon DEF ProcessInv, ProcessTypes
  <2> QED BY <2>1, <2>2
<1>3. ProcessInv => OwnMessages
  BY DEF ProcessInv
<1> QED BY <1>1, <1>2, <1>3, PTL DEF ClientSpec

==============================================================================
