------------------------------- MODULE Config -------------------------------
(***************************************************************************)
(* Command line, environment and configuration file: the ports a server    *)
(* listens on (configValidator.cpp, config.cpp) and the ports a client     *)
(* connects to (parse_arguments in input_handler.c).                       *)
(*                                                                         *)
(* A port is a text.  A launch of the server is a record: argc, whether    *)
(* the configuration file exists, the third and fourth arguments, the      *)
(* variable SERVER_PORT, the port of the file, and whether everything else *)
(* in the file is there and positive or not empty.                         *)
(***************************************************************************)
EXTENDS Naturals

Unset == "unset"
Texts == {"80", "90", "80x", "0", "65536", "word", Unset}
MAX_PORT == 65535

Launches == [argc : 1..5, exists : BOOLEAN, tcp : Texts, udp : Texts, env : Texts,
             port : Texts, sound : BOOLEAN]

\* stoi and atoi read the digits a text starts with.  Where there are none stoi
\* throws and atoi gives 0, and every caller refuses both.
Number(text) ==
    CASE text \in {"80", "80x"} -> 80
      [] text = "90" -> 90
      [] text = "65536" -> 65536
      [] OTHER -> 0

InRange(text) == Number(text) \in 1..MAX_PORT

\* getaddrinfo, and yaml-cpp's as<int> followed by the test of the range, take
\* the whole text for the number of a port; 0 where it is none.
Service(text) == IF text \in {"80", "90"} THEN Number(text) ELSE 0

Ports(tcp, udp) == [tcp |-> tcp, udp |-> udp]
NoPorts == Ports(0, 0)

-----------------------------------------------------------------------------
(* The server.                                                             *)

\* A mutant: the ports are not looked at.
ArgumentsCounted(l) == l.argc <= 4 /\ l.exists

validateArguments(l) ==
    /\ l.argc <= 4
    /\ l.exists
    /\ l.argc >= 3 => InRange(l.tcp)
    /\ l.argc = 4 => InRange(l.udp)

\* A mutant: the variable is looked at whatever the arguments are.
EnvironmentFirst(l) ==
    LET both == IF l.env # Unset THEN l.env ELSE IF l.argc >= 3 THEN l.tcp ELSE l.port IN
    IF Service(l.port) # 0 /\ InRange(both)
    THEN Ports(Number(both), Number(IF l.argc = 4 /\ l.env = Unset THEN l.udp ELSE both))
    ELSE NoPorts

\* The ports, or NoPorts where it throws.  The file has to have a valid port
\* even when it is not used.
validatePort(l) ==
    IF Service(l.port) = 0 THEN NoPorts
    ELSE CASE l.argc = 4 -> Ports(Number(l.tcp), Number(l.udp))
           [] l.argc = 3 -> Ports(Number(l.tcp), Number(l.tcp))
           [] l.argc < 3 /\ l.env # Unset ->
                IF InRange(l.env) THEN Ports(Number(l.env), Number(l.env)) ELSE NoPorts
           [] OTHER -> Ports(Number(l.port), Number(l.port))

\* serverConfig, databaseConfig, securityConfig and logConfig throw at the first
\* key that is missing or out of range.
Configured(l) == IF l.sound THEN validatePort(l) ELSE NoPorts

-----------------------------------------------------------------------------
(* The client.  Its port is the text it was given.                         *)

DEFAULT_PORT == "8888"
Refused == Ports(Unset, Unset)

config_arguments_ports(argc, tcp, udp) ==
    CASE argc = 3 /\ InRange(tcp) -> Ports(tcp, tcp)
      [] argc = 4 /\ InRange(tcp) /\ InRange(udp) -> Ports(tcp, udp)
      [] OTHER -> Refused

parse_arguments(argc, tcp, udp, env) ==
    CASE argc \in {3, 4} -> config_arguments_ports(argc, tcp, udp)
      [] argc = 2 /\ env = Unset -> Ports(DEFAULT_PORT, DEFAULT_PORT)
      [] argc = 2 /\ InRange(env) -> Ports(env, env)
      [] OTHER -> Refused
=============================================================================
