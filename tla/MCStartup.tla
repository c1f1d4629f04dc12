----------------------------- MODULE MCStartup ------------------------------
(* Two servers on one host, launched in every way that gives the ports 80  *)
(* and 90 differently, or is refused for a reason of its own.              *)
EXTENDS Startup

CONSTANTS s1, s2

\* The configuration file alone.
File == [argc |-> 1, exists |-> TRUE, tcp |-> Unset, udp |-> Unset, env |-> Unset,
         port |-> "80", sound |-> TRUE]

MCInputs ==
    { File,
      [File EXCEPT !.env = "90"],
      [File EXCEPT !.argc = 3, !.tcp = "90", !.env = "80"],
      [File EXCEPT !.argc = 3, !.tcp = "80x"],
      [File EXCEPT !.argc = 4, !.tcp = "90", !.udp = "80"],
      [File EXCEPT !.argc = 2, !.exists = FALSE],
      [File EXCEPT !.argc = 3, !.tcp = "65536"],
      [File EXCEPT !.argc = 4, !.tcp = "90", !.udp = "word"],
      [File EXCEPT !.argc = 5, !.tcp = "90", !.udp = "80"],
      [File EXCEPT !.argc = 2, !.env = "0"],
      [File EXCEPT !.port = "65536"],
      [File EXCEPT !.port = "80x"],
      [File EXCEPT !.sound = FALSE] }
=============================================================================
