---------------------------- MODULE MCReporting -----------------------------
(* Two threads log into a file of one line and count messages of one kind. *)
EXTENDS Reporting

CONSTANTS t1, t2

MCCounters == {<<"message", "tcp">>}
=============================================================================
