-------------------------- MODULE MCClientProcess --------------------------
(* Two clients on one host.                                                *)
EXTENDS ClientProcess

=============================================================================
