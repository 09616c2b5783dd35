------------------------------- MODULE MCStartup -------------------------------
(* TLC instances of Startup. *)
EXTENDS Startup

=============================================================================
