--------------------------- MODULE MCServiceAlerts ---------------------------
(* TLC instance of ServiceAlerts. *)
EXTENDS ServiceAlerts

=============================================================================
