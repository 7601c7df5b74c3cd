--------------------------- MODULE MCIfaceLifecycle ---------------------------
(* Instances of IfaceLifecycle for TLC: a router with the status and the    *)
(* analytics manager enabled, and two pids more than it has dispatchers.    *)
EXTENDS IfaceLifecycle

MCManagers == <<"status", "analytics">>
MCPids     == 1..6
=============================================================================
