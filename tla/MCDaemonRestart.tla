--------------------------- MODULE MCDaemonRestart ---------------------------
(* TLC instances of DaemonRestart. *)
EXTENDS DaemonRestart

(* One connection per process. *)
MCPidOf == [s \in Sessions |-> s]
==============================================================================
