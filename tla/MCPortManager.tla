---------------------------- MODULE MCPortManager ----------------------------
(* TLC instances of PortManager: a manager of six ports.                   *)
EXTENDS PortManager
==============================================================================
