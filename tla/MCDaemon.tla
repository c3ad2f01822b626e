------------------------------- MODULE MCDaemon -------------------------------
(* TLC instances of Daemon. *)
EXTENDS Daemon

(* A client with two calls, and another one in its way. *)
TwoAndOne == [c \in Clients |-> IF c = "c1" THEN 2 ELSE 1]
One == [c \in Clients |-> 1]
===============================================================================
