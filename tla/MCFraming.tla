------------------------------ MODULE MCFraming ------------------------------
(* TLC instances of Framing. *)
EXTENDS Framing
==============================================================================
