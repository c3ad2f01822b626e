---------------------------- MODULE MessageChannel ----------------------------
(***************************************************************************)
(* What one direction of a connection promises, without bytes: messages    *)
(* are delivered whole, once and in the order in which they were sent, as  *)
(* long as neither end has given up in the middle of one.  Framing         *)
(* implements this specification.                                          *)
(***************************************************************************)
EXTENDS Naturals, Sequences

VARIABLES sent,       \* the number of messages handed to the sending end
          delivered,  \* the numbers of the messages the receiving end has parsed
          broken      \* an end has given up: nothing is promised any more

vars == <<sent, delivered, broken>>

Init == sent = 0 /\ delivered = <<>> /\ broken = FALSE

Send ==
    /\ sent' = sent + 1
    /\ UNCHANGED <<delivered, broken>>

Deliver ==
    /\ Len(delivered) < sent
    /\ delivered' = Append(delivered, Len(delivered) + 1)
    /\ UNCHANGED <<sent, broken>>

GiveUp ==
    /\ broken' = TRUE
    /\ UNCHANGED <<sent, delivered>>

OutOfStep ==
    /\ broken
    /\ UNCHANGED <<sent, broken>>

Next == Send \/ Deliver \/ GiveUp \/ OutOfStep

Spec == Init /\ [][Next]_vars
===============================================================================
