--------------------------- MODULE PortAllocation ---------------------------
(***************************************************************************)
(* What a port manager promises its callers, without any of its data       *)
(* structures: every range [l, r) it hands out lies inside [Low, High) and *)
(* shares no port with a range that another caller still holds; a range    *)
(* goes away only when its holder gives it back.  PortManager implements   *)
(* this specification.                                                     *)
(***************************************************************************)
EXTENDS Integers

CONSTANTS Low,   \* the first managed port
          High   \* one past the last managed port

VARIABLE held    \* the ranges <<l, r>> handed out and not yet given back

Init == held = {}

Grant(l, r) ==
    /\ Low <= l /\ l < r /\ r <= High
    /\ \A s \in held : r <= s[1] \/ s[2] <= l
    /\ held' = held \cup {<<l, r>>}

Release(s) ==
    /\ s \in held
    /\ held' = held \ {s}

Next ==
    \/ \E l, r \in Low .. High : Grant(l, r)
    \/ \E s \in held : Release(s)

Spec == Init /\ [][Next]_held
=============================================================================
