-------------------------- MODULE PrincipalRegistry --------------------------
(***************************************************************************)
(* What the attestation manager promises about the names of principals,    *)
(* without handlers, locks and the metadata service: a name <<id, gn>> is  *)
(* registered in one step, under a generation newer than every one its id  *)
(* ever had, and all names of an id leave in one step.  AttestationManager *)
(* implements this specification as long as one session creates.           *)
(***************************************************************************)
EXTENDS Naturals

CONSTANT Ids

VARIABLES current,  \* the names that are registered
          used      \* the names that ever were

vars == <<current, used>>

Init == current = {} /\ used = {}

Register(name) ==
    /\ \A n \in used : n[1] = name[1] => n[2] < name[2]
    /\ current' = current \cup {name}
    /\ used' = used \cup {name}

Unregister(id) ==
    /\ current' = {n \in current : n[1] # id}
    /\ UNCHANGED used

Next ==
    \/ \E name \in current' : Register(name)
    \/ \E id \in Ids : Unregister(id)

Spec == Init /\ [][Next]_vars
==============================================================================
