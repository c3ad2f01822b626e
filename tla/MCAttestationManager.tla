------------------------- MODULE MCAttestationManager -------------------------
(* TLC instances of AttestationManager. *)
EXTENDS AttestationManager, TLC

(* One connection per process, except that s3 is a second one of s1's. *)
MCPidOf == [s \in Sessions |-> IF s = "s3" THEN "s1" ELSE s]

(* Every command that works on principals_, and one of every other kind: not
   implemented, without a handler, answered from memory, and one call to the
   metadata service with and without a check of the statement. *)
MCCommands == {"DELETE_PRINCIPAL", "GET_LOCAL_PRINCIPAL", "REVOKE",
               "ENDORSE_IMAGE_PROPERTY", "GET_METADATA_CONFIG", "GUARD_CALL", "ENDORSE"}
===============================================================================
