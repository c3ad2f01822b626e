--------------------------- MODULE MCClientLibrary ---------------------------
(* TLC instances of ClientLibrary. *)
EXTENDS ClientLibrary

(* One entry point, or two, of every class that the module tells apart: by what
   it returns, by its checks, and by how the daemon answers its command. *)
MCEntries == {"create_principal", "create_instance", "delete_principal", "revoke",
              "check_access", "check_attestation", "endorse_attester"}
==============================================================================
