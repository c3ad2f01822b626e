---------------------------- MODULE MetadataClient ----------------------------
(***************************************************************************)
(* MetadataServiceClient (server/metadata.cc): how the answer of the       *)
(* remote metadata service becomes the result of a call.  Every call posts *)
(* a statement and blocks on a chain of continuations; what distinguishes  *)
(* the calls is the last continuation of the chain.  The text of a         *)
(* statement and of a message is abstracted to the facts the code tests.   *)
(***************************************************************************)

(* How one HTTP exchange ends:
     "match"      200 and a JSON message with the text the call looks for
     "other"      200 and a JSON message without it
     "not_json"   200 and a body that is no JSON message
     "bad_status" any other status code
     "no_reply"   connection failure or timeout (http_exception)           *)
Replies == {"match", "other", "not_json", "bad_status", "no_reply"}

(* How a chain ends: with a value or with an exception of some class. *)
Results == {"true", "false", "runtime_error", "json_exception", "http_exception"}

(* consume_status only logs: sink_task accepts every answer it gets. *)
sink_task(reply) == IF reply = "no_reply" THEN "http_exception" ELSE "true"

(* json_task turns a bad status into a runtime_error and parses the body. *)
json_task(reply) ==
    CASE reply = "no_reply"   -> "http_exception"
      [] reply = "bad_status" -> "runtime_error"
      [] reply = "not_json"   -> "json_exception"
      [] OTHER                -> "true"

(* mutant: the status code is not looked at *)
identity_unchecked(reply) == sink_task(reply)

(* json_task followed by extract_safe_identity: without a quoted key in the
   message there is a runtime_error. *)
identity_task(reply) == IF reply = "other" THEN "runtime_error" ELSE json_task(reply)

(* json_task followed by a search of the message; a runtime_error is caught
   and becomes a plain "no", the other exceptions pass through. *)
check_task(reply) ==
    IF json_task(reply) = "runtime_error" \/ reply = "other" THEN "false"
                                                             ELSE json_task(reply)

(* guard_call looks for "Exception": here "match" is the denial. *)
guard_task(reply) ==
    CASE reply = "match" -> "false"
      [] reply = "other" -> "true"
      [] OTHER           -> check_task(reply)

(* attest returns the message itself, or "" after a runtime_error: a value
   either way. *)
attest_task(reply) ==
    IF json_task(reply) = "runtime_error" THEN "true" ELSE json_task(reply)

-------------------------------------------------------------------------------
(* The commands whose handler makes one call and changes no daemon state, by
   the chain of the call they make. *)
SinkCommands  == {"POST_ACL", "ENDORSE_MEMBERSHIP", "ENDORSE_ATTESTER_IMAGE",
                  "ENDORSE_BUILDER_IMAGE", "ENDORSE_SOURCE_IMAGE"}
JsonCommands  == {"ENDORSE", "LINK_IMAGE", "FREE_CALL"}
CheckCommands == {"CHECK_PROPERTY", "CHECK_ACCESS", "CHECK_WORKER_ACCESS",
                  "CHECK_IMAGE_PROPERTY"}
CallCommands  == SinkCommands \cup JsonCommands \cup CheckCommands
                   \cup {"GUARD_CALL", "CHECK_ATTESTATION"}

call(cmd, reply) ==
    CASE cmd \in SinkCommands  -> sink_task(reply)
      [] cmd \in JsonCommands  -> json_task(reply)
      [] cmd \in CheckCommands -> check_task(reply)
      [] cmd = "GUARD_CALL"    -> guard_task(reply)
      [] OTHER                 -> attest_task(reply)

(* mutant: an unsuccessful answer of the service is not told to the client *)
status_of_lenient(result) ==
    IF result \in {"false", "http_exception"} THEN "false" ELSE "true"

(* The status of the Response that dispatch builds: every exception it catches
   becomes status(false). *)
status_of(result) == IF result = "true" THEN "true" ELSE "false"

(* What a call may do to the service's own state, external to the daemon:
   without a 200 it was not applied, unless the answer was lost.  That a 200 means it
   was applied is an assumption on the service: the daemon has no other sign of it. *)
MayApply(reply)   == reply # "bad_status"
MayIgnore(reply)  == reply \in {"bad_status", "no_reply"}
===============================================================================
