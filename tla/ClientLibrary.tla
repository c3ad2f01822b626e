---------------------------- MODULE ClientLibrary ----------------------------
(***************************************************************************)
(* liblatte (client/client.cc): the entry points that an application       *)
(* calls, the command each of them sends over the one connection of the    *)
(* process, and the integer or pointer it makes of the response.  The      *)
(* threads of the application share the connection without a lock (the     *)
(* daemon of libport-java/.../PortManager.java has two: one sets up        *)
(* principals, one answers access requests).  A response has two parts,    *)
(* the header with the size and the body, which are read one after the     *)
(* other; no part names the command it belongs to.                         *)
(*                                                                         *)
(* The other end is the daemon as Daemon and AttestationManager have it:   *)
(* commands of a connection are answered one by one in their order.  The   *)
(* connection can be lost, and a send or a receive can be cut short (see   *)
(* Framing); post() then makes up status(false) and keeps the socket.      *)
(***************************************************************************)
EXTENDS Integers, Sequences, MetadataClient

CONSTANTS Threads,    \* the threads of the application
          InUse,      \* the entry points they call
          MaxCalls    \* bound on the commands sent

(* The entry points, without their prefix liblatte_, by what they return: *)
StatusEntries ==   \* the status of the response, after both checks
    {"create_image", "post_object_acl", "attest_principal_property",
     "attest_principal_access", "endorse_principal", "endorse_image", "endorse_source",
     "endorse_membership", "endorse_attester", "endorse_builder",
     "endorse_image_source", "check_property", "check_access", "check_worker_access"}
PointerEntries ==  \* a copy of the message in the response, or nullptr
    {"get_principal", "get_local_principal", "get_metadata_config", "check_attestation"}
CreateEntries == {"create_principal", "create_principal_new"}
RawEntries ==      \* the status, without CHECK_LIB_INIT
    {"create_principal_with_allocated_ports", "create_instance", "delete_principal",
     "delete_principal_without_allocated_ports", "delete_instance",
     "check_image_property", "endorse", "link_image", "free_call", "guard_call"}
Unimplemented == {"revoke_principal", "revoke"}
Entries == StatusEntries \cup PointerEntries \cup CreateEntries \cup RawEntries
             \cup Unimplemented \cup {"get_metadata_config_easy"}

ASSUME InUseAssumption == InUse \subseteq Entries
ASSUME MaxCallsAssumption == MaxCalls \in Nat

EINVAL == 22
NULL == 0      \* a pointer to a message is 1, no pointer is 0
EMPTY == 2     \* a pointer to a message without content

(* The command that the entry point sends. *)
command_of(e) ==
    CASE e \in CreateEntries \cup {"create_principal_with_allocated_ports",
                                   "create_instance"}         -> "CREATE_PRINCIPAL"
      [] e \in {"delete_principal", "delete_instance",
                "delete_principal_without_allocated_ports"}   -> "DELETE_PRINCIPAL"
      [] e \in {"create_image", "endorse_image_source"}       -> "ENDORSE_SOURCE_IMAGE"
      [] e \in {"endorse", "endorse_image", "endorse_source"} -> "ENDORSE"
      [] e \in {"endorse_attester", "endorse_builder"}        -> "ENDORSE_ATTESTER_IMAGE"
      [] e \in {"get_principal", "get_local_principal"}       -> "GET_PRINCIPAL"
      [] e \in {"get_metadata_config",
                "get_metadata_config_easy"}                   -> "GET_METADATA_CONFIG"
      [] e \in {"check_property", "attest_principal_property"} -> "CHECK_PROPERTY"
      [] e \in {"check_access", "attest_principal_access"}    -> "CHECK_ACCESS"
      [] e = "check_worker_access"   -> "CHECK_WORKER_ACCESS"
      [] e = "check_image_property"  -> "CHECK_IMAGE_PROPERTY"
      [] e = "check_attestation"     -> "CHECK_ATTESTATION"
      [] e = "post_object_acl"       -> "POST_ACL"
      [] e = "endorse_principal"     -> "ENDORSE_PRINCIPAL"
      [] e = "endorse_membership"    -> "ENDORSE_MEMBERSHIP"
      [] e = "link_image"            -> "LINK_IMAGE"
      [] e = "free_call"             -> "FREE_CALL"
      [] OTHER                       -> "GUARD_CALL"

(* status_int: the status, or -1 if the response holds something else *)
status_int(answer) == CASE answer = "true" -> 1 [] answer = "false" -> 0 [] OTHER -> -1

(* extract_principal, extract_metadata_config, extract_attestation: the message in
   the response, if it is of that kind; only an attestation can be empty *)
extract(answer, kind) ==
    CASE answer = kind                                -> 1
      [] answer = "empty" /\ kind = "attestation"     -> EMPTY
      [] OTHER                                        -> NULL

(* mutant: the test of the status is turned round *)
returns_inverted(e, answer) ==
    CASE e \in CreateEntries -> IF status_int(answer) = 0 THEN 1 ELSE 0
      [] OTHER               -> status_int(answer)

(* What the entry point returns when the response is answer.  create_principal
   tells failure from everything else. *)
returns(e, answer) ==
    CASE e \in CreateEntries -> IF status_int(answer) = 0 THEN 0 ELSE 1
      [] e \in {"get_principal", "get_local_principal"} -> extract(answer, "principal")
      [] e \in {"get_metadata_config",
                "get_metadata_config_easy"}             -> extract(answer, "config")
      [] e = "check_attestation"                        -> extract(answer, "attestation")
      [] OTHER                                          -> status_int(answer)

(* CHECK_LIB_INIT and CHECK_LIB_INIT_PTR *)
uninitialized(e) == IF e \in PointerEntries THEN NULL ELSE -1

(* mutant: errno instead of EINVAL *)
invalid_errno(e) == IF e \in PointerEntries THEN {NULL} ELSE {5}

(* A null argument (CHECK_NULL_PTR and its variants), ports that could not be
   allocated, or a buffer that is too large. *)
invalid(e) ==
    CASE e \in StatusEntries  -> {EINVAL}
      [] e \in PointerEntries -> {NULL}
      [] e = "get_metadata_config_easy" -> {EINVAL, -EINVAL}
      [] OTHER                -> {-1}
Validating == StatusEntries \cup PointerEntries \cup CreateEntries
                \cup {"create_instance", "endorse", "get_metadata_config_easy"}

------------------------------------------------------------------------------
VARIABLES
    latte_client,  \* whether the static pointer is set
    port_usage,    \* whether port_usage has an entry for the child (one id is enough)
    child_ports,   \* external: the kernel's reservation for the child
    registered,    \* the daemon's principals for the child: with its ports or without
    mishaps,       \* history: what has gone wrong with ports and principal, see below
    alive,         \* FALSE once an exception or a null pointer has ended the process
    link,          \* the connection: "open", "torn" (half a command was sent), "closed"
    interrupted,   \* history: a send or receive of this connection was cut short
    posted,        \* number of commands sent over all connections
    sent,          \* the commands sent over this connection, in their order
    served,        \* history: the daemon's answer to each, and the service's reply
    orphans,       \* creates and deletes of earlier connections still to be answered
    stream,        \* the parts of responses that were not read yet
    pc,            \* per thread: "idle", or which part it waits for
    entry,         \* the entry point the thread is in, or has returned from
    mine,          \* the position in sent of its command, 0 if it sent none
    expect,        \* the response whose header it has read
    ret            \* what the last entry point returned

ports == <<port_usage, child_ports>>
daemon == <<registered, served, orphans>>
conn == <<link, interrupted, posted, sent, stream>>
calls == <<pc, entry, mine, expect, ret>>
vars == <<latte_client, ports, mishaps, alive, daemon, conn, calls>>

Init ==
    /\ latte_client = FALSE /\ alive = TRUE
    /\ port_usage = FALSE /\ child_ports = FALSE
    /\ registered = {} /\ mishaps = {}
    /\ link = "closed" /\ interrupted = FALSE /\ posted = 0 /\ orphans = {}
    /\ sent = <<>> /\ served = <<>> /\ stream = <<>>
    /\ pc = [t \in Threads |-> "idle"]
    /\ entry = [t \in Threads |-> "init"]
    /\ mine = [t \in Threads |-> 0]
    /\ expect = [t \in Threads |-> 0]
    /\ ret = [t \in Threads |-> 0]

Return(t, value) ==
    /\ pc' = [pc EXCEPT ![t] = "idle"]
    /\ expect' = [expect EXCEPT ![t] = 0]
    /\ ret' = [ret EXCEPT ![t] = value]

(* post() has a response.  A creation that failed is the one that is recorded,
   the result of the client being a status and not an error code. *)
Respond(t, e, answer, wrong) ==
    /\ Return(t, returns(e, answer))
    /\ port_usage' = (port_usage \/ (e \in CreateEntries /\ status_int(answer) = 0))
    /\ mishaps' = mishaps \cup wrong

(* post() makes one up: status(false) with the error code in its text *)
NoAnswer(t, e, wrong) == Respond(t, e, "false", wrong)

(* What can take the child's ports and its principal apart:
     "leak"   the ports stay without the principal: a create is refused, the ports
              cannot be found or are not looked for by a delete, the daemon ends
     "doubt"  a delete is refused, or a call ends without its answer            *)
Lasting == {"CREATE_PRINCIPAL", "DELETE_PRINCIPAL"}
unanswered(e) == IF command_of(e) \in Lasting THEN {"doubt"} ELSE {}
refusal(e, answer) ==
    CASE answer = "false" /\ command_of(e) = "CREATE_PRINCIPAL" -> {"leak"}
      [] answer = "false" /\ command_of(e) = "DELETE_PRINCIPAL" -> {"doubt"}
      [] OTHER                                                  -> {}

Releasing == {"delete_principal", "delete_instance"}
result(reserved, named, wrong) == [reserved |-> reserved, named |-> named, wrong |-> wrong]
kept == IF child_ports THEN {"leak"} ELSE {}

(* mutant: create_instance names ports also when it has asked for none *)
system_calls_named(e) ==
    CASE e \in CreateEntries   -> {result(TRUE, TRUE, {})}
      [] e = "create_instance" -> {result(TRUE, TRUE, {}), result(child_ports, TRUE, {})}
      [] e \in Releasing       -> {result(FALSE, FALSE, {}), result(child_ports, FALSE, kept)}
      [] OTHER                 -> {result(child_ports, FALSE, {})}

(* The system calls before the command is sent: the reservation after them,
   whether the command names it, and what went wrong.  alloc_child_ports (by
   create_instance only for nport > 0), del_reserved_ports (if the child's ports
   can be found). *)
system_calls(e) ==
    CASE e \in CreateEntries   -> {result(TRUE, TRUE, {})}
      [] e = "create_instance" -> {result(TRUE, TRUE, {}), result(child_ports, FALSE, {})}
      [] e \in Releasing       -> {result(FALSE, FALSE, {}), result(child_ports, FALSE, kept)}
      [] e = "delete_principal_without_allocated_ports"
                               -> {result(child_ports, FALSE, kept)}
      [] OTHER                 -> {result(child_ports, FALSE, {})}

(* The commands of this connection that the daemon has not answered. *)
Unserved == Len(served) + 1 .. Len(sent)

(* redial: a connection without history; the session of the old one may still be
   at work on what it was sent *)
redial ==
    /\ link' = "open" /\ interrupted' = FALSE
    /\ sent' = <<>> /\ served' = <<>> /\ stream' = <<>>
    /\ orphans' = orphans \cup {sent[n] : n \in {k \in Unserved : sent[k].cmd \in Lasting}}
    /\ UNCHANGED <<posted, registered>>

(* liblatte_init: without an address it fails and leaves everything alone;
   without a daemon the constructor of the client throws.  Called again, it
   replaces the client, and with it the connection: nothing else redials.  An
   application does so only while none of its threads is inside the library. *)
init(t) ==
    /\ \A u \in Threads : pc[u] = "idle"
    /\ \/ /\ latte_client' = TRUE
          /\ redial
          /\ entry' = [u \in Threads |-> "init"]
          /\ mine' = [u \in Threads |-> 0]
          /\ Return(t, 0)
          /\ UNCHANGED alive
       \/ /\ entry' = [entry EXCEPT ![t] = "init"]
          /\ mine' = [mine EXCEPT ![t] = 0]
          /\ Return(t, -1)
          /\ UNCHANGED <<latte_client, alive, daemon, conn>>
       \/ /\ alive' = FALSE
          /\ UNCHANGED <<latte_client, daemon, conn, calls>>
    /\ UNCHANGED <<ports, mishaps>>

(* An entry point that returns before it sends anything. *)
call_refused(t, e, complete) ==
    /\ pc[t] = "idle"
    /\ entry' = [entry EXCEPT ![t] = e]
    /\ mine' = [mine EXCEPT ![t] = 0]
    /\ \/ e \in Unimplemented /\ Return(t, -1)
       \/ /\ e \notin Unimplemented \cup RawEntries /\ ~latte_client
          /\ Return(t, uninitialized(e))
       \/ /\ e \in Validating /\ ~complete
          /\ latte_client \/ e \in RawEntries
          /\ \E value \in invalid(e) : Return(t, value)
    /\ UNCHANGED <<latte_client, ports, mishaps, alive, daemon, conn>>

(* A call through the null pointer latte_client, or syscall_gate before it. *)
call_crashes(t, e, complete) ==
    /\ pc[t] = "idle"
    /\ e \in RawEntries /\ ~latte_client
    /\ e \notin Validating \/ complete
    /\ alive' = FALSE
    /\ UNCHANGED <<latte_client, ports, mishaps, daemon, conn, calls>>

(* An entry point that gets as far as post(). *)
posts(t, e, complete) ==
    /\ pc[t] = "idle" /\ latte_client
    /\ e \notin Unimplemented
    /\ e \notin Validating \/ complete
    /\ posted < MaxCalls
    /\ entry' = [entry EXCEPT ![t] = e]

(* The command is sent; after half a command the daemon takes it for the rest. *)
call_sends(t, e, complete) ==
    /\ posts(t, e, complete)
    /\ \E sys \in system_calls(e) :
          /\ child_ports' = sys.reserved
          /\ mishaps' = mishaps \cup sys.wrong
          /\ \/ /\ link = "open"
                /\ posted' = posted + 1
                /\ sent' = Append(sent, [cmd |-> command_of(e), named |-> sys.named])
                /\ mine' = [mine EXCEPT ![t] = Len(sent')]
             \/ /\ link = "torn"
                /\ mine' = [mine EXCEPT ![t] = 0]
                /\ UNCHANGED <<posted, sent>>
    /\ pc' = [pc EXCEPT ![t] = "header"]
    /\ UNCHANGED <<latte_client, port_usage, alive, daemon, link, interrupted, stream, expect,
                   ret>>

(* reliable_send fails: the other side has closed, or send() was cut short before
   or within the command.  post() makes up status(false). *)
call_fails(t, e, complete) ==
    /\ posts(t, e, complete)
    /\ mine' = [mine EXCEPT ![t] = 0]
    /\ \E sys \in system_calls(e) :
          /\ child_ports' = sys.reserved
          /\ \/ /\ link = "closed"
                /\ NoAnswer(t, e, sys.wrong \cup unanswered(e))
                /\ UNCHANGED <<link, interrupted>>
             \/ /\ link # "closed"
                /\ NoAnswer(t, e, sys.wrong \cup {"doubt"})
                /\ link' \in {link, "torn"}
                /\ interrupted' = TRUE
    /\ UNCHANGED <<latte_client, alive, daemon, posted, sent, stream>>

(* mutant: the status of the answer is not told from its body *)
recv_body_any(t) ==
    /\ pc[t] = "body"
    /\ stream # <<>> \/ link = "closed"
    /\ stream' = IF stream # <<>> THEN Tail(stream) ELSE stream
    /\ Respond(t, entry[t], "true", {})
    /\ UNCHANGED <<latte_client, child_ports, alive, daemon, link, interrupted, posted,
                   sent, entry, mine>>

(* What ends a read without its bytes: the other side closes. *)
recv_closed(t) ==
    /\ stream = <<>> /\ link = "closed"
    /\ NoAnswer(t, entry[t], unanswered(entry[t]))
    /\ UNCHANGED stream

(* Bytes of some message read where another part was due: the size is whatever
   is there, and so is what the parser makes of the bytes, if enough of them come. *)
recv_stray(t) ==
    \E k \in 1 .. Len(stream), answer \in {"false", "true", "config"} :
       /\ stream' = SubSeq(stream, k + 1, Len(stream))
       /\ Respond(t, entry[t], answer, {"doubt"})

(* proto_recv_msg, the header. *)
recv_header(t) ==
    /\ pc[t] = "header"
    /\ \/ /\ stream # <<>> /\ Head(stream).part = "header"
          /\ stream' = Tail(stream)
          /\ pc' = [pc EXCEPT ![t] = "body"]
          /\ expect' = [expect EXCEPT ![t] = Head(stream).n]
          /\ UNCHANGED <<port_usage, mishaps, ret>>
       \/ /\ stream # <<>> /\ Head(stream).part # "header"
          /\ recv_stray(t)
       \/ recv_closed(t)
    /\ UNCHANGED <<latte_client, child_ports, alive, daemon, link, interrupted, posted,
                   sent, entry, mine>>

(* proto_recv_msg, the body: parsed if it is that of the header that was read. *)
recv_body(t) ==
    /\ pc[t] = "body"
    /\ \/ /\ stream # <<>> /\ Head(stream) = [part |-> "body", n |-> expect[t]]
          /\ stream' = Tail(stream)
          /\ LET answer == served[expect[t]].answer
             IN  Respond(t, entry[t], answer, refusal(entry[t], answer))
       \/ /\ stream # <<>> /\ Head(stream) # [part |-> "body", n |-> expect[t]]
          /\ recv_stray(t)
       \/ recv_closed(t)
    /\ UNCHANGED <<latte_client, child_ports, alive, daemon, link, interrupted, posted,
                   sent, entry, mine>>

(* reliable_recv retries after EAGAIN only: any other error, an interrupted call
   say, ends post() with some of the bytes read or none, and the connection stays. *)
recv_interrupted(t) ==
    /\ pc[t] \in {"header", "body"}
    /\ interrupted' = TRUE
    /\ \/ UNCHANGED stream
       \/ /\ stream # <<>>
          /\ stream' = <<[part |-> "rest", n |-> Head(stream).n]>> \o Tail(stream)
    /\ NoAnswer(t, entry[t], {"doubt"})
    /\ UNCHANGED <<latte_client, child_ports, alive, daemon, link, posted, sent, entry, mine>>

------------------------------------------------------------------------------
(* The service's replies to the one call of the handler; "none" if it makes no call
   or several. *)
replies(cmd) == IF cmd \in CallCommands THEN Replies ELSE {"none"}

(* The response to CHECK_ATTESTATION: attest turns a refusal of the service into an
   empty text, which the handler sends as the content of an attestation. *)
attestation_of(reply) ==
    CASE json_task(reply) = "true"          -> "attestation"
      [] json_task(reply) = "runtime_error" -> "empty"
      [] OTHER                              -> "false"

(* The daemon's answers to a command, given the reply of the metadata service. *)
answers(cmd, reply) ==
    CASE cmd = "CHECK_ATTESTATION" -> {attestation_of(reply)}
      [] cmd \in CallCommands \ {"CHECK_ATTESTATION"} -> {status_of(call(cmd, reply))}
      [] cmd \in {"CREATE_PRINCIPAL", "DELETE_PRINCIPAL"} -> {"true", "false"}
      [] cmd = "GET_METADATA_CONFIG" -> {"config"}
      [] OTHER -> {"false"}

(* What becomes of the child's principals: a creation adds one, a deletion takes
   all of them, also when the service could not be told afterwards. *)
effects(command, answer) ==
    CASE command.cmd = "CREATE_PRINCIPAL" /\ answer = "true" ->
           {registered \cup {IF command.named THEN "ported" ELSE "plain"}}
      [] command.cmd = "DELETE_PRINCIPAL" ->
           IF answer = "true" THEN {{}} ELSE {registered, {}}
      [] OTHER -> {registered}

(* The session answers the next command: header and body in one write, which is
   lost when the connection is gone by then. *)
serve ==
    /\ Unserved # {}
    /\ LET n == Len(served) + 1
       IN  /\ \E reply \in replies(sent[n].cmd) : \E answer \in answers(sent[n].cmd, reply) :
                 /\ served' = Append(served, [answer |-> answer, reply |-> reply])
                 /\ registered' \in effects(sent[n], answer)
           /\ stream' = IF link = "closed" THEN stream
                        ELSE stream \o <<[part |-> "header", n |-> n],
                                         [part |-> "body", n |-> n]>>
    /\ UNCHANGED <<latte_client, ports, mishaps, alive, orphans, link, interrupted, posted,
                   sent, calls>>

(* The session of an earlier connection comes to the end of a command, or finds the
   connection gone before it has read it. *)
serve_orphan(c) ==
    /\ c \in orphans
    /\ orphans' = orphans \ {c}
    /\ \/ \E answer \in answers(c.cmd, "none") : registered' \in effects(c, answer)
       \/ UNCHANGED registered
    /\ UNCHANGED <<latte_client, ports, mishaps, alive, served, conn, calls>>

(* The session gives up. *)
close ==
    /\ link # "closed"
    /\ link' = "closed"
    /\ UNCHANGED <<latte_client, ports, mishaps, alive, daemon, interrupted, posted, sent,
                   stream, calls>>

(* The daemon ends, and with it all sessions and principals (see DaemonRestart);
   another may be started. *)
daemon_ends ==
    /\ latte_client
    /\ link' = "closed"
    /\ registered' = {} /\ orphans' = {}
    /\ mishaps' = IF registered = {} THEN mishaps ELSE mishaps \cup {"leak"}
    /\ served' = [n \in DOMAIN sent |-> IF n \in Unserved
                                        THEN [answer |-> "false", reply |-> "none"]
                                        ELSE served[n]]
    /\ UNCHANGED <<latte_client, ports, alive, interrupted, posted, sent, stream, calls>>

Thread(t) ==
    \/ init(t) \/ recv_header(t) \/ recv_body(t) \/ recv_interrupted(t)
    \/ \E e \in InUse, complete \in BOOLEAN :
          call_refused(t, e, complete) \/ call_crashes(t, e, complete)
            \/ call_sends(t, e, complete) \/ call_fails(t, e, complete)

Next ==
    /\ alive
    /\ \/ \E t \in Threads : Thread(t)
       \/ \E c \in orphans : serve_orphan(c)
       \/ serve \/ close \/ daemon_ends

Spec == Init /\ [][Next]_vars

------------------------------------------------------------------------------
(* The static state of the library, the connection, the daemon's side of it, and
   each thread's call. *)
Sent == [cmd : {command_of(e) : e \in Entries}, named : BOOLEAN]
Served == [answer : {"true", "false", "config", "attestation", "empty"},
           reply : Replies \cup {"none"}]
Parts == [part : {"header", "body", "rest"}, n : 1 .. Len(served)]
TypeOK ==
    /\ latte_client \in BOOLEAN /\ port_usage \in BOOLEAN /\ child_ports \in BOOLEAN
    /\ alive \in BOOLEAN /\ interrupted \in BOOLEAN
    /\ registered \subseteq {"plain", "ported"}
    /\ mishaps \subseteq {"leak", "doubt"}
    /\ link \in {"open", "torn", "closed"}
    /\ sent \in Seq(Sent) /\ served \in Seq(Served) /\ stream \in Seq(Parts)
    /\ posted \in 0 .. MaxCalls
    /\ Len(served) <= Len(sent) /\ Len(sent) <= posted
    /\ orphans \subseteq [cmd : Lasting, named : BOOLEAN]
    /\ pc \in [Threads -> {"idle", "header", "body"}]
    /\ entry \in [Threads -> Entries \cup {"init"}]
    /\ mine \in [Threads -> 0 .. Len(sent)]
    /\ expect \in [Threads -> 0 .. Len(served)]
    /\ ret \in [Threads -> {-EINVAL, -1, 0, 1, EMPTY, EINVAL}]

(* The thread has returned from an entry point on a connection that was never cut
   short; and its command was answered. *)
Returned(t) == pc[t] = "idle" /\ entry[t] # "init" /\ ~interrupted
Answered(t) == mine[t] \in 1 .. Len(served)

(* The replies of the metadata service that are a yes to the command: the text a
   check looks for, a message without "Exception" for a guard_call, a message for
   an endorsement, a link or an attestation.  For the statements that go through
   sink_task it is any answer: their 1 says that the service was reached, no more. *)
Backing(cmd) ==
    CASE cmd \in CheckCommands      -> {"match"}
      [] cmd = "GUARD_CALL"         -> {"other"}
      [] cmd \in JsonCommands       -> {"match", "other"}
      [] cmd = "CHECK_ATTESTATION"  -> {"match", "other"}
      [] OTHER                      -> Replies \ {"no_reply"}

(* 1 means yes all the way down: an entry point whose command is one call of the
   metadata service, and which returns 1, had its own command put to the service and
   backed by the reply, whatever was lost, closed, redialled or answered late on the
   way.  A pointer to an attestation is a 1 if there is something in it. *)
Approved ==
    \A t \in Threads :
        Returned(t) /\ command_of(entry[t]) \in CallCommands /\ ret[t] = 1
        => Answered(t) /\ served[mine[t]].reply \in Backing(command_of(entry[t]))

(* An entry point that returns 1 or a pointer, the pointer to nothing included, has
   its own command answered with a success or with the message it asked for; and the
   codes beside these and 0 (-1 before liblatte_init and for what is not implemented,
   EINVAL for a null pointer) come from calls that have sent nothing. *)
Truthful ==
    \A t \in Threads :
        Returned(t) =>
           /\ ret[t] \in {1, EMPTY} => Answered(t) /\ served[mine[t]].answer # "false"
           /\ ret[t] \notin {0, 1, EMPTY} => mine[t] = 0

(* Ports and principal of the child.  The library reserves the ports before it asks
   for the principal and gives them back before it asks for the deletion, and makes
   up for neither; these are all the ways in which the two come apart.  The daemon
   vouches for ports that are not reserved only after a delete that was refused or
   a call without an answer, both of which the caller was told. *)
PortsInStep ==
    (\A t \in Threads : pc[t] = "idle") =>
       /\ "ported" \in registered /\ ~child_ports => "doubt" \in mishaps
       /\ child_ports /\ "ported" \notin registered => mishaps # {}
==============================================================================
