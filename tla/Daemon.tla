-------------------------------- MODULE Daemon --------------------------------
(***************************************************************************)
(* The attguard daemon as its clients see it: the acceptor (server.cc),    *)
(* one Session per connection (session.cc) and the pool of threads they    *)
(* share with the HTTP client of the metadata service (server.h takes the  *)
(* io_service of crossplat::threadpool::shared_instance()); at the other   *)
(* end the blocking post() of AttGuardClient (client.cc, comm.h).          *)
(*                                                                         *)
(* Every completion handler (accept, header_received, command_received,    *)
(* response_sent, and the continuations of an HTTP request) needs a pool   *)
(* thread to run.  All of them run to their end at once, except that the   *)
(* dispatch inside command_received blocks its thread until the metadata   *)
(* service has answered: busy is the set of connections that keep a thread *)
(* that way.                                                               *)
(*                                                                         *)
(* A send() or recv() of the client may fail on an open connection (only   *)
(* EAGAIN is retried).  post() then makes up status(false) and keeps the   *)
(* socket with what is left on it: cut says what that can be.              *)
(***************************************************************************)
EXTENDS Integers, FiniteSets, Sequences

CONSTANTS Clients,    \* client processes, each with one connection and one thread
          Threads,    \* number of threads that run the io_service
          Sizes,      \* sizes of the commands the clients send
          MaxPosts    \* bound on the number of post() calls of each client

RECV_BUFSZ == 8192

ASSUME ThreadsAssumption == Threads \in Nat \ {0}
ASSUME SizesAssumption == Sizes \subseteq Nat /\ MaxPosts \in [Clients -> Nat]

VARIABLES
    client,    \* "new", "idle", "posting" (inside post), or "gone"
    posted,    \* the command of the last post(): its number and its size
    got,       \* what the last post() returned: a command's number, or Failure
    session,   \* the state of the connection's Session
    request,   \* bytes on the way to the daemon: the commands not yet dispatched
    parsed,    \* number of the command that command_received made of its buffer
    response,  \* bytes on the way to the client: the numbers of answered commands
    cut,       \* what failed calls of post() have left: half a "command" before the
               \* next one, an "answer" that nobody has read, or only half of it
    large,     \* whether large_rcv_buf_ is allocated
    busy       \* the connections whose handler blocks a thread

vars == <<client, posted, got, session, request, parsed, response, cut, large, busy>>

Failure == -1     \* post() gave up: status(false) without a response
Garbage == -2     \* a command or response made of bytes that are not one
SessionStates == {"listening", "header", "command", "handling", "writing", "closed"}

FreeThread == Cardinality(busy) < Threads

Init ==
    /\ client = [c \in Clients |-> "new"]
    /\ posted = [c \in Clients |-> [n |-> 0, size |-> 0]]
    /\ got = [c \in Clients |-> 0]
    /\ session = [c \in Clients |-> "listening"]
    /\ request = [c \in Clients |-> <<>>]
    /\ parsed = [c \in Clients |-> 0]
    /\ response = [c \in Clients |-> <<>>]
    /\ cut = [c \in Clients |-> {}]
    /\ large = [c \in Clients |-> FALSE]
    /\ busy = {}

(* What is left of a stream when the first k messages are read. *)
Rest(stream, k) == SubSeq(stream, k + 1, Len(stream))

-------------------------------------------------------------------------------
(* The client.  redial() connects once, in the constructor. *)
connect(c) ==
    /\ client[c] = "new"
    /\ client' = [client EXCEPT ![c] = "idle"]
    /\ UNCHANGED <<posted, got, session, request, parsed, response, cut, large, busy>>

(* post: the next command of the application *)
next_command(c, size) ==
    /\ client[c] = "idle"
    /\ posted[c].n < MaxPosts[c]
    /\ posted' = [posted EXCEPT ![c] = [n |-> @.n + 1, size |-> size]]

(* post: proto_send_msg sends the whole command *)
post(c, size) ==
    /\ next_command(c, size)
    /\ session[c] # "closed"
    /\ request' = [request EXCEPT ![c] = Append(@, posted'[c])]
    /\ client' = [client EXCEPT ![c] = "posting"]
    /\ UNCHANGED <<got, session, parsed, response, cut, large, busy>>

(* post: proto_send_msg fails.  The other side has closed, or send() has failed
   before the first byte of the command, or after some of its bytes. *)
send_fails(c, size) ==
    /\ next_command(c, size)
    /\ got' = [got EXCEPT ![c] = Failure]
    /\ \/ UNCHANGED cut
       \/ session[c] # "closed" /\ cut' = [cut EXCEPT ![c] = @ \cup {"command"}]
    /\ UNCHANGED <<client, session, request, parsed, response, large, busy>>

(* post: proto_recv_msg returns the next response on the connection, or the other
   side has closed *)
post_return(c) ==
    /\ client[c] = "posting"
    /\ \/ /\ response[c] # <<>>
          /\ got' = [got EXCEPT ![c] = Head(response[c])]
          /\ response' = [response EXCEPT ![c] = Tail(@)]
       \/ /\ response[c] = <<>> /\ session[c] = "closed"
          /\ got' = [got EXCEPT ![c] = Failure]
          /\ UNCHANGED response
    /\ client' = [client EXCEPT ![c] = "idle"]
    /\ UNCHANGED <<posted, session, request, parsed, cut, large, busy>>

(* post: recv() fails with anything but EAGAIN, before the response has come or in
   the middle of it.  The command may have been executed, and may be later. *)
recv_fails(c) ==
    /\ client[c] = "posting"
    /\ got' = [got EXCEPT ![c] = Failure]
    /\ client' = [client EXCEPT ![c] = "idle"]
    /\ cut' = [cut EXCEPT ![c] = @ \cup {"answer"}]
    /\ UNCHANGED <<posted, session, request, parsed, response, large, busy>>

(* post: proto_recv_msg starts in the middle of a response.  Whatever bytes are
   there are the size, so that any number of responses is swallowed, and the parse
   fails or finds something.  The size may also be one that never comes: no step. *)
recv_stray(c) ==
    /\ client[c] = "posting" /\ "answer" \in cut[c]
    /\ \E k \in 0 .. Len(response[c]) : response' = [response EXCEPT ![c] = Rest(@, k)]
    /\ \E n \in {Garbage, Failure} : got' = [got EXCEPT ![c] = n]
    /\ client' = [client EXCEPT ![c] = "idle"]
    /\ UNCHANGED <<posted, session, request, parsed, cut, large, busy>>

(* The client process ends, at any time; its socket is closed.  If it was still
   sending, the part of the command that was not sent never arrives. *)
exit(c) ==
    /\ client[c] \in {"idle", "posting"}
    /\ client' = [client EXCEPT ![c] = "gone"]
    /\ \/ UNCHANGED request
       \/ /\ client[c] = "posting" /\ request[c] # <<>>
          /\ request' = [request EXCEPT ![c] = SubSeq(@, 1, Len(@) - 1)]
    /\ UNCHANGED <<posted, got, session, parsed, response, cut, large, busy>>

-------------------------------------------------------------------------------
(* The daemon.  new_session: authenticate() fails when the kernel gives no pid
   for the peer; start_accept() follows either way. *)
new_session(c) ==
    /\ session[c] = "listening" /\ client[c] # "new"
    /\ FreeThread
    /\ \/ session' = [session EXCEPT ![c] = "header"]
       \/ session' = [session EXCEPT ![c] = "closed"]
    /\ UNCHANGED <<client, posted, got, request, parsed, response, cut, large, busy>>

(* mutant: the socket is not closed *)
stop_forgotten(c) == UNCHANGED session

(* stop() *)
stop(c) == session' = [session EXCEPT ![c] = "closed"]

(* The end of the stream: the client is gone, and no whole command is left. *)
AtEnd(c) == client[c] = "gone" /\ (request[c] = <<>> \/ "command" \in cut[c])

(* The session stands at the start of a command that has arrived. *)
InStep(c) == request[c] # <<>> /\ "command" \notin cut[c]

(* header_received: what is too big for rcv_buf_ gets a buffer of its own *)
header_received(c) ==
    /\ session[c] = "header"
    /\ FreeThread
    /\ \/ /\ InStep(c)
          /\ session' = [session EXCEPT ![c] = "command"]
          /\ large' = [large EXCEPT ![c] = Head(request[c]).size > RECV_BUFSZ]
       \/ /\ AtEnd(c)
          /\ stop(c)
          /\ UNCHANGED large
    /\ UNCHANGED <<client, posted, got, request, parsed, response, cut, busy>>

(* The Guards object of command_received is a temporary, destroyed at the end
   of its own statement: a large buffer is released before it is parsed. *)
release_guard(c) == large' = [large EXCEPT ![c] = FALSE]

(* mutant: the guard and the choice of the buffer disagree on the boundary *)
ParseOutcomes_boundary(cmd, allocated) ==
    IF cmd.size >= RECV_BUFSZ /\ ~allocated THEN {cmd.n, Garbage, Failure} ELSE {cmd.n}

(* What ParseFromArray finds: the command, or in released memory anything *)
ParseOutcomes(cmd, allocated) ==
    IF cmd.size > RECV_BUFSZ /\ ~allocated THEN {cmd.n, Garbage, Failure} ELSE {cmd.n}

(* mutant: the command stays in the buffer and is received again *)
command_received_again(c) ==
    /\ session[c] = "command"
    /\ FreeThread
    /\ release_guard(c)
    /\ InStep(c)
    /\ parsed' = [parsed EXCEPT ![c] = Head(request[c]).n]
    /\ session' = [session EXCEPT ![c] = "writing"]
    /\ UNCHANGED <<client, posted, got, request, response, cut, busy>>

(* What does not parse (n is Failure) ends the session; command n is dispatched, on
   this thread.  Its handler answers from memory, down to write_response, or blocks
   on the metadata service. *)
parse(c, n) ==
    \/ /\ n = Failure
       /\ stop(c)
       /\ UNCHANGED <<parsed, busy>>
    \/ /\ n # Failure
       /\ parsed' = [parsed EXCEPT ![c] = n]
       /\ \/ /\ session' = [session EXCEPT ![c] = "writing"]
             /\ UNCHANGED busy
          \/ /\ session' = [session EXCEPT ![c] = "handling"]
             /\ busy' = busy \cup {c}

(* command_received: a command that is cut off ends the session *)
command_received(c) ==
    /\ session[c] = "command"
    /\ FreeThread
    /\ release_guard(c)
    /\ \/ /\ AtEnd(c)
          /\ stop(c)
          /\ UNCHANGED <<request, parsed, busy>>
       \/ /\ InStep(c)
          /\ request' = [request EXCEPT ![c] = Tail(@)]
          /\ \E n \in ParseOutcomes(Head(request[c]), large'[c]) : parse(c, n)
    /\ UNCHANGED <<client, posted, got, response, cut>>

(* header_received and command_received behind half a command: the bytes of the
   commands that follow are taken for its rest, and where the next header starts is
   anybody's guess.  A command from before the half one is still read as it is.  Half
   a command alone is waited for: no step.  As a bound, every such read uses up one
   whole command at least. *)
stray_received(c) ==
    /\ session[c] \in {"header", "command"} /\ "command" \in cut[c]
    /\ FreeThread
    /\ release_guard(c)
    /\ \E k \in 1 .. Len(request[c]) : request' = [request EXCEPT ![c] = Rest(@, k)]
    /\ \E n \in {Head(request[c]).n, Garbage, Failure} : parse(c, n)
    /\ UNCHANGED <<client, posted, got, response, cut>>

(* mutant: the thread is not given back *)
write_response_kept(c) ==
    /\ session[c] = "handling"
    /\ FreeThread
    /\ session' = [session EXCEPT ![c] = "writing"]
    /\ UNCHANGED <<client, posted, got, request, parsed, response, cut, large, busy>>

(* The metadata service has answered or the request has timed out: the
   continuations run on another thread of the pool and wake the handler, which
   calls write_response and gives its thread back. *)
write_response(c) ==
    /\ session[c] = "handling"
    /\ FreeThread
    /\ session' = [session EXCEPT ![c] = "writing"]
    /\ busy' = busy \ {c}
    /\ UNCHANGED <<client, posted, got, request, parsed, response, cut, large>>

(* mutant: the response is not written *)
response_sent_lost(c) ==
    /\ session[c] = "writing"
    /\ FreeThread
    /\ session' = [session EXCEPT ![c] = "header"]
    /\ UNCHANGED <<client, posted, got, request, parsed, response, cut, large, busy>>

(* mutant: the handler's callback runs twice *)
response_sent_twice(c) ==
    /\ session[c] = "writing"
    /\ FreeThread
    /\ response' = [response EXCEPT ![c] = @ \o <<parsed[c], parsed[c]>>]
    /\ session' = [session EXCEPT ![c] = "header"]
    /\ UNCHANGED <<client, posted, got, request, parsed, cut, large, busy>>

(* response_sent: back to proto_start, or stop when the peer is gone *)
response_sent(c) ==
    /\ session[c] = "writing"
    /\ FreeThread
    /\ \/ /\ client[c] # "gone"
          /\ response' = [response EXCEPT ![c] = Append(@, parsed[c])]
          /\ session' = [session EXCEPT ![c] = "header"]
       \/ /\ client[c] = "gone"
          /\ stop(c)
          /\ UNCHANGED response
    /\ UNCHANGED <<client, posted, got, request, parsed, cut, large, busy>>

Completion(c) ==
    \/ new_session(c) \/ header_received(c) \/ command_received(c)
    \/ write_response(c) \/ response_sent(c)

Application(c) ==
    connect(c) \/ exit(c) \/ \E size \in Sizes : post(c, size) \/ send_fails(c, size)

Client(c) == Application(c) \/ post_return(c) \/ recv_fails(c) \/ recv_stray(c)

Next == \E c \in Clients : Client(c) \/ Completion(c) \/ stray_received(c)

Spec == Init /\ [][Next]_vars

(* Nothing was left on the connection by a failed call. *)
Whole(c) == cut[c] = {}

(* The pool runs a ready completion handler as long as it has a thread for it, and
   a blocked recv() on a whole connection returns once there is something to return.
   No call ever has to fail, and stray bytes need never be enough. *)
FairSpec ==
    /\ Spec
    /\ \A c \in Clients : WF_vars(Completion(c)) /\ WF_vars(Whole(c) /\ post_return(c))

-------------------------------------------------------------------------------
(* Both ends of every connection; a pool thread is blocked exactly while the
   dispatch of its command_received runs. *)
TypeOK ==
    /\ client \in [Clients -> {"new", "idle", "posting", "gone"}]
    /\ posted \in [Clients -> [n : Nat, size : Nat]]
    /\ got \in [Clients -> Nat \cup {Failure, Garbage}]
    /\ session \in [Clients -> SessionStates]
    /\ request \in [Clients -> Seq([n : Nat, size : Nat])]
    /\ parsed \in [Clients -> Nat \cup {Garbage}]
    /\ response \in [Clients -> Seq(Nat \cup {Garbage})]
    /\ cut \in [Clients -> SUBSET {"command", "answer"}]
    /\ large \in [Clients -> BOOLEAN]
    /\ busy = {c \in Clients : session[c] = "handling"}

(* The command fits into rcv_buf_. *)
Fits(c) == posted[c].size <= RECV_BUFSZ

(* Until a call of post() has failed in send() or recv(), and that one with Failure,
   post() returns the response to the command it sent, or fails: although no message
   carries a number that is checked, the responses of earlier commands, large ones
   included, are not left on the connection.  After such a failure they are. *)
OwnResponse ==
    \A c \in Clients : Whole(c) /\ Fits(c) =>
        /\ client[c] = "idle" /\ posted[c].n > 0 => got[c] \in {posted[c].n, Failure}
        /\ client[c] = "posting" =>
              \A i \in DOMAIN response[c] : response[c][i] = posted[c].n

(* On a connection where no call has failed halfway, a command that fits into
   rcv_buf_ is dispatched as it was sent, whatever the session has received before. *)
FittingIntact ==
    \A c \in Clients :
        Whole(c) /\ Fits(c) /\ session[c] \in {"handling", "writing"}
        => parsed[c] = posted[c].n

(* Every command is dispatched as it was sent: "For object smaller than such
   size we will use pre-allocated buffer for larger one we dynamic allocate"
   (config.h) promises nothing less to the larger ones. *)
ParsedIntact ==
    \A c \in Clients :
        Whole(c) /\ session[c] \in {"handling", "writing"} => parsed[c] = posted[c].n

(* A post() in progress on a whole connection never hangs for want of bytes or of a
   thread: its response or the end of the connection is there to be read, or its
   session has a handler that can run, with the command to read before it has
   dispatched it.  So it is as long as there are fewer clients than threads. *)
NeverStuck ==
    \A c \in Clients : Whole(c) /\ client[c] = "posting" =>
       \/ response[c] # <<>> \/ session[c] = "closed"
       \/ FreeThread /\ (session[c] \in {"header", "command"} => request[c] # <<>>)

(* The daemon and post() implement RemoteCall, calls that fail halfway included: a
   command is pending until an open session has dispatched it, and its answer is with
   the session or on the way back. *)
Pending == [c \in Clients |-> IF session[c] = "closed" THEN <<>> ELSE request[c]]
Answer == [c \in Clients |-> IF session[c] \in {"handling", "writing"}
                             THEN Append(response[c], parsed[c]) ELSE response[c]]
Remote == INSTANCE RemoteCall
            WITH Limit <- RECV_BUFSZ, pending <- Pending, answer <- Answer
KeepsCalls == Remote!Spec

(* Every post() on a whole connection returns, although some clients may vanish in
   the middle of theirs: as long as there are fewer clients than threads. *)
PostReturns ==
    \A c \in Clients : Whole(c) /\ client[c] = "posting" ~> client[c] # "posting"

(* A session whose client is gone is closed, also when it has half a command. *)
SessionEnds == \A c \in Clients : client[c] = "gone" ~> session[c] = "closed"
===============================================================================
