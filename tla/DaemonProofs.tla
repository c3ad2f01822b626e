----------------------------- MODULE DaemonProofs -----------------------------
(***************************************************************************)
(* For any number of clients, threads and requests of any sizes: as long   *)
(* as no call has failed halfway on its connection, a session dispatches a *)
(* command that fits into rcv_buf_ as its client sent it, and post()       *)
(* returns the response to that command, also after larger ones.  What     *)
(* post() promises beyond that is RemoteCall.                              *)
(***************************************************************************)
EXTENDS Daemon, FiniteSetTheorems, SequenceTheorems, TLAPS

USE ThreadsAssumption, SizesAssumption

(* One command at a time: it is on its way to the session, in the session, or
   answered, and while post() waits on an open connection it is in one of the three;
   a client that is not inside post() has left nothing behind on an open connection. *)
OneCommand(c) ==
    /\ session[c] # "closed" =>
          /\ request[c] \in {<<>>, <<posted[c]>>}
          /\ client[c] \in {"new", "idle"} => request[c] = <<>>
    /\ client[c] \in {"new", "idle"} => /\ session[c] \in {"listening", "header", "closed"}
                                        /\ response[c] = <<>>
    /\ client[c] = "new" => posted[c].n = 0
    /\ client[c] = "idle" /\ posted[c].n > 0 /\ Fits(c) => got[c] \in {posted[c].n, Failure}
    /\ client[c] = "posting" =>
          /\ response[c] \in {<<>>, <<parsed[c]>>}
          /\ response[c] # <<>> =>
                /\ session[c] = "header"
                /\ Fits(c) => parsed[c] = posted[c].n
          /\ response[c] = <<>> /\ session[c] \in {"listening", "header", "command"}
                => request[c] = <<posted[c]>>
    /\ response[c] # <<>> => request[c] = <<>> /\ session[c] \in {"header", "closed"}
    /\ session[c] \in {"handling", "writing"} =>
          /\ request[c] = <<>>
          /\ Fits(c) => parsed[c] = posted[c].n

IInv == TypeOK /\ \A c \in Clients : Whole(c) => OneCommand(c)

(* The inductive invariant says more than the two properties. *)
LEMMA IInvImplies == IInv => TypeOK /\ OwnResponse /\ FittingIntact
<1> SUFFICES ASSUME IInv PROVE OwnResponse /\ FittingIntact
  BY DEF IInv
<1>1. ASSUME NEW c \in Clients, Whole(c), Fits(c), client[c] = "posting",
             NEW i \in DOMAIN response[c]
      PROVE  response[c][i] = posted[c].n
  <2>1. response[c] \in {<<>>, <<posted[c].n>>}
    BY <1>1 DEF IInv, OneCommand
  <2> QED BY <2>1, <1>1
<1> QED BY <1>1 DEF IInv, OneCommand, OwnResponse, FittingIntact

LEMMA InitIInv == Init => IInv
BY DEF Init, IInv, TypeOK, OneCommand, SessionStates, RECV_BUFSZ

(* What reading and writing makes of a stream of messages. *)
LEMMA Streams ==
    ASSUME NEW S, NEW s \in Seq(S)
    PROVE  /\ \A e \in S : Append(s, e) \in Seq(S)
           /\ s # <<>> => Head(s) \in S /\ Tail(s) \in Seq(S)
           /\ \A k \in 0 .. Len(s) : Rest(s, k) \in Seq(S)
           /\ SubSeq(s, 1, Len(s) - 1) \in Seq(S)
<1>1. Len(s) \in Nat /\ \A i \in 1 .. Len(s) : s[i] \in S
  BY LenProperties, ElementOfSeq
<1>2. ASSUME NEW k \in 0 .. Len(s) PROVE Rest(s, k) \in Seq(S)
  <2>1. \A i \in k + 1 .. Len(s) : s[i] \in S
    BY <1>1
  <2> QED BY <1>1, <2>1, SubSeqProperties DEF Rest
<1>3. SubSeq(s, 1, Len(s) - 1) \in Seq(S)
  <2>1. \A i \in 1 .. Len(s) - 1 : s[i] \in S
    BY <1>1
  <2> QED BY <1>1, <2>1, SubSeqProperties
<1> QED BY <1>2, <1>3, AppendProperties, HeadTailProperties

LEMMA OneMessage ==
    ASSUME NEW x
    PROVE  Append(<<>>, x) = <<x>> /\ Head(<<x>>) = x /\ Tail(<<x>>) = <<>> /\ <<x>> # <<>>
OBVIOUS

------------------------------------------------------------------------------
(* The types of what one connection can hold. *)
Message == [n : Nat, size : Nat]
Reply == Nat \cup {Garbage}

LEMMA ClientType ==
    ASSUME TypeOK, NEW c \in Clients, Client(c)
    PROVE  TypeOK'
<1>0. request[c] \in Seq(Message) /\ response[c] \in Seq(Reply)
  BY DEF TypeOK, Message, Reply
<1>1. CASE connect(c)
  BY <1>1 DEF connect, TypeOK
<1>2. CASE exit(c)
  <2>1. SubSeq(request[c], 1, Len(request[c]) - 1) \in Seq(Message)
    BY <1>0, Streams
  <2>2. request' \in [Clients -> Seq(Message)]
    BY <1>2, <2>1 DEF exit, TypeOK, Message
  <2> QED BY <1>2, <2>2 DEF exit, TypeOK, Message
<1>3. ASSUME NEW size \in Sizes, next_command(c, size)
      PROVE  posted' \in [Clients -> Message] /\ posted'[c] \in Message
  BY <1>3 DEF next_command, TypeOK, Message
<1>4. ASSUME NEW size \in Sizes, post(c, size) PROVE TypeOK'
  <2>1. posted' \in [Clients -> Message] /\ posted'[c] \in Message
    BY <1>3, <1>4 DEF post
  <2>2. Append(request[c], posted'[c]) \in Seq(Message)
    BY <1>0, <2>1, Streams
  <2>3. request' \in [Clients -> Seq(Message)]
    BY <1>4, <2>2 DEF post, TypeOK, Message
  <2> QED BY <1>4, <2>1, <2>3 DEF post, TypeOK, Message
<1>5. ASSUME NEW size \in Sizes, send_fails(c, size) PROVE TypeOK'
  <2>1. posted' \in [Clients -> Message]
    BY <1>3, <1>5 DEF send_fails
  <2>2. cut' \in [Clients -> SUBSET {"command", "answer"}]
    <3>1. CASE UNCHANGED cut
      BY <3>1 DEF TypeOK
    <3>2. CASE cut' = [cut EXCEPT ![c] = @ \cup {"command"}]
      BY <3>2 DEF TypeOK
    <3> QED BY <1>5, <3>1, <3>2 DEF send_fails
  <2>3. got' \in [Clients -> Nat \cup {Failure, Garbage}]
    BY <1>5 DEF send_fails, TypeOK
  <2> QED BY <1>5, <2>1, <2>2, <2>3 DEF send_fails, TypeOK, Message
<1>6. CASE post_return(c)
  <2>1. response[c] # <<>> => Head(response[c]) \in Reply /\ Tail(response[c]) \in Seq(Reply)
    BY <1>0, Streams
  <2>2. got' \in [Clients -> Nat \cup {Failure, Garbage}]
    BY <1>6, <2>1 DEF post_return, TypeOK, Reply
  <2>3. response' \in [Clients -> Seq(Reply)]
    BY <1>6, <2>1 DEF post_return, TypeOK, Reply
  <2> QED BY <1>6, <2>2, <2>3 DEF post_return, TypeOK, Reply
<1>7. CASE recv_fails(c)
  <2>1. cut' \in [Clients -> SUBSET {"command", "answer"}]
    BY <1>7 DEF recv_fails, TypeOK
  <2>2. got' \in [Clients -> Nat \cup {Failure, Garbage}]
    BY <1>7 DEF recv_fails, TypeOK
  <2> QED BY <1>7, <2>1, <2>2 DEF recv_fails, TypeOK
<1>8. CASE recv_stray(c)
  <2>1. PICK k \in 0 .. Len(response[c]) : response' = [response EXCEPT ![c] = Rest(@, k)]
    BY <1>8 DEF recv_stray
  <2>2. response' \in [Clients -> Seq(Reply)]
    BY <1>0, <2>1, Streams DEF TypeOK, Reply
  <2>3. got' \in [Clients -> Nat \cup {Failure, Garbage}]
    BY <1>8 DEF recv_stray, TypeOK
  <2> QED BY <1>8, <2>2, <2>3 DEF recv_stray, TypeOK, Reply
<1> QED BY <1>1, <1>2, <1>4, <1>5, <1>6, <1>7, <1>8 DEF Client, Application

(* The two outcomes of a parse. *)
LEMMA ParseType ==
    ASSUME TypeOK, NEW c \in Clients, session[c] # "handling",
           NEW n \in Reply \cup {Failure}, parse(c, n)
    PROVE  /\ session' \in [Clients -> SessionStates]
           /\ busy' = {d \in Clients : session'[d] = "handling"}
           /\ parsed' \in [Clients -> Reply]
<1>1. CASE n = Failure
  <2>1. session' = [session EXCEPT ![c] = "closed"] /\ UNCHANGED <<parsed, busy>>
    BY <1>1 DEF parse, stop
  <2>2. session' \in [Clients -> SessionStates] /\ parsed' \in [Clients -> Reply]
    BY <2>1 DEF TypeOK, SessionStates, Reply
  <2>3. busy' = {d \in Clients : session'[d] = "handling"}
    BY <2>1 DEF TypeOK
  <2> QED BY <2>2, <2>3
<1>2. CASE n # Failure
  <2>1. n \in Reply /\ parsed' = [parsed EXCEPT ![c] = n]
    BY <1>2 DEF parse
  <2>2. parsed' \in [Clients -> Reply]
    BY <2>1 DEF TypeOK, Reply
  <2>3. CASE session' = [session EXCEPT ![c] = "writing"] /\ UNCHANGED busy
    BY <2>2, <2>3 DEF TypeOK, SessionStates
  <2>4. CASE session' = [session EXCEPT ![c] = "handling"] /\ busy' = busy \cup {c}
    BY <2>2, <2>4 DEF TypeOK, SessionStates
  <2> QED BY <1>2, <2>3, <2>4 DEF parse
<1> QED BY <1>1, <1>2

LEMMA SessionType ==
    ASSUME TypeOK, NEW c \in Clients, Completion(c) \/ stray_received(c)
    PROVE  TypeOK'
<1>0. request[c] \in Seq(Message) /\ response[c] \in Seq(Reply) /\ parsed[c] \in Reply
  BY DEF TypeOK, Message, Reply
<1>1. CASE new_session(c)
  BY <1>1 DEF new_session, TypeOK, SessionStates
<1>2. CASE header_received(c)
  <2> USE <1>2 DEF header_received, stop
  <2>1. large' \in [Clients -> BOOLEAN]
    <3>1. CASE UNCHANGED large
      BY <3>1 DEF TypeOK
    <3>2. CASE large' = [large EXCEPT ![c] = Head(request[c]).size > RECV_BUFSZ]
      <4>1. (Head(request[c]).size > RECV_BUFSZ) \in BOOLEAN
        OBVIOUS
      <4>2. large \in [Clients -> BOOLEAN]
        BY DEF TypeOK
      <4> QED BY <3>2, <4>1, <4>2, Zenon
    <3> QED BY <3>1, <3>2
  <2>2. session' \in [Clients -> SessionStates] /\ session'[c] # "handling"
    BY DEF TypeOK, SessionStates
  <2>3. busy' = {d \in Clients : session'[d] = "handling"}
    BY DEF TypeOK
  <2> QED BY <2>1, <2>2, <2>3 DEF TypeOK
<1>3. ASSUME session[c] \in {"header", "command"}, release_guard(c),
             NEW n \in Reply \cup {Failure}, parse(c, n),
             request' \in [Clients -> Seq(Message)],
             UNCHANGED <<client, posted, got, response, cut>>
      PROVE  TypeOK'
  <2>1. large' \in [Clients -> BOOLEAN]
    BY <1>3 DEF release_guard, TypeOK
  <2>2. /\ session' \in [Clients -> SessionStates]
        /\ busy' = {d \in Clients : session'[d] = "handling"}
        /\ parsed' \in [Clients -> Reply]
    BY <1>3, ParseType
  <2> QED BY <1>3, <2>1, <2>2 DEF TypeOK, Message, Reply
<1>4. CASE command_received(c)
  <2>1. CASE AtEnd(c) /\ stop(c) /\ UNCHANGED <<request, parsed, busy>>
    <3>1. large' \in [Clients -> BOOLEAN]
      BY <1>4 DEF command_received, release_guard, TypeOK
    <3> QED BY <1>4, <2>1, <3>1 DEF command_received, stop, TypeOK, SessionStates
  <2>2. ASSUME request[c] # <<>>, request' = [request EXCEPT ![c] = Tail(@)],
               NEW n \in ParseOutcomes(Head(request[c]), large'[c]), parse(c, n)
        PROVE  TypeOK'
    <3>1. Head(request[c]) \in Message /\ Tail(request[c]) \in Seq(Message)
      BY <1>0, <2>2, Streams
    <3>2. request' \in [Clients -> Seq(Message)]
      BY <2>2, <3>1 DEF TypeOK, Message
    <3>3. n \in Reply \cup {Failure}
      BY <2>2, <3>1 DEF ParseOutcomes, Message, Reply
    <3> QED BY <1>3, <1>4, <2>2, <3>2, <3>3 DEF command_received
  <2> QED BY <1>4, <2>1, <2>2 DEF command_received, InStep
<1>5. CASE stray_received(c)
  <2>1. PICK k \in 1 .. Len(request[c]) : request' = [request EXCEPT ![c] = Rest(@, k)]
    BY <1>5 DEF stray_received
  <2>2. PICK n \in {Head(request[c]).n, Garbage, Failure} : parse(c, n)
    BY <1>5 DEF stray_received
  <2>3. request[c] # <<>> /\ k \in 0 .. Len(request[c])
    BY <1>0, <2>1
  <2>4. Head(request[c]) \in Message /\ Rest(request[c], k) \in Seq(Message)
    BY <1>0, <2>3, Streams
  <2>5. request' \in [Clients -> Seq(Message)]
    BY <2>1, <2>4 DEF TypeOK, Message
  <2>6. n \in Reply \cup {Failure}
    BY <2>2, <2>4 DEF Message, Reply
  <2> QED BY <1>3, <1>5, <2>2, <2>5, <2>6 DEF stray_received
<1>6. CASE write_response(c)
  <2>1. session' \in [Clients -> SessionStates]
    BY <1>6 DEF write_response, TypeOK, SessionStates
  <2>2. busy' = {d \in Clients : session'[d] = "handling"}
    BY <1>6 DEF write_response, TypeOK
  <2> QED BY <1>6, <2>1, <2>2 DEF write_response, TypeOK
<1>7. CASE response_sent(c)
  <2> USE <1>7 DEF response_sent, stop
  <2>1. session' \in [Clients -> SessionStates]
    BY DEF TypeOK, SessionStates
  <2>2. busy' = {d \in Clients : session'[d] = "handling"}
    BY DEF TypeOK
  <2>3. Append(response[c], parsed[c]) \in Seq(Reply)
    BY <1>0, Streams
  <2>4. response' \in [Clients -> Seq(Reply)]
    BY <2>3 DEF TypeOK, Reply
  <2> QED BY <2>1, <2>2, <2>4 DEF TypeOK, Reply
<1> QED BY <1>1, <1>2, <1>4, <1>5, <1>6, <1>7 DEF Completion

------------------------------------------------------------------------------
(* The steps on one connection do not touch the others. *)
LEMMA OtherConnections ==
    ASSUME IInv, TypeOK', NEW c \in Clients, Whole(c)' => OneCommand(c)',
           \A d \in Clients \ {c} :
              /\ client'[d] = client[d] /\ posted'[d] = posted[d] /\ got'[d] = got[d]
              /\ session'[d] = session[d] /\ request'[d] = request[d]
              /\ parsed'[d] = parsed[d] /\ response'[d] = response[d] /\ cut'[d] = cut[d]
    PROVE  IInv'
<1>1. ASSUME NEW d \in Clients, Whole(d)' PROVE OneCommand(d)'
  <2>1. CASE d = c
    BY <1>1, <2>1
  <2>2. CASE d # c
    BY <1>1, <2>2 DEF IInv, OneCommand, Fits, Whole
  <2> QED BY <2>1, <2>2
<1> QED BY <1>1 DEF IInv

(* What the client does.  A call that fails halfway makes its connection one of which
   nothing is said. *)
LEMMA ClientIInv ==
    ASSUME IInv, NEW c \in Clients, Client(c)
    PROVE  IInv'
<1>0. TypeOK /\ TypeOK'
  BY ClientType DEF IInv
<1>1. \A d \in Clients \ {c} :
         /\ client'[d] = client[d] /\ posted'[d] = posted[d] /\ got'[d] = got[d]
         /\ session'[d] = session[d] /\ request'[d] = request[d]
         /\ parsed'[d] = parsed[d] /\ response'[d] = response[d] /\ cut'[d] = cut[d]
  <2> DEFINE Others == \A d \in Clients \ {c} :
         /\ client'[d] = client[d] /\ posted'[d] = posted[d] /\ got'[d] = got[d]
         /\ session'[d] = session[d] /\ request'[d] = request[d]
         /\ parsed'[d] = parsed[d] /\ response'[d] = response[d] /\ cut'[d] = cut[d]
  <2>1. connect(c) \/ exit(c) => Others
    BY <1>0 DEF TypeOK, connect, exit
  <2>2. ASSUME NEW size \in Sizes, post(c, size) \/ send_fails(c, size) PROVE Others
    <3>1. posted' = [posted EXCEPT ![c] = [n |-> @.n + 1, size |-> size]]
      BY <2>2 DEF post, send_fails, next_command
    <3>2. CASE post(c, size)
      BY <1>0, <3>1, <3>2 DEF TypeOK, post
    <3>3. CASE send_fails(c, size)
      BY <1>0, <3>1, <3>3 DEF TypeOK, send_fails
    <3> QED BY <2>2, <3>2, <3>3
  <2>3. post_return(c) => Others
    BY <1>0 DEF TypeOK, post_return
  <2>4. recv_fails(c) => Others
    BY <1>0 DEF TypeOK, recv_fails
  <2>5. recv_stray(c) => Others
    BY <1>0 DEF TypeOK, recv_stray
  <2> QED BY <2>1, <2>2, <2>3, <2>4, <2>5 DEF Client, Application
<1>2. SUFFICES ASSUME Whole(c)' PROVE OneCommand(c)'
  BY <1>0, <1>1, OtherConnections
<1>3. Whole(c)
  <2>1. UNCHANGED cut \/ cut' = [cut EXCEPT ![c] = @ \cup {"command"}]
                     \/ cut' = [cut EXCEPT ![c] = @ \cup {"answer"}]
    BY DEF Client, Application, connect, exit, post, send_fails, post_return, recv_fails,
           recv_stray
  <2> QED BY <1>0, <1>2, <2>1 DEF TypeOK, Whole
<1>4. OneCommand(c)
  BY <1>3 DEF IInv
<1>5. CASE connect(c)
  BY <1>0, <1>4, <1>5 DEF connect, TypeOK, OneCommand, Fits
<1>6. CASE exit(c)
  <2>1. /\ client'[c] = "gone"
        /\ UNCHANGED <<posted, got, session, parsed, response>>
    BY <1>0, <1>6 DEF exit, TypeOK
  <2>2. session[c] # "closed" => request'[c] \in {<<>>, request[c]}
    <3>1. ASSUME session[c] # "closed", request[c] # <<>>
          PROVE  SubSeq(request[c], 1, Len(request[c]) - 1) = <<>>
      <4>1. request[c] = <<posted[c]>>
        BY <1>4, <3>1 DEF OneCommand
      <4> QED BY <4>1, SubSeqEmpty
    <3> QED BY <1>0, <1>6, <3>1 DEF exit, TypeOK
  <2>3. request[c] = <<>> => request'[c] = <<>>
    BY <1>0, <1>6 DEF exit, TypeOK
  <2> QED BY <1>4, <2>1, <2>2, <2>3 DEF OneCommand, Fits
<1>7. ASSUME NEW size \in Sizes, post(c, size) PROVE OneCommand(c)'
  <2>1. /\ client[c] = "idle" /\ client'[c] = "posting" /\ session[c] # "closed"
        /\ request'[c] = Append(request[c], posted'[c])
        /\ UNCHANGED <<got, session, parsed, response>>
    BY <1>0, <1>7 DEF post, next_command, TypeOK
  <2>2. request'[c] = <<posted'[c]>>
    BY <1>4, <2>1, OneMessage DEF OneCommand
  <2> QED BY <1>4, <2>1, <2>2 DEF OneCommand, Fits
<1>8. ASSUME NEW size \in Sizes, send_fails(c, size) PROVE OneCommand(c)'
  <2>1. /\ client[c] = "idle" /\ got'[c] = Failure
        /\ UNCHANGED <<client, session, request, parsed, response>>
    BY <1>0, <1>8 DEF send_fails, next_command, TypeOK
  <2> QED BY <1>4, <2>1 DEF OneCommand, Fits
<1>9. CASE post_return(c)
  <2>1. /\ client[c] = "posting" /\ client'[c] = "idle"
        /\ UNCHANGED <<posted, session, request, parsed>>
    BY <1>0, <1>9 DEF post_return, TypeOK
  <2>2. CASE response[c] # <<>> /\ got'[c] = Head(response[c])
                                /\ response'[c] = Tail(response[c])
    <3>1. got'[c] = parsed[c] /\ response'[c] = <<>> /\ request[c] = <<>>
      BY <1>4, <2>1, <2>2, OneMessage DEF OneCommand
    <3> QED BY <1>4, <2>1, <2>2, <3>1 DEF OneCommand, Fits
  <2>3. CASE /\ response[c] = <<>> /\ session[c] = "closed"
             /\ got'[c] = Failure /\ UNCHANGED response
    BY <1>4, <2>1, <2>3 DEF OneCommand, Fits
  <2> QED BY <1>0, <1>9, <2>2, <2>3 DEF post_return, TypeOK
<1>10. ~recv_fails(c) /\ ~recv_stray(c)
  <2>1. "answer" \notin cut[c] /\ "answer" \notin cut'[c]
    BY <1>2, <1>3 DEF Whole
  <2>2. recv_fails(c) => "answer" \in cut'[c]
    BY <1>0 DEF recv_fails, TypeOK
  <2>3. recv_stray(c) => "answer" \in cut[c]
    BY DEF recv_stray
  <2> QED BY <2>1, <2>2, <2>3
<1> QED BY <1>5, <1>6, <1>7, <1>8, <1>9, <1>10 DEF Client, Application

(* What the session does. *)
LEMMA SessionIInv ==
    ASSUME IInv, NEW c \in Clients, Completion(c) \/ stray_received(c)
    PROVE  IInv'
<1>0. TypeOK /\ TypeOK'
  BY SessionType DEF IInv
<1>1. \A d \in Clients \ {c} :
         /\ client'[d] = client[d] /\ posted'[d] = posted[d] /\ got'[d] = got[d]
         /\ session'[d] = session[d] /\ request'[d] = request[d]
         /\ parsed'[d] = parsed[d] /\ response'[d] = response[d] /\ cut'[d] = cut[d]
  <2>1. ASSUME NEW n, parse(c, n)
        PROVE  \A d \in Clients \ {c} : session'[d] = session[d] /\ parsed'[d] = parsed[d]
    BY <1>0, <2>1 DEF parse, stop, TypeOK
  <2> QED BY <1>0, <2>1 DEF TypeOK, Completion, new_session, header_received, stop,
              command_received, stray_received, write_response, response_sent
<1>2. UNCHANGED <<client, posted, got, cut>>
  BY DEF Completion, new_session, header_received, command_received, stray_received,
         write_response, response_sent
<1>3. SUFFICES ASSUME Whole(c) PROVE OneCommand(c)'
  BY <1>0, <1>1, <1>2, OtherConnections DEF Whole
<1>4. OneCommand(c)
  BY <1>3 DEF IInv
<1>5. CASE new_session(c)
  BY <1>0, <1>4, <1>5 DEF new_session, TypeOK, OneCommand, Fits
<1>6. CASE header_received(c)
  <2>1. session[c] = "header" /\ UNCHANGED <<request, parsed, response>>
    BY <1>6 DEF header_received
  <2>2. CASE request[c] # <<>> /\ session'[c] = "command"
    BY <1>2, <1>4, <2>1, <2>2 DEF OneCommand, Fits
  <2>3. CASE client[c] = "gone" /\ session'[c] = "closed"
    BY <1>2, <1>4, <2>1, <2>3 DEF OneCommand, Fits
  <2> QED BY <1>0, <1>6, <2>2, <2>3 DEF header_received, InStep, AtEnd, stop, TypeOK
<1>7. CASE command_received(c)
  <2>1. session[c] = "command" /\ UNCHANGED response
    BY <1>7 DEF command_received
  <2>2. client[c] # "idle" /\ client[c] # "new" /\ response[c] = <<>>
    BY <1>4, <2>1 DEF OneCommand
  <2>3. CASE session'[c] = "closed" /\ UNCHANGED <<request, parsed>>
    BY <1>2, <1>4, <2>1, <2>2, <2>3 DEF OneCommand, Fits
  <2>4. ASSUME request[c] # <<>>, request' = [request EXCEPT ![c] = Tail(@)],
               NEW n \in ParseOutcomes(Head(request[c]), large'[c]), parse(c, n)
        PROVE  OneCommand(c)'
    <3>1. Head(request[c]) = posted[c] /\ request'[c] = <<>>
      BY <1>0, <1>4, <2>1, <2>4, OneMessage DEF OneCommand, TypeOK
    <3>2. Fits(c) => n = posted[c].n
      BY <1>0, <2>4, <3>1 DEF ParseOutcomes, Fits, TypeOK, RECV_BUFSZ
    <3>3. CASE session'[c] = "closed"
      BY <1>2, <2>1, <2>2, <3>1, <3>3 DEF OneCommand, Fits
    <3>4. CASE parsed'[c] = n /\ session'[c] \in {"handling", "writing"}
      BY <1>2, <2>1, <2>2, <3>1, <3>2, <3>4 DEF OneCommand, Fits
    <3> QED BY <1>0, <2>4, <3>3, <3>4 DEF parse, stop, TypeOK
  <2> QED BY <1>0, <1>7, <2>3, <2>4 DEF command_received, InStep, stop, TypeOK
<1>8. ~stray_received(c)
  BY <1>3 DEF stray_received, Whole
<1>9. CASE write_response(c)
  BY <1>0, <1>4, <1>9 DEF write_response, TypeOK, OneCommand, Fits
<1>10. CASE response_sent(c)
  <2>1. session[c] = "writing" /\ UNCHANGED <<request, parsed>>
    BY <1>10 DEF response_sent
  <2>2. /\ request[c] = <<>> /\ response[c] = <<>> /\ (Fits(c) => parsed[c] = posted[c].n)
        /\ client[c] \notin {"new", "idle"}
    BY <1>4, <2>1 DEF OneCommand
  <2>3. CASE response'[c] = Append(response[c], parsed[c]) /\ session'[c] = "header"
    <3>1. response'[c] = <<parsed[c]>>
      BY <2>2, <2>3, OneMessage
    <3> QED BY <1>2, <2>1, <2>2, <2>3, <3>1, OneMessage DEF OneCommand, Fits
  <2>4. CASE client[c] = "gone" /\ session'[c] = "closed" /\ UNCHANGED response
    BY <1>2, <2>1, <2>2, <2>4 DEF OneCommand, Fits
  <2> QED BY <1>0, <1>10, <2>3, <2>4 DEF response_sent, stop, TypeOK
<1> QED BY <1>5, <1>6, <1>7, <1>8, <1>9, <1>10 DEF Completion

LEMMA NextIInv == IInv /\ [Next]_vars => IInv'
<1> SUFFICES ASSUME IInv, [Next]_vars PROVE IInv'
  OBVIOUS
<1>1. ASSUME NEW c \in Clients, Client(c) \/ Completion(c) \/ stray_received(c)
      PROVE  IInv'
  BY <1>1, ClientIInv, SessionIInv
<1>2. CASE UNCHANGED vars
  BY <1>2 DEF vars, IInv, TypeOK, OneCommand, Fits, Whole
<1> QED BY <1>1, <1>2 DEF Next

(* Sessions, clients and the threads in use keep their types, stray bytes or not: no
   session is left in a state that header_received, command_received, write_response
   and response_sent do not know, and a thread of the pool is busy exactly while a
   session of its own handles a command. *)
THEOREM TypeTheorem == Spec => []TypeOK
BY InitIInv, NextIInv, IInvImplies, PTL DEF Spec

(* Until send() or recv() has failed in some call on the connection, post() of a
   command that fits into rcv_buf_ returns the response to it, or fails: no response of
   an earlier command is read in its place, although clients may vanish and sessions
   may be closed at any time. *)
THEOREM OwnResponseTheorem == Spec => []OwnResponse
BY InitIInv, NextIInv, IInvImplies, PTL DEF Spec

(* Until a call has failed halfway on the connection, command_received dispatches a
   command that fits into rcv_buf_ exactly as the client sent it, whatever came before
   it. *)
THEOREM FittingIntactTheorem == Spec => []FittingIntact
BY InitIInv, NextIInv, IInvImplies, PTL DEF Spec

------------------------------------------------------------------------------
(* Fewer clients than threads leave a thread free: a session blocks at most one. *)
LEMMA ThreadFree ==
    ASSUME TypeOK, IsFiniteSet(Clients), Cardinality(Clients) < Threads
    PROVE  FreeThread
<1>1. busy \in SUBSET Clients
  BY DEF TypeOK
<1>2. /\ Cardinality(busy) <= Cardinality(Clients)
      /\ Cardinality(busy) \in Nat /\ Cardinality(Clients) \in Nat
  BY <1>1, FS_Subset, FS_CardinalityType
<1> QED BY <1>2 DEF FreeThread

(* With fewer clients than threads of the pool, a post() in progress on a whole
   connection always has its response, the end of its connection or a handler that can
   run before it: nothing that a handler awaits (header_received, command_received) is
   missing, and dispatch never blocks the last thread. *)
THEOREM NeverStuckTheorem ==
    ASSUME IsFiniteSet(Clients), Cardinality(Clients) < Threads
    PROVE  Spec => []NeverStuck
<1>1. IInv => NeverStuck
  <2> SUFFICES ASSUME IInv, NEW c \in Clients, Whole(c), client[c] = "posting",
                      response[c] = <<>>, session[c] # "closed"
               PROVE  /\ FreeThread
                      /\ session[c] \in {"header", "command"} => request[c] # <<>>
    BY DEF NeverStuck
  <2>1. FreeThread
    BY ThreadFree DEF IInv
  <2>2. OneCommand(c)
    BY DEF IInv
  <2> QED BY <2>1, <2>2, OneMessage DEF OneCommand
<1> QED BY <1>1, InitIInv, NextIInv, PTL DEF Spec

------------------------------------------------------------------------------
(* The refinement holds for every connection, whole or not, and so it needs types only.
   A step on one connection leaves the commands and the answers of the others as they
   are: it is enough to look at its own. *)
LEMMA RemoteState ==
    ASSUME NEW c \in Clients, NEW p, NEW a,
           \A d \in Clients \ {c} :
              /\ session'[d] = session[d] /\ request'[d] = request[d]
              /\ parsed'[d] = parsed[d] /\ response'[d] = response[d],
           p = (IF session'[c] = "closed" THEN <<>> ELSE request'[c]),
           a = (IF session'[c] \in {"handling", "writing"}
                THEN Append(response'[c], parsed'[c]) ELSE response'[c])
    PROVE  /\ Pending' = [Pending EXCEPT ![c] = p]
           /\ Answer' = [Answer EXCEPT ![c] = a]
<1>1. Pending' = [Pending EXCEPT ![c] = p]
  BY DEF Pending
<1>2. Answer' = [Answer EXCEPT ![c] = a]
  BY DEF Answer
<1> QED BY <1>1, <1>2

LEMMA RemoteSame ==
    ASSUME NEW c \in Clients
    PROVE  /\ Pending[c] = (IF session[c] = "closed" THEN <<>> ELSE request[c])
           /\ Answer[c] = (IF session[c] \in {"handling", "writing"}
                           THEN Append(response[c], parsed[c]) ELSE response[c])
           /\ Pending = [Pending EXCEPT ![c] = Pending[c]]
           /\ Answer = [Answer EXCEPT ![c] = Answer[c]]
BY DEF Pending, Answer

LEMMA RemoteInit == Init => Remote!Init
BY DEF Init, Remote!Init, Pending, Answer

(* An answer that its session still has follows those already sent. *)
LEMMA LastAnswer ==
    ASSUME NEW s \in Seq(Reply), NEW e \in Reply
    PROVE  /\ Append(s, e) # <<>>
           /\ SubSeq(Append(s, e), 1, Len(Append(s, e)) - 1) = s
           /\ s # <<>> => /\ Head(Append(s, e)) = Head(s)
                          /\ Tail(Append(s, e)) = Append(Tail(s), e)
           /\ \A k \in 0 .. Len(s) :
                 /\ k \in 0 .. Len(Append(s, e))
                 /\ Rest(Append(s, e), k) = Append(Rest(s, k), e)
<1> DEFINE t == Append(s, e)
<1>1. /\ t \in Seq(Reply) /\ t # <<>> /\ Len(t) = Len(s) + 1 /\ Len(s) \in Nat
      /\ \A i \in 1 .. Len(s) : t[i] = s[i] /\ s[i] \in Reply
      /\ t[Len(s) + 1] = e
  BY AppendProperties, LenProperties, ElementOfSeq
<1> HIDE DEF t
<1>2. SubSeq(t, 1, Len(t) - 1) = s
  <2>1. \A i \in 1 .. Len(t) - 1 : t[i] \in Reply
    BY <1>1
  <2>2. /\ SubSeq(t, 1, Len(t) - 1) \in Seq(Reply)
        /\ Len(SubSeq(t, 1, Len(t) - 1)) = IF 1 <= Len(t) - 1 THEN Len(t) - 1 - 1 + 1 ELSE 0
        /\ \A i \in 1 .. Len(t) - 1 - 1 + 1 : SubSeq(t, 1, Len(t) - 1)[i] = t[1 + i - 1]
    BY <1>1, <2>1, SubSeqProperties
  <2>3. /\ Len(SubSeq(t, 1, Len(t) - 1)) = Len(s)
        /\ \A i \in 1 .. Len(s) : SubSeq(t, 1, Len(t) - 1)[i] = s[i]
    BY <1>1, <2>2
  <2> QED BY <2>2, <2>3, SeqEqual
<1>3. s # <<>> => Head(t) = Head(s) /\ Tail(t) = Append(Tail(s), e)
  BY HeadTailAppend DEF t
<1>4. ASSUME NEW k \in 0 .. Len(s)
      PROVE  k \in 0 .. Len(t) /\ Rest(t, k) = Append(Rest(s, k), e)
  <2> DEFINE u == Rest(s, k)
             v == Rest(t, k)
  <2>1. \A i \in k + 1 .. Len(s) : s[i] \in Reply
    BY <1>1
  <2>2. \A i \in k + 1 .. Len(t) : t[i] \in Reply
    BY <1>1
  <2>3. /\ u \in Seq(Reply)
        /\ Len(u) = Len(s) - k
        /\ \A i \in 1 .. Len(s) - k : u[i] = s[k + i]
    <3>1. /\ SubSeq(s, k + 1, Len(s)) \in Seq(Reply)
          /\ Len(SubSeq(s, k + 1, Len(s))) =
                IF k + 1 <= Len(s) THEN Len(s) - (k + 1) + 1 ELSE 0
          /\ \A i \in 1 .. Len(s) - (k + 1) + 1 : SubSeq(s, k + 1, Len(s))[i] = s[k + 1 + i - 1]
      BY <1>1, <2>1, SubSeqProperties
    <3> QED BY <1>1, <3>1 DEF Rest
  <2>4. /\ v \in Seq(Reply)
        /\ Len(v) = Len(s) - k + 1
        /\ \A i \in 1 .. Len(s) - k + 1 : v[i] = t[k + i]
    <3>1. /\ SubSeq(t, k + 1, Len(t)) \in Seq(Reply)
          /\ Len(SubSeq(t, k + 1, Len(t))) =
                IF k + 1 <= Len(t) THEN Len(t) - (k + 1) + 1 ELSE 0
          /\ \A i \in 1 .. Len(t) - (k + 1) + 1 : SubSeq(t, k + 1, Len(t))[i] = t[k + 1 + i - 1]
      BY <1>1, <2>2, SubSeqProperties
    <3> QED BY <1>1, <3>1 DEF Rest
  <2> HIDE DEF u, v
  <2>5. /\ Append(u, e) \in Seq(Reply) /\ Len(Append(u, e)) = Len(u) + 1
        /\ \A i \in 1 .. Len(u) : Append(u, e)[i] = u[i]
        /\ Append(u, e)[Len(u) + 1] = e
    BY <2>3, AppendProperties
  <2>6. ASSUME NEW i \in 1 .. Len(v) PROVE v[i] = Append(u, e)[i]
    <3>1. CASE i \in 1 .. Len(s) - k
      <4>1. k + i \in 1 .. Len(s)
        BY <1>1, <3>1
      <4> QED BY <1>1, <2>3, <2>4, <2>5, <3>1, <4>1
    <3>2. CASE i = Len(s) - k + 1
      BY <1>1, <2>3, <2>4, <2>5, <3>2
    <3>3. Len(s) - k \in Nat /\ i \in 1 .. Len(s) - k + 1
      <4>1. Len(v) = Len(s) - k + 1
        BY <2>4
      <4> QED BY <1>1, <2>6, <4>1
    <3>4. i \in 1 .. Len(s) - k \/ i = Len(s) - k + 1
      BY <3>3
    <3> QED BY <3>1, <3>2, <3>4
  <2>7. v = Append(u, e)
    <3> DEFINE w == Append(u, e)
    <3>1. Len(v) = Len(w)
      BY <2>3, <2>4, <2>5
    <3>2. w \in Seq(Reply) /\ \A i \in 1 .. Len(v) : v[i] = w[i]
      BY <2>5, <2>6
    <3> HIDE DEF w
    <3>3. v = w
      BY <2>4, <3>1, <3>2, SeqEqual
    <3> QED BY <3>3 DEF w
  <2> QED BY <1>1, <2>7 DEF u, v
<1> QED BY <1>1, <1>2, <1>3, <1>4 DEF t

LEMMA RemoteClient ==
    ASSUME TypeOK, NEW c \in Clients, Client(c)
    PROVE  Remote!Next
<1>0. response[c] \in Seq(Reply) /\ parsed[c] \in Reply
  BY DEF TypeOK, Reply
<1>1. CASE connect(c)
  <2>1. Remote!Connect(c)
    BY <1>1 DEF connect, Remote!Connect, Pending, Answer
  <2> QED BY <2>1 DEF Remote!Next
<1>2. ASSUME NEW size \in Sizes, post(c, size) PROVE Remote!Next
  <2>1. /\ client[c] = "idle" /\ posted[c].n < MaxPosts[c]
        /\ posted' = [posted EXCEPT ![c] = [n |-> @.n + 1, size |-> size]]
        /\ session[c] # "closed" /\ client' = [client EXCEPT ![c] = "posting"]
        /\ request' = [request EXCEPT ![c] = Append(request[c], posted'[c])]
        /\ UNCHANGED <<got, session, parsed, response, cut>>
    BY <1>2 DEF post, next_command
  <2>2. Pending' = [Pending EXCEPT ![c] = Append(Pending[c], posted'[c])]
    BY <2>1, RemoteSame, RemoteState DEF TypeOK
  <2>3. Answer' = Answer
    BY <2>1 DEF Answer
  <2>4. Remote!Call(c, size)
    BY <2>1, <2>2, <2>3 DEF Remote!Call
  <2> QED BY <2>4 DEF Remote!Next
<1>3. ASSUME NEW size \in Sizes, send_fails(c, size) PROVE Remote!Next
  <2>1. /\ client[c] = "idle" /\ posted[c].n < MaxPosts[c]
        /\ posted' = [posted EXCEPT ![c] = [n |-> @.n + 1, size |-> size]]
        /\ got' = [got EXCEPT ![c] = Failure]
        /\ cut' \in {cut, [cut EXCEPT ![c] = @ \cup {"command"}]}
        /\ UNCHANGED <<client, session, request, parsed, response>>
    BY <1>3 DEF send_fails, next_command
  <2>2. Pending' = Pending /\ Answer' = Answer
    BY <2>1 DEF Pending, Answer
  <2>3. Remote!Call(c, size)
    BY <2>1, <2>2 DEF Remote!Call
  <2> QED BY <2>3 DEF Remote!Next
<1>4. CASE post_return(c)
  <2>1. /\ client[c] = "posting" /\ client' = [client EXCEPT ![c] = "idle"]
        /\ UNCHANGED <<posted, session, request, parsed, cut>>
    BY <1>4 DEF post_return
  <2>2. Pending' = Pending
    BY <2>1 DEF Pending
  <2>3. CASE /\ response[c] # <<>> /\ got' = [got EXCEPT ![c] = Head(response[c])]
             /\ response' = [response EXCEPT ![c] = Tail(response[c])]
    <3>1. /\ Answer[c] # <<>> /\ Head(Answer[c]) = Head(response[c])
          /\ Tail(Answer[c]) = IF session[c] \in {"handling", "writing"}
                               THEN Append(Tail(response[c]), parsed[c])
                               ELSE Tail(response[c])
      <4>1. CASE session[c] \in {"handling", "writing"}
        <5>1. Answer[c] = Append(response[c], parsed[c])
          BY <4>1, RemoteSame
        <5>2. /\ Append(response[c], parsed[c]) # <<>>
              /\ Head(Append(response[c], parsed[c])) = Head(response[c])
              /\ Tail(Append(response[c], parsed[c])) = Append(Tail(response[c]), parsed[c])
          <6>1. response[c] # <<>>
            BY <2>3
          <6> QED BY <1>0, <6>1, LastAnswer, Zenon
        <5> QED BY <4>1, <5>1, <5>2, Zenon
      <4>2. CASE session[c] \notin {"handling", "writing"}
        BY <2>3, <4>2, RemoteSame
      <4> QED BY <4>1, <4>2
    <3>2. Answer' = [Answer EXCEPT ![c] = Tail(Answer[c])]
      BY <2>1, <2>3, <3>1, RemoteSame, RemoteState DEF TypeOK
    <3> QED BY <2>1, <2>2, <2>3, <3>1, <3>2 DEF Remote!Return, Remote!Next
  <2>4. CASE /\ response[c] = <<>> /\ session[c] = "closed"
             /\ got' = [got EXCEPT ![c] = Failure] /\ UNCHANGED response
    <3>1. Answer' = Answer /\ Answer[c] = <<>> /\ Pending[c] = <<>>
      BY <2>1, <2>4 DEF Answer, Pending
    <3> QED BY <2>1, <2>2, <2>4, <3>1 DEF Remote!Return, Remote!Next
  <2> QED BY <1>4, <2>3, <2>4 DEF post_return
<1>5. CASE recv_fails(c)
  <2>1. Pending' = Pending /\ Answer' = Answer
    BY <1>5 DEF recv_fails, Pending, Answer
  <2>2. Remote!GiveUp(c)
    BY <1>5, <2>1 DEF recv_fails, Remote!GiveUp
  <2> QED BY <2>2 DEF Remote!Next
<1>6. CASE recv_stray(c)
  <2>1. PICK k \in 0 .. Len(response[c]) : response' = [response EXCEPT ![c] = Rest(@, k)]
    BY <1>6 DEF recv_stray
  <2>2. UNCHANGED <<session, request, parsed>>
    BY <1>6 DEF recv_stray
  <2>3. /\ k \in 0 .. Len(Answer[c])
        /\ Rest(Answer[c], k) = IF session[c] \in {"handling", "writing"}
                                THEN Append(Rest(response[c], k), parsed[c])
                                ELSE Rest(response[c], k)
    <3>1. CASE session[c] \in {"handling", "writing"}
      <4>1. Answer[c] = Append(response[c], parsed[c])
        BY <3>1, RemoteSame
      <4> QED BY <1>0, <3>1, <4>1, LastAnswer
    <3>2. CASE session[c] \notin {"handling", "writing"}
      BY <3>2, RemoteSame
    <3> QED BY <3>1, <3>2
  <2>4. Answer' = [Answer EXCEPT ![c] = Rest(Answer[c], k)]
    <3>1. /\ response'[c] = Rest(response[c], k)
          /\ \A d \in Clients \ {c} : response'[d] = response[d]
      BY <2>1 DEF TypeOK
    <3> QED BY <2>2, <2>3, <3>1, RemoteState
  <2>5. Pending' = Pending
    BY <2>2 DEF Pending
  <2>6. Remote!Misread(c)
    BY <1>6, <2>3, <2>4, <2>5 DEF recv_stray, Remote!Misread, Rest
  <2> QED BY <2>6 DEF Remote!Next
<1>7. CASE exit(c)
  <2>1. /\ client[c] \in {"idle", "posting"} /\ client' = [client EXCEPT ![c] = "gone"]
        /\ UNCHANGED <<posted, got, session, parsed, response, cut>>
    BY <1>7 DEF exit
  <2>2. Answer' = Answer
    BY <2>1 DEF Answer
  <2>3. CASE UNCHANGED request
    <3>1. Pending' = Pending
      BY <2>1, <2>3 DEF Pending
    <3> QED BY <2>1, <2>2, <3>1 DEF Remote!Exit, Remote!Next
  <2>4. CASE /\ client[c] = "posting" /\ request[c] # <<>>
             /\ request' = [request EXCEPT ![c] =
                               SubSeq(request[c], 1, Len(request[c]) - 1)]
    <3>1. CASE session[c] = "closed"
      <4>1. Pending' = Pending
        BY <2>1, <2>4, <3>1, RemoteSame, RemoteState DEF TypeOK
      <4> QED BY <2>1, <2>2, <4>1 DEF Remote!Exit, Remote!Next
    <3>2. CASE session[c] # "closed"
      <4>1. /\ Pending[c] # <<>>
            /\ Pending' = [Pending EXCEPT ![c] =
                              SubSeq(Pending[c], 1, Len(Pending[c]) - 1)]
        BY <2>1, <2>4, <3>2, RemoteSame, RemoteState DEF TypeOK
      <4> QED BY <2>1, <2>2, <2>4, <4>1 DEF Remote!Exit, Remote!Next
    <3> QED BY <3>1, <3>2
  <2> QED BY <1>7, <2>3, <2>4 DEF exit
<1> QED BY <1>1, <1>2, <1>3, <1>4, <1>5, <1>6, <1>7 DEF Client, Application

(* A handler executes a command, drops what is pending, discards an answer or changes
   nothing that a caller could tell. *)
LEMMA RemoteSession ==
    ASSUME TypeOK, NEW c \in Clients, Completion(c) \/ stray_received(c)
    PROVE  Remote!Next \/ UNCHANGED Remote!vars
<1>0. /\ response[c] \in Seq(Reply) /\ parsed[c] \in Reply /\ request[c] \in Seq(Message)
      /\ UNCHANGED <<client, posted, got, cut>>
  BY DEF TypeOK, Reply, Message, Completion, new_session, header_received, command_received,
         stray_received, write_response, response_sent
<1>1. ASSUME UNCHANGED Answer, Pending' \in {Pending, [Pending EXCEPT ![c] = <<>>]}
      PROVE  Remote!Next \/ UNCHANGED Remote!vars
  <2>1. CASE Pending[c] = <<>> \/ Pending' = Pending
    BY <1>0, <1>1, <2>1, RemoteSame DEF Remote!vars
  <2>2. CASE Pending[c] # <<>> /\ Pending' = [Pending EXCEPT ![c] = <<>>]
    <3>1. Remote!Drop(c)
      BY <1>0, <1>1, <2>2 DEF Remote!Drop
    <3> QED BY <3>1 DEF Remote!Next
  <2> QED BY <1>1, <2>1, <2>2
<1>2. ASSUME NEW r, request' = [request EXCEPT ![c] = r], UNCHANGED <<parsed, response>>,
             session[c] \in {"listening", "header", "command"},
             session' = [session EXCEPT ![c] = "closed"]
      PROVE  Remote!Next \/ UNCHANGED Remote!vars
  <2>1. Pending' = [Pending EXCEPT ![c] = <<>>] /\ Answer' = Answer
    <3>1. Pending' = [Pending EXCEPT ![c] = <<>>]
      BY <1>2 DEF Pending, TypeOK
    <3>2. Answer' = Answer
      BY <1>2 DEF Answer, TypeOK
    <3> QED BY <3>1, <3>2
  <2> QED BY <1>1, <2>1
<1>3. ASSUME NEW n, UNCHANGED response, n # Failure, parse(c, n),
             session[c] \in {"header", "command"},
             NEW r, request' = [request EXCEPT ![c] = r]
      PROVE  /\ Pending[c] = request[c] /\ Pending' = [Pending EXCEPT ![c] = r]
             /\ Answer' = [Answer EXCEPT ![c] = Append(Answer[c], n)]
  <2>1. /\ parsed' = [parsed EXCEPT ![c] = n]
        /\ \/ session' = [session EXCEPT ![c] = "writing"]
           \/ session' = [session EXCEPT ![c] = "handling"]
    BY <1>3 DEF parse
  <2>2. /\ session'[c] \in {"handling", "writing"} /\ parsed'[c] = n /\ request'[c] = r
        /\ \A d \in Clients \ {c} :
              /\ session'[d] = session[d] /\ request'[d] = request[d]
              /\ parsed'[d] = parsed[d] /\ response'[d] = response[d]
    BY <1>3, <2>1 DEF TypeOK
  <2>3. Pending[c] = request[c] /\ Answer[c] = response[c]
    BY <1>3, RemoteSame
  <2> DEFINE a == Append(Answer[c], n)
  <2>4. /\ r = (IF session'[c] = "closed" THEN <<>> ELSE request'[c])
        /\ a = (IF session'[c] \in {"handling", "writing"}
                THEN Append(response'[c], parsed'[c]) ELSE response'[c])
    BY <1>3, <2>2, <2>3
  <2> HIDE DEF a
  <2>5. Pending' = [Pending EXCEPT ![c] = r] /\ Answer' = [Answer EXCEPT ![c] = a]
    BY <2>2, <2>4, RemoteState
  <2> QED BY <2>3, <2>5 DEF a
<1>4. CASE new_session(c)
  <2>1. /\ session[c] = "listening" /\ UNCHANGED <<request, parsed, response>>
        /\ \/ session' = [session EXCEPT ![c] = "header"]
           \/ session' = [session EXCEPT ![c] = "closed"]
    BY <1>4 DEF new_session
  <2>2. CASE session' = [session EXCEPT ![c] = "header"]
    <3>1. Pending' = Pending
      BY <2>1, <2>2 DEF Pending, TypeOK
    <3>2. Answer' = Answer
      BY <2>1, <2>2 DEF Answer, TypeOK
    <3> QED BY <1>1, <3>1, <3>2
  <2>3. request' = [request EXCEPT ![c] = request[c]]
    BY <2>1 DEF TypeOK
  <2> QED BY <1>2, <2>1, <2>2, <2>3
<1>5. CASE header_received(c)
  <2>1. /\ session[c] = "header" /\ UNCHANGED <<request, parsed, response>>
        /\ \/ session' = [session EXCEPT ![c] = "command"]
           \/ session' = [session EXCEPT ![c] = "closed"]
    BY <1>5 DEF header_received, stop
  <2>2. CASE session' = [session EXCEPT ![c] = "command"]
    <3>1. Pending' = Pending
      BY <2>1, <2>2 DEF Pending, TypeOK
    <3>2. Answer' = Answer
      BY <2>1, <2>2 DEF Answer, TypeOK
    <3> QED BY <1>1, <3>1, <3>2
  <2>3. request' = [request EXCEPT ![c] = request[c]]
    BY <2>1 DEF TypeOK
  <2> QED BY <1>2, <2>1, <2>2, <2>3
<1>6. CASE command_received(c)
  <2>1. session[c] = "command" /\ UNCHANGED response
    BY <1>6 DEF command_received
  <2>2. CASE stop(c) /\ UNCHANGED <<request, parsed>>
    <3>1. request' = [request EXCEPT ![c] = request[c]]
      BY <2>2 DEF TypeOK
    <3> QED BY <1>2, <2>1, <2>2, <3>1 DEF stop
  <2>3. ASSUME InStep(c), request' = [request EXCEPT ![c] = Tail(request[c])],
               NEW n \in ParseOutcomes(Head(request[c]), large'[c]), parse(c, n)
        PROVE  Remote!Next \/ UNCHANGED Remote!vars
    <3>1. CASE n = Failure
      BY <1>2, <2>1, <2>3, <3>1 DEF parse, stop
    <3>2. CASE n # Failure
      <4>1. Head(request[c]) \in Message
        BY <1>0, <2>3, Streams DEF InStep
      <4>2. n \in Remote!Answers(Head(request[c]))
        BY <2>3, <3>2, <4>1 DEF ParseOutcomes, Remote!Answers, RECV_BUFSZ, Message
      <4>3. /\ Pending[c] = request[c]
            /\ Pending' = [Pending EXCEPT ![c] = Tail(Pending[c])]
            /\ Answer' = [Answer EXCEPT ![c] = Append(Answer[c], n)]
        BY <1>3, <2>1, <2>3, <3>2
      <4>4. Remote!Execute(c)
        BY <1>0, <2>3, <4>2, <4>3 DEF InStep, Remote!Execute
      <4> QED BY <4>4 DEF Remote!Next
    <3> QED BY <3>1, <3>2
  <2> QED BY <1>6, <2>2, <2>3 DEF command_received
<1>7. CASE stray_received(c)
  <2>1. PICK k \in 1 .. Len(request[c]) :
            request' = [request EXCEPT ![c] = Rest(request[c], k)]
    BY <1>7 DEF stray_received
  <2>2. PICK n \in {Head(request[c]).n, Garbage, Failure} : parse(c, n)
    BY <1>7 DEF stray_received
  <2>3. /\ session[c] \in {"header", "command"} /\ "command" \in cut[c]
        /\ UNCHANGED response
    BY <1>7 DEF stray_received
  <2>4. CASE n = Failure
    BY <1>2, <2>1, <2>2, <2>3, <2>4 DEF parse, stop
  <2>5. CASE n # Failure
    <3>1. /\ Pending[c] = request[c]
          /\ Pending' = [Pending EXCEPT ![c] = Rest(Pending[c], k)]
          /\ Answer' = [Answer EXCEPT ![c] = Append(Answer[c], n)]
      BY <1>3, <2>1, <2>2, <2>3, <2>5
    <3>2. Remote!ExecuteStray(c)
      BY <1>0, <2>1, <2>2, <2>3, <2>5, <3>1 DEF Remote!ExecuteStray, Rest
    <3> QED BY <3>2 DEF Remote!Next
  <2> QED BY <2>4, <2>5
<1>8. CASE write_response(c)
  <2>1. /\ session[c] = "handling" /\ session' = [session EXCEPT ![c] = "writing"]
        /\ UNCHANGED <<request, parsed, response>>
    BY <1>8 DEF write_response
  <2>2. Answer' = Answer /\ Pending' = Pending
    BY <2>1 DEF Answer, Pending, TypeOK
  <2> QED BY <1>1, <2>2
<1>9. CASE response_sent(c)
  <2>1. session[c] = "writing" /\ UNCHANGED <<request, parsed>>
    BY <1>9 DEF response_sent
  <2>2. CASE /\ response' = [response EXCEPT ![c] = Append(response[c], parsed[c])]
             /\ session' = [session EXCEPT ![c] = "header"]
    <3>1. Answer' = Answer /\ Pending' = Pending
      BY <2>1, <2>2 DEF Answer, Pending, TypeOK
    <3> QED BY <1>1, <3>1
  <2>3. CASE client[c] = "gone" /\ stop(c) /\ UNCHANGED response
    <3>1. /\ Pending' = [Pending EXCEPT ![c] = <<>>]
          /\ Answer' = [Answer EXCEPT ![c] = response[c]]
      BY <2>1, <2>3, RemoteSame, RemoteState DEF stop, TypeOK
    <3>2. /\ Answer[c] # <<>>
          /\ SubSeq(Answer[c], 1, Len(Answer[c]) - 1) = response[c]
      BY <1>0, <2>1, RemoteSame, LastAnswer
    <3>3. Remote!Discard(c)
      BY <1>0, <2>3, <3>1, <3>2 DEF Remote!Discard
    <3> QED BY <3>3 DEF Remote!Next
  <2> QED BY <1>9, <2>2, <2>3 DEF response_sent
<1> QED BY <1>4, <1>5, <1>6, <1>7, <1>8, <1>9 DEF Completion

LEMMA RemoteStep == TypeOK /\ [Next]_vars => [Remote!Next]_(Remote!vars)
<1> SUFFICES ASSUME TypeOK, [Next]_vars PROVE [Remote!Next]_(Remote!vars)
  OBVIOUS
<1>1. ASSUME NEW c \in Clients, Client(c) \/ Completion(c) \/ stray_received(c)
      PROVE  Remote!Next \/ UNCHANGED Remote!vars
  BY <1>1, RemoteClient, RemoteSession
<1>2. CASE UNCHANGED vars
  BY <1>2 DEF vars, Remote!vars, Pending, Answer
<1> QED BY <1>1, <1>2 DEF Next

(* The daemon keeps the promise of post(), for any number of clients and threads and
   commands of any size, calls that fail halfway included: commands are dispatched in
   order, once or never, a post() takes the next response, and one that fails because
   the connection has ended had its command not dispatched; one that fails in send() or
   recv() knows nothing, and from then on the responses may be those of earlier commands
   (session.cc from header_received to response_sent, AttGuardClient::post). *)
THEOREM CallsTheorem == Spec => KeepsCalls
BY TypeTheorem, RemoteInit, RemoteStep, PTL DEF Spec, KeepsCalls, Remote!Spec
===============================================================================
