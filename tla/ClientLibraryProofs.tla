------------------------- MODULE ClientLibraryProofs -------------------------
(***************************************************************************)
(* What liblatte returns, for every set of entry points and any number of  *)
(* calls, redials, lost connections and cut-off reads.  The types hold for *)
(* any number of threads.  That a result belongs to the caller's own       *)
(* command holds for one thread, on a connection that was never cut short: *)
(* what is unread on it is then the response to the command in progress.   *)
(***************************************************************************)
EXTENDS ClientLibrary, SequenceTheorems, TLAPS

USE InUseAssumption, MaxCallsAssumption

------------------------------------------------------------------------------
(* The values that entry points return. *)
LEMMA ReturnsType ==
    ASSUME NEW e, NEW answer
    PROVE  returns(e, answer) \in {-1, 0, 1, EMPTY}
BY DEF returns, status_int, extract, NULL

(* A made up status(false) is never a yes. *)
LEMMA FalseIsNo ==
    ASSUME NEW e
    PROVE  returns(e, "false") = 0
BY DEF returns, status_int, extract, NULL

LEMMA RefusedIsNo ==
    ASSUME NEW e \in Entries
    PROVE  /\ uninitialized(e) \in {-1, 0}
           /\ invalid(e) \subseteq {-EINVAL, -1, 0, EINVAL}
BY DEF uninitialized, invalid, NULL, EINVAL

LEMMA AnswersType ==
    ASSUME NEW cmd, NEW reply
    PROVE  answers(cmd, reply) \subseteq {"true", "false", "config", "attestation", "empty"}
BY DEF answers, attestation_of, status_of

(* The commands whose answer is a status. *)
StatusCommands == (CallCommands \ {"CHECK_ATTESTATION"}) \cup Lasting
                     \cup {"GET_PRINCIPAL", "ENDORSE_PRINCIPAL"}

LEMMA StatusAnswers ==
    ASSUME NEW cmd \in StatusCommands, NEW reply, NEW answer \in answers(cmd, reply)
    PROVE  answer \in {"true", "false"}
BY DEF StatusCommands, Lasting, answers, status_of, CallCommands, SinkCommands,
       JsonCommands, CheckCommands

LEMMA StatusEntriesSend ==
    ASSUME NEW e \in Entries,
           e \notin PointerEntries \cup CreateEntries \cup {"get_metadata_config_easy"}
    PROVE  command_of(e) \in StatusCommands
BY DEF Entries, PointerEntries, CreateEntries, StatusEntries, RawEntries, Unimplemented,
       command_of, StatusCommands, Lasting, CallCommands, SinkCommands, JsonCommands,
       CheckCommands

LEMMA CallAnswers ==
    ASSUME NEW cmd \in CallCommands \ {"CHECK_ATTESTATION"},
           NEW reply \in replies(cmd), NEW answer \in answers(cmd, reply)
    PROVE  answer = status_of(call(cmd, reply)) /\ reply \in Replies
<1>1. cmd \notin {"CHECK_ATTESTATION", "CREATE_PRINCIPAL", "DELETE_PRINCIPAL", "GET_METADATA_CONFIG"}
  BY DEF CallCommands, SinkCommands, JsonCommands, CheckCommands
<1> QED BY <1>1 DEF answers, replies

(* The metadata service has backed every status(true) and every attestation that is
   not empty. *)
LEMMA YesIsBacked ==
    ASSUME NEW cmd \in CallCommands, NEW reply \in replies(cmd),
           NEW answer \in answers(cmd, reply), answer \notin {"false", "empty"}
    PROVE  reply \in Backing(cmd)
<1>2. CASE cmd \in SinkCommands
  <2>1. cmd \notin JsonCommands \cup CheckCommands \cup {"GUARD_CALL", "CHECK_ATTESTATION"}
    BY <1>2 DEF SinkCommands, JsonCommands, CheckCommands
  <2>2. answer = status_of(call(cmd, reply)) /\ reply \in Replies
    BY <1>2, <2>1, CallAnswers DEF CallCommands
  <2>3. call(cmd, reply) = sink_task(reply)
    BY <1>2, <2>1 DEF call
  <2> QED BY <1>2, <2>1, <2>2, <2>3 DEF status_of, sink_task, Backing
<1>3. CASE cmd \in JsonCommands
  <2>1. cmd \notin SinkCommands \cup CheckCommands \cup {"GUARD_CALL", "CHECK_ATTESTATION"}
    BY <1>3 DEF SinkCommands, JsonCommands, CheckCommands
  <2>2. answer = status_of(call(cmd, reply)) /\ reply \in Replies
    BY <1>3, <2>1, CallAnswers DEF CallCommands
  <2>3. call(cmd, reply) = json_task(reply)
    BY <1>3, <2>1 DEF call
  <2> QED BY <1>3, <2>1, <2>2, <2>3 DEF status_of, json_task, Backing, Replies
<1>4. CASE cmd \in CheckCommands
  <2>1. cmd \notin SinkCommands \cup JsonCommands \cup {"GUARD_CALL", "CHECK_ATTESTATION"}
    BY <1>4 DEF SinkCommands, JsonCommands, CheckCommands
  <2>2. answer = status_of(call(cmd, reply)) /\ reply \in Replies
    BY <1>4, <2>1, CallAnswers DEF CallCommands
  <2>3. call(cmd, reply) = check_task(reply)
    BY <1>4, <2>1 DEF call
  <2> QED BY <1>4, <2>1, <2>2, <2>3 DEF status_of, check_task, json_task, Backing, Replies
<1>5. CASE cmd = "GUARD_CALL"
  <2>1. answer = status_of(guard_task(reply)) /\ reply \in Replies
    BY <1>5 DEF answers, call, replies, CallCommands, SinkCommands, JsonCommands,
                CheckCommands
  <2> QED BY <1>5, <2>1 DEF status_of, guard_task, check_task, json_task, Backing, Replies,
                            CheckCommands
<1>6. CASE cmd = "CHECK_ATTESTATION"
  <2>1. json_task(reply) = "true" /\ reply \in Replies
    BY <1>6 DEF answers, attestation_of, replies, CallCommands
  <2> QED BY <1>6, <2>1 DEF json_task, Backing, Replies, CheckCommands, JsonCommands
<1> QED BY <1>2, <1>3, <1>4, <1>5, <1>6 DEF CallCommands

(* What an entry point makes of the answer to its own command: yes, no or a pointer to
   nothing, a yes only for a yes. *)
LEMMA OwnAnswer ==
    ASSUME NEW e \in Entries, NEW reply, NEW answer \in answers(command_of(e), reply)
    PROVE  /\ returns(e, answer) \in {0, 1, EMPTY}
           /\ returns(e, answer) \in {1, EMPTY} => answer # "false"
           /\ returns(e, answer) = 1 /\ command_of(e) \in CallCommands => answer # "empty"
<1>1. returns(e, answer) \in {1, EMPTY} => answer # "false"
  BY FalseIsNo DEF EMPTY
<1>2. CASE e \in CreateEntries
  <2>1. command_of(e) \notin CallCommands
    BY <1>2 DEF command_of, CreateEntries, CallCommands, SinkCommands, JsonCommands,
                CheckCommands
  <2>2. returns(e, answer) \in {0, 1}
    BY <1>2 DEF returns, CreateEntries
  <2> QED BY <1>1, <2>1, <2>2
<1>3. CASE e \in PointerEntries \cup {"get_metadata_config_easy"}
  BY <1>1, <1>3 DEF returns, extract, NULL, EMPTY, PointerEntries, CreateEntries
<1>4. CASE e \notin PointerEntries \cup CreateEntries \cup {"get_metadata_config_easy"}
  <2>1. answer \in {"true", "false"}
    BY <1>4, StatusEntriesSend, StatusAnswers
  <2>2. returns(e, answer) = status_int(answer)
    BY <1>4 DEF returns, PointerEntries, CreateEntries
  <2> QED BY <1>1, <2>1, <2>2 DEF status_int
<1> QED BY <1>2, <1>3, <1>4

------------------------------------------------------------------------------
(* The daemon's answers belong to the commands they were given for, and a call in
   progress to the command its thread has sent. *)
ServedInv ==
    \A n \in 1 .. Len(served) : served[n].answer # "false" =>
       /\ served[n].reply \in replies(sent[n].cmd)
       /\ served[n].answer \in answers(sent[n].cmd, served[n].reply)
CallInv ==
    \A t \in Threads :
       /\ pc[t] # "body" => expect[t] = 0
       /\ pc[t] # "idle" => entry[t] \in Entries
       /\ pc[t] # "idle" /\ mine[t] # 0 => sent[mine[t]].cmd = command_of(entry[t])
BaseInv == TypeOK /\ ServedInv /\ CallInv

LEMMA InitBase == Init => BaseInv
<1> SUFFICES ASSUME Init PROVE BaseInv
  OBVIOUS
<1> USE DEF Init
<1>1. TypeOK
  <2>1. sent \in Seq(Sent) /\ served \in Seq(Served) /\ stream \in Seq(Parts)
    BY EmptySeq
  <2>2. Len(sent) = 0 /\ Len(served) = 0
    OBVIOUS
  <2>3. /\ latte_client \in BOOLEAN /\ port_usage \in BOOLEAN /\ child_ports \in BOOLEAN
        /\ alive \in BOOLEAN /\ interrupted \in BOOLEAN
    OBVIOUS
  <2>4. posted \in 0 .. MaxCalls
    OBVIOUS
  <2>5. /\ mine \in [Threads -> 0 .. Len(sent)] /\ expect \in [Threads -> 0 .. Len(served)]
        /\ ret \in [Threads -> {-EINVAL, -1, 0, 1, EMPTY, EINVAL}]
        /\ entry \in [Threads -> Entries \cup {"init"}]
        /\ pc \in [Threads -> {"idle", "header", "body"}]
    BY <2>2
  <2> QED BY <2>1, <2>2, <2>3, <2>4, <2>5 DEF TypeOK
<1>2. ServedInv /\ CallInv
  BY DEF ServedInv, CallInv
<1> QED BY <1>1, <1>2 DEF BaseInv

(* The sequences have lengths. *)
LEMMA Lengths ==
    ASSUME TypeOK
    PROVE  /\ Len(sent) \in Nat /\ Len(served) \in Nat /\ Len(stream) \in Nat
           /\ \A n \in 1 .. Len(sent) : sent[n] \in Sent
           /\ \A n \in 1 .. Len(served) : served[n] \in Served
           /\ \A n \in 1 .. Len(stream) : stream[n] \in Parts
BY DEF TypeOK

(* An entry point that ends, with the connection as it is or with a stream that is
   read further. *)
LEMMA ReturnBase ==
    ASSUME BaseInv, NEW t \in Threads, NEW value \in {-EINVAL, -1, 0, 1, EMPTY, EINVAL},
           Return(t, value),
           NEW e \in Entries \cup {"init"}, entry' = [entry EXCEPT ![t] = e],
           NEW m \in 0 .. Len(sent), mine' = [mine EXCEPT ![t] = m],
           stream' \in Seq(Parts),
           port_usage' \in BOOLEAN, child_ports' \in BOOLEAN, interrupted' \in BOOLEAN,
           mishaps' \subseteq {"leak", "doubt"}, link' \in {"open", "torn", "closed"},
           UNCHANGED <<latte_client, alive, registered, posted, sent, served, orphans>>
    PROVE  BaseInv'
<1> USE DEF BaseInv, Return
<1>1. TypeOK'
  <2>1. stream' \in Seq(Parts)'
    BY DEF Parts
  <2>2. /\ pc' \in [Threads -> {"idle", "header", "body"}]
        /\ expect' \in [Threads -> 0 .. Len(served)]
        /\ ret' \in [Threads -> {-EINVAL, -1, 0, 1, EMPTY, EINVAL}]
        /\ mine' \in [Threads -> 0 .. Len(sent)]
        /\ entry' \in [Threads -> Entries \cup {"init"}]
    BY Lengths DEF TypeOK
  <2> QED BY <2>1, <2>2 DEF TypeOK
<1>2. ServedInv'
  BY DEF ServedInv
<1>3. CallInv'
  BY DEF CallInv, TypeOK
<1> QED BY <1>1, <1>2, <1>3

LEMMA RespondType ==
    ASSUME TypeOK, NEW t \in Threads, NEW e, NEW answer,
           NEW wrong \in SUBSET {"leak", "doubt"}, Respond(t, e, answer, wrong)
    PROVE  /\ Return(t, returns(e, answer))
           /\ returns(e, answer) \in {-EINVAL, -1, 0, 1, EMPTY, EINVAL}
           /\ port_usage' \in BOOLEAN
           /\ mishaps' \subseteq {"leak", "doubt"}
<1>1. port_usage' \in BOOLEAN
  BY DEF Respond, TypeOK
<1> QED BY <1>1, ReturnsType DEF Respond, TypeOK

LEMMA SystemCallsType ==
    ASSUME TypeOK, NEW e, NEW sys \in system_calls(e)
    PROVE  /\ sys.reserved \in BOOLEAN /\ sys.named \in BOOLEAN
           /\ sys.wrong \subseteq {"leak", "doubt"}
<1>1. child_ports \in BOOLEAN /\ kept \subseteq {"leak", "doubt"}
  BY DEF TypeOK, kept
<1>2. PICK reserved \in {TRUE, FALSE, child_ports}, named \in BOOLEAN, wrong \in {{}, kept} :
         sys = result(reserved, named, wrong)
  BY DEF system_calls, CreateEntries, Releasing
<1> QED BY <1>1, <1>2 DEF result

LEMMA Unmoved ==
    ASSUME BaseInv, UNCHANGED <<stream, port_usage, child_ports, interrupted, mishaps, link>>
    PROVE  /\ stream' \in Seq(Parts) /\ 0 \in 0 .. Len(sent)
           /\ port_usage' \in BOOLEAN /\ child_ports' \in BOOLEAN /\ interrupted' \in BOOLEAN
           /\ mishaps' \subseteq {"leak", "doubt"} /\ link' \in {"open", "torn", "closed"}
           /\ \A e \in InUse : e \in Entries \cup {"init"}
<1>1. port_usage' \in BOOLEAN /\ child_ports' \in BOOLEAN /\ interrupted' \in BOOLEAN
  BY DEF BaseInv, TypeOK
<1> QED BY <1>1, Lengths DEF BaseInv, TypeOK

LEMMA InitCallBase ==
    ASSUME BaseInv, NEW t \in Threads, init(t)
    PROVE  BaseInv'
<1>1. CASE /\ latte_client' = TRUE /\ redial
           /\ entry' = [u \in Threads |-> "init"] /\ mine' = [u \in Threads |-> 0]
           /\ Return(t, 0) /\ UNCHANGED alive
  <2> USE <1>1
  <2>1. /\ sent' = <<>> /\ served' = <<>> /\ stream' = <<>>
        /\ Len(sent') = 0 /\ Len(served') = 0
    BY DEF redial
  <2>2. /\ sent' \in Seq(Sent)' /\ served' \in Seq(Served)' /\ stream' \in Seq(Parts)'
    BY <2>1, EmptySeq
  <2>3. orphans' \subseteq [cmd : Lasting, named : BOOLEAN]
    <3>1. \A n \in Unserved : sent[n] \in Sent
      BY Lengths DEF BaseInv, Unserved
    <3> QED BY <3>1 DEF redial, BaseInv, TypeOK, Sent
  <2>4. /\ \A u \in Threads : expect[u] = 0 /\ pc[u] = "idle"
        /\ pc' = [pc EXCEPT ![t] = "idle"] /\ expect' = [expect EXCEPT ![t] = 0]
        /\ ret' = [ret EXCEPT ![t] = 0]
    BY DEF init, BaseInv, CallInv, Return
  <2>5. \A u \in Threads : expect'[u] = 0 /\ pc'[u] = "idle"
    BY <2>4 DEF BaseInv, TypeOK
  <2>6. /\ expect' \in [Threads -> 0 .. Len(served')] /\ mine' \in [Threads -> 0 .. Len(sent')]
        /\ pc' \in [Threads -> {"idle", "header", "body"}]
        /\ ret' \in [Threads -> {-EINVAL, -1, 0, 1, EMPTY, EINVAL}]
        /\ entry' \in [Threads -> Entries \cup {"init"}]
    BY <2>1, <2>4, <2>5 DEF BaseInv, TypeOK
  <2>7. TypeOK'
    <3>1. /\ latte_client' \in BOOLEAN /\ port_usage' \in BOOLEAN /\ child_ports' \in BOOLEAN
          /\ alive' \in BOOLEAN /\ interrupted' \in BOOLEAN
      BY DEF BaseInv, TypeOK, init, redial, ports
    <3>2. /\ UNCHANGED <<registered, mishaps, posted>> /\ link' = "open"
      BY DEF init, redial
    <3>3. 0 <= posted /\ posted \in 0 .. MaxCalls
      BY DEF BaseInv, TypeOK
    <3> QED BY <2>1, <2>2, <2>3, <2>6, <3>1, <3>2, <3>3 DEF BaseInv, TypeOK
  <2>8. ServedInv' /\ CallInv'
    BY <2>1, <2>5 DEF ServedInv, CallInv
  <2> QED BY <2>7, <2>8 DEF BaseInv
<1>2. CASE /\ entry' = [entry EXCEPT ![t] = "init"] /\ mine' = [mine EXCEPT ![t] = 0]
           /\ Return(t, -1) /\ UNCHANGED <<latte_client, alive, daemon, conn>>
  <2>1. /\ UNCHANGED <<latte_client, alive, registered, posted, sent, served, orphans>>
        /\ UNCHANGED <<stream, port_usage, child_ports, interrupted, mishaps, link>>
    BY <1>2 DEF init, daemon, conn, ports
  <2> QED BY <1>2, <2>1, Unmoved, ReturnBase
<1>3. CASE alive' = FALSE /\ UNCHANGED <<latte_client, daemon, conn, calls>>
  BY <1>3 DEF init, BaseInv, TypeOK, ServedInv, CallInv, Parts, daemon, conn, ports, calls
<1> QED BY <1>1, <1>2, <1>3 DEF init

LEMMA RefusedBase ==
    ASSUME BaseInv, NEW t \in Threads, NEW e \in InUse, NEW complete \in BOOLEAN,
           call_refused(t, e, complete) \/ call_crashes(t, e, complete)
    PROVE  BaseInv'
<1>1. CASE call_refused(t, e, complete)
  <2>1. PICK value \in {-EINVAL, -1, 0, EINVAL} : Return(t, value)
    BY <1>1, RefusedIsNo DEF call_refused
  <2>2. /\ UNCHANGED <<latte_client, alive, registered, posted, sent, served, orphans>>
        /\ UNCHANGED <<stream, port_usage, child_ports, interrupted, mishaps, link>>
        /\ entry' = [entry EXCEPT ![t] = e] /\ mine' = [mine EXCEPT ![t] = 0]
    BY <1>1 DEF call_refused, daemon, conn, ports
  <2> QED BY <2>1, <2>2, Unmoved, ReturnBase
<1>2. CASE call_crashes(t, e, complete)
  BY <1>2 DEF call_crashes, BaseInv, TypeOK, ServedInv, CallInv, Parts, daemon, conn, ports,
              calls
<1> QED BY <1>1, <1>2

LEMMA FailsBase ==
    ASSUME BaseInv, NEW t \in Threads, NEW e \in InUse, NEW complete \in BOOLEAN,
           call_fails(t, e, complete)
    PROVE  BaseInv'
<1>1. PICK sys \in system_calls(e), wrong \in SUBSET {"leak", "doubt"} :
         /\ child_ports' = sys.reserved
         /\ Respond(t, e, "false", wrong)
         /\ link' \in {link, "torn"} /\ interrupted' \in {interrupted, TRUE}
  <2>1. PICK sys \in system_calls(e) :
           /\ child_ports' = sys.reserved
           /\ \/ /\ NoAnswer(t, e, sys.wrong \cup unanswered(e))
                 /\ UNCHANGED <<link, interrupted>>
              \/ /\ NoAnswer(t, e, sys.wrong \cup {"doubt"})
                 /\ link' \in {link, "torn"} /\ interrupted' = TRUE
    BY DEF call_fails
  <2>2. /\ sys.wrong \cup unanswered(e) \in SUBSET {"leak", "doubt"}
        /\ sys.wrong \cup {"doubt"} \in SUBSET {"leak", "doubt"}
    BY SystemCallsType DEF BaseInv, unanswered
  <2> QED BY <2>1, <2>2 DEF NoAnswer
<1>2. entry' = [entry EXCEPT ![t] = e] /\ mine' = [mine EXCEPT ![t] = 0]
  BY DEF call_fails, posts
<1>3. child_ports' \in BOOLEAN
  BY <1>1, SystemCallsType DEF BaseInv
<1>4. /\ UNCHANGED <<latte_client, alive, registered, posted, sent, served, orphans, stream>>
  BY DEF call_fails, daemon
<1>5. /\ stream' \in Seq(Parts) /\ interrupted' \in BOOLEAN
      /\ link' \in {"open", "torn", "closed"} /\ 0 \in 0 .. Len(sent)
      /\ e \in Entries \cup {"init"}
  <2>1. interrupted' \in BOOLEAN
    BY <1>1 DEF BaseInv, TypeOK
  <2>2. link' \in {"open", "torn", "closed"}
    BY <1>1 DEF BaseInv, TypeOK
  <2>3. stream' \in Seq(Parts) /\ 0 \in 0 .. Len(sent)
    BY <1>4, Lengths DEF BaseInv, TypeOK
  <2> QED BY <2>1, <2>2, <2>3
<1>6. /\ Return(t, returns(e, "false"))
      /\ returns(e, "false") \in {-EINVAL, -1, 0, 1, EMPTY, EINVAL}
      /\ port_usage' \in BOOLEAN /\ mishaps' \subseteq {"leak", "doubt"}
  BY <1>1, RespondType DEF BaseInv
<1> QED BY <1>2, <1>3, <1>4, <1>5, <1>6, ReturnBase

LEMMA RecvBase ==
    ASSUME BaseInv, NEW t \in Threads,
           recv_header(t) \/ recv_body(t) \/ recv_interrupted(t)
    PROVE  BaseInv'
<1> USE DEF BaseInv
<1>0. /\ entry' = [entry EXCEPT ![t] = entry[t]] /\ mine' = [mine EXCEPT ![t] = mine[t]]
      /\ entry[t] \in Entries /\ mine[t] \in 0 .. Len(sent)
      /\ child_ports' \in BOOLEAN /\ interrupted' \in BOOLEAN /\ link' \in {"open", "torn", "closed"}
      /\ UNCHANGED <<latte_client, alive, registered, posted, sent, served, orphans>>
  BY DEF recv_header, recv_body, recv_interrupted, TypeOK, CallInv, daemon
<1>1. ASSUME NEW answer, NEW wrong \in SUBSET {"leak", "doubt"},
             Respond(t, entry[t], answer, wrong), stream' \in Seq(Parts)
      PROVE  BaseInv'
  BY <1>0, <1>1, RespondType, ReturnBase
<1>2. CASE recv_closed(t)
  BY <1>1, <1>2 DEF recv_closed, NoAnswer, unanswered, TypeOK
<1>3. CASE recv_stray(t)
  <2>1. PICK k \in 1 .. Len(stream), answer \in {"false", "true", "config"} :
           /\ stream' = SubSeq(stream, k + 1, Len(stream))
           /\ Respond(t, entry[t], answer, {"doubt"})
    BY <1>3 DEF recv_stray
  <2>2. stream' \in Seq(Parts)
    BY <2>1, Lengths, SubSeqProperties
  <2> QED BY <1>1, <2>1, <2>2
<1>4. CASE recv_interrupted(t)
  <2>1. stream' \in Seq(Parts)
    <3>1. CASE UNCHANGED stream
      BY <3>1 DEF TypeOK
    <3>2. CASE /\ stream # <<>>
               /\ stream' = <<[part |-> "rest", n |-> Head(stream).n]>> \o Tail(stream)
      <4>1. Head(stream) \in Parts /\ Tail(stream) \in Seq(Parts)
        BY <3>2, HeadTailProperties DEF TypeOK
      <4>2. [part |-> "rest", n |-> Head(stream).n] \in Parts
        BY <4>1 DEF Parts
      <4> QED BY <3>2, <4>1, <4>2, ConcatProperties
    <3> QED BY <1>4, <3>1, <3>2 DEF recv_interrupted
  <2> QED BY <1>1, <1>4, <2>1 DEF recv_interrupted, NoAnswer
<1>5. CASE recv_body(t) /\ ~recv_stray(t) /\ ~recv_closed(t)
  <2>1. stream # <<>> /\ stream' = Tail(stream)
    BY <1>5 DEF recv_body
  <2>2. stream' \in Seq(Parts)
    BY <2>1, HeadTailProperties DEF TypeOK
  <2>3. PICK answer : Respond(t, entry[t], answer, refusal(entry[t], answer))
    BY <1>5 DEF recv_body
  <2>4. refusal(entry[t], answer) \in SUBSET {"leak", "doubt"}
    BY DEF refusal
  <2> QED BY <1>1, <2>2, <2>3, <2>4
<1>6. CASE recv_header(t) /\ ~recv_stray(t) /\ ~recv_closed(t)
  <2>1. /\ pc[t] = "header" /\ stream # <<>> /\ stream' = Tail(stream)
        /\ pc' = [pc EXCEPT ![t] = "body"]
        /\ expect' = [expect EXCEPT ![t] = Head(stream).n]
        /\ UNCHANGED <<port_usage, mishaps, ret, entry, mine, child_ports, link, interrupted>>
    BY <1>6 DEF recv_header
  <2>2. Head(stream) \in Parts /\ stream' \in Seq(Parts)
    BY <2>1, HeadTailProperties DEF TypeOK
  <2>3. Head(stream).n \in 0 .. Len(served) /\ stream' \in Seq(Parts)'
    BY <1>0, <2>2, Lengths DEF Parts
  <2>4. TypeOK'
    BY <1>0, <2>1, <2>3 DEF TypeOK
  <2>5. ServedInv' /\ CallInv'
    BY <1>0, <2>1 DEF ServedInv, CallInv, TypeOK
  <2> QED BY <2>4, <2>5
<1> QED BY <1>2, <1>3, <1>4, <1>5, <1>6

LEMMA SendsBase ==
    ASSUME BaseInv, NEW t \in Threads, NEW e \in InUse, NEW complete \in BOOLEAN,
           call_sends(t, e, complete)
    PROVE  BaseInv'
<1> USE DEF BaseInv
<1>1. PICK sys \in system_calls(e) :
         /\ child_ports' = sys.reserved
         /\ mishaps' = mishaps \cup sys.wrong
         /\ \/ /\ link = "open"
               /\ posted' = posted + 1
               /\ sent' = Append(sent, [cmd |-> command_of(e), named |-> sys.named])
               /\ mine' = [mine EXCEPT ![t] = Len(sent')]
            \/ /\ mine' = [mine EXCEPT ![t] = 0]
               /\ UNCHANGED <<posted, sent>>
  BY DEF call_sends
<1>2. /\ pc[t] = "idle" /\ posted < MaxCalls
      /\ entry' = [entry EXCEPT ![t] = e] /\ pc' = [pc EXCEPT ![t] = "header"]
      /\ UNCHANGED <<latte_client, port_usage, alive, registered, served, orphans, link,
                     interrupted, stream, expect, ret>>
  BY DEF call_sends, posts, daemon
<1>3. /\ child_ports' \in BOOLEAN /\ port_usage' \in BOOLEAN
      /\ latte_client' \in BOOLEAN /\ alive' \in BOOLEAN /\ interrupted' \in BOOLEAN
  BY <1>1, <1>2, SystemCallsType DEF TypeOK
<1>4. mishaps' \subseteq {"leak", "doubt"}
  BY <1>1, SystemCallsType DEF TypeOK
<1>5. /\ sent' \in Seq(Sent) /\ Len(sent') \in {Len(sent), Len(sent) + 1}
      /\ posted' \in 0 .. MaxCalls /\ Len(sent') <= posted'
      /\ \A n \in 1 .. Len(sent) : sent'[n] = sent[n]
      /\ \E m \in 0 .. Len(sent') :
            mine' = [mine EXCEPT ![t] = m] /\ (m # 0 => sent'[m].cmd = command_of(e))
  <2>1. CASE UNCHANGED <<posted, sent>> /\ mine' = [mine EXCEPT ![t] = 0]
    <3>1. 0 \in 0 .. Len(sent')
      BY <2>1, Lengths
    <3>2. /\ sent' \in Seq(Sent) /\ Len(sent') \in {Len(sent), Len(sent) + 1}
          /\ posted' \in 0 .. MaxCalls /\ Len(sent') <= posted'
      BY <2>1 DEF TypeOK
    <3>3. \A n \in 1 .. Len(sent) : sent'[n] = sent[n]
      BY <2>1
    <3> QED BY <2>1, <3>1, <3>2, <3>3
  <2>2. CASE /\ posted' = posted + 1
             /\ sent' = Append(sent, [cmd |-> command_of(e), named |-> sys.named])
             /\ mine' = [mine EXCEPT ![t] = Len(sent')]
    <3>1. [cmd |-> command_of(e), named |-> sys.named] \in Sent
      BY SystemCallsType DEF Sent
    <3>2. sent \in Seq(Sent) /\ Len(sent) \in Nat
      BY Lengths DEF TypeOK
    <3>3. /\ sent' \in Seq(Sent) /\ Len(sent') = Len(sent) + 1
          /\ \A n \in 1 .. Len(sent) : sent'[n] = sent[n]
          /\ sent'[Len(sent')] = [cmd |-> command_of(e), named |-> sys.named]
      BY <2>2, <3>1, <3>2, AppendProperties
    <3>4. posted' \in 0 .. MaxCalls /\ Len(sent') <= posted'
      BY <1>2, <2>2, <3>2, <3>3 DEF TypeOK
    <3>5. Len(sent') \in 0 .. Len(sent') /\ sent'[Len(sent')].cmd = command_of(e)
      BY <3>2, <3>3
    <3> QED BY <2>2, <3>3, <3>4, <3>5
  <2> QED BY <1>1, <2>1, <2>2
<1>6. PICK m \in 0 .. Len(sent') :
         mine' = [mine EXCEPT ![t] = m] /\ (m # 0 => sent'[m].cmd = command_of(e))
  BY <1>5
<1>7. TypeOK'
  <2>1. mine' \in [Threads -> 0 .. Len(sent')]
    BY <1>5, <1>6, Lengths DEF TypeOK
  <2>2. stream' \in Seq(Parts)'
    BY <1>2 DEF TypeOK, Parts
  <2>3. /\ pc' \in [Threads -> {"idle", "header", "body"}]
        /\ entry' \in [Threads -> Entries \cup {"init"}]
        /\ expect' \in [Threads -> 0 .. Len(served')]
        /\ ret' \in [Threads -> {-EINVAL, -1, 0, 1, EMPTY, EINVAL}]
    BY <1>2 DEF TypeOK
  <2>4. Len(served') <= Len(sent')
    BY <1>2, <1>5, Lengths DEF TypeOK
  <2> QED BY <1>2, <1>3, <1>4, <1>5, <2>1, <2>2, <2>3, <2>4 DEF TypeOK
<1>8. ServedInv'
  <2>1. \A n \in 1 .. Len(served) : n \in 1 .. Len(sent)
    BY Lengths DEF TypeOK
  <2> QED BY <1>2, <1>5, <2>1 DEF ServedInv
<1>9. CallInv'
  <2> SUFFICES ASSUME NEW u \in Threads
               PROVE  /\ pc'[u] # "body" => expect'[u] = 0
                      /\ pc'[u] # "idle" => entry'[u] \in Entries
                      /\ pc'[u] # "idle" /\ mine'[u] # 0
                            => sent'[mine'[u]].cmd = command_of(entry'[u])
    BY DEF CallInv
  <2>1. CASE u = t
    BY <1>2, <1>6, <2>1 DEF TypeOK, CallInv
  <2>2. CASE u # t
    <3>1. /\ pc'[u] = pc[u] /\ expect'[u] = expect[u] /\ entry'[u] = entry[u]
          /\ mine'[u] = mine[u]
      BY <1>2, <1>6, <2>2 DEF TypeOK
    <3>2. mine[u] # 0 => mine[u] \in 1 .. Len(sent)
      BY Lengths DEF TypeOK
    <3> QED BY <1>5, <3>1, <3>2 DEF CallInv
  <2> QED BY <2>1, <2>2
<1> QED BY <1>7, <1>8, <1>9

LEMMA ServeBase ==
    ASSUME BaseInv, serve
    PROVE  BaseInv'
<1> USE DEF BaseInv
<1> DEFINE n == Len(served) + 1
<1>0. PICK reply \in replies(sent[n].cmd) : \E answer \in answers(sent[n].cmd, reply) :
         /\ served' = Append(served, [answer |-> answer, reply |-> reply])
         /\ registered' \in effects(sent[n], answer)
  BY DEF serve
<1>1. PICK answer \in answers(sent[n].cmd, reply) :
         /\ served' = Append(served, [answer |-> answer, reply |-> reply])
         /\ registered' \in effects(sent[n], answer)
  BY <1>0
<1>2. /\ stream' = IF link = "closed" THEN stream
                   ELSE stream \o <<[part |-> "header", n |-> n], [part |-> "body", n |-> n]>>
      /\ n \in 1 .. Len(sent)
      /\ UNCHANGED <<latte_client, port_usage, child_ports, mishaps, alive, orphans, link,
                     interrupted, posted, sent, pc, entry, mine, expect, ret>>
  BY Lengths DEF serve, Unserved, ports, calls
<1>3. [answer |-> answer, reply |-> reply] \in Served
  <2>1. reply \in Replies \cup {"none"}
    BY DEF replies
  <2> QED BY <2>1, AnswersType DEF Served
<1>4. /\ served' \in Seq(Served) /\ Len(served') = n
      /\ \A k \in 1 .. Len(served) : served'[k] = served[k]
      /\ served'[n] = [answer |-> answer, reply |-> reply]
  BY <1>1, <1>3, AppendProperties DEF TypeOK
<1>5. Parts \subseteq Parts' /\ \A p \in {"header", "body"} : [part |-> p, n |-> n] \in Parts'
  <2>1. 1 .. Len(served) \subseteq 1 .. Len(served') /\ n \in 1 .. Len(served')
    BY <1>4, Lengths
  <2> QED BY <2>1 DEF Parts
<1>6. stream' \in Seq(Parts')
  <2>1. stream \in Seq(Parts')
    BY <1>5 DEF TypeOK
  <2>2. <<[part |-> "header", n |-> n], [part |-> "body", n |-> n]>> \in Seq(Parts')
    BY <1>5
  <2> QED BY <1>2, <2>1, <2>2, ConcatProperties
<1>7. registered' \subseteq {"plain", "ported"}
  BY <1>1 DEF effects, TypeOK
<1>8. TypeOK'
  <2>1. /\ latte_client' \in BOOLEAN /\ port_usage' \in BOOLEAN /\ child_ports' \in BOOLEAN
        /\ alive' \in BOOLEAN /\ interrupted' \in BOOLEAN
    BY <1>2 DEF TypeOK
  <2>2. expect' \in [Threads -> 0 .. Len(served')]
    BY <1>2, <1>4, Lengths DEF TypeOK
  <2>3. Len(served') <= Len(sent')
    BY <1>2, <1>4, Lengths
  <2> QED BY <1>2, <1>4, <1>6, <1>7, <2>1, <2>2, <2>3 DEF TypeOK
<1>9. ServedInv'
  <2> SUFFICES ASSUME NEW k \in 1 .. Len(served'), served'[k].answer # "false"
               PROVE  /\ served'[k].reply \in replies(sent'[k].cmd)
                      /\ served'[k].answer \in answers(sent'[k].cmd, served'[k].reply)
    BY DEF ServedInv
  <2>1. CASE k = n
    BY <1>2, <1>4, <2>1
  <2>2. CASE k # n
    <3>1. k \in 1 .. Len(served)
      BY <1>4, <2>2, Lengths
    <3> QED BY <1>2, <1>4, <3>1 DEF ServedInv
  <2> QED BY <2>1, <2>2
<1>10. CallInv'
  BY <1>2 DEF CallInv
<1> QED BY <1>8, <1>9, <1>10

LEMMA DaemonBase ==
    ASSUME BaseInv, close \/ daemon_ends \/ \E c \in orphans : serve_orphan(c)
    PROVE  BaseInv'
<1> USE DEF BaseInv
<1>1. CASE close
  BY <1>1 DEF close, TypeOK, ServedInv, CallInv, Parts, ports, daemon, calls
<1>2. CASE \E c \in orphans : serve_orphan(c)
  <2>1. PICK c \in orphans : serve_orphan(c)
    BY <1>2
  <2>2. registered' \subseteq {"plain", "ported"} /\ orphans' \subseteq orphans
    BY <2>1 DEF serve_orphan, effects, TypeOK
  <2>3. UNCHANGED <<latte_client, port_usage, child_ports, mishaps, alive, served, link,
                    interrupted, posted, sent, stream, pc, entry, mine, expect, ret>>
    BY <2>1 DEF serve_orphan, ports, conn, calls
  <2> QED BY <2>2, <2>3 DEF TypeOK, ServedInv, CallInv, Parts
<1>3. CASE daemon_ends
  <2>1. /\ link' = "closed" /\ registered' = {} /\ orphans' = {}
        /\ mishaps' \subseteq {"leak", "doubt"}
        /\ UNCHANGED <<latte_client, port_usage, child_ports, alive, interrupted, posted,
                       sent, stream, pc, entry, mine, expect, ret>>
    BY <1>3 DEF daemon_ends, TypeOK, ports, calls
  <2>2. DOMAIN sent = 1 .. Len(sent) /\ Len(sent) \in Nat /\ Len(served) \in 0 .. Len(sent)
    BY Lengths DEF TypeOK
  <2>3. /\ served' = [k \in 1 .. Len(sent) |-> IF k \in Unserved
                                               THEN [answer |-> "false", reply |-> "none"]
                                               ELSE served[k]]
    BY <1>3, <2>2 DEF daemon_ends
  <2>4. \A k \in 1 .. Len(sent) : served'[k] \in Served
    <3> SUFFICES ASSUME NEW k \in 1 .. Len(sent) PROVE served'[k] \in Served
      OBVIOUS
    <3>1. CASE k \in Unserved
      BY <2>3, <3>1 DEF Served
    <3>2. CASE k \notin Unserved
      <4>1. k \in 1 .. Len(served)
        BY <2>2, <3>2 DEF Unserved
      <4> QED BY <2>3, <3>2, <4>1, Lengths
    <3> QED BY <3>1, <3>2
  <2>5. served' \in Seq(Served) /\ Len(served') = Len(sent)
    BY <2>2, <2>3, <2>4, IsASeq, LenProperties
  <2>6. Parts \subseteq Parts'
    <3>1. 1 .. Len(served) \subseteq 1 .. Len(served')
      BY <2>2, <2>5
    <3> QED BY <3>1 DEF Parts
  <2>7. TypeOK'
    <3>1. stream' \in Seq(Parts')
      BY <2>1, <2>6 DEF TypeOK
    <3>2. expect' \in [Threads -> 0 .. Len(served')]
      BY <2>1, <2>2, <2>5 DEF TypeOK
    <3>3. /\ latte_client' \in BOOLEAN /\ port_usage' \in BOOLEAN
          /\ child_ports' \in BOOLEAN /\ alive' \in BOOLEAN /\ interrupted' \in BOOLEAN
      BY <2>1 DEF TypeOK
    <3>4. Len(served') <= Len(sent')
      BY <2>1, <2>2, <2>5
    <3> QED BY <2>1, <2>5, <3>1, <3>2, <3>3, <3>4 DEF TypeOK
  <2>8. ServedInv'
    <3> SUFFICES ASSUME NEW k \in 1 .. Len(sent), served'[k].answer # "false"
                 PROVE  /\ served'[k].reply \in replies(sent'[k].cmd)
                        /\ served'[k].answer \in answers(sent'[k].cmd, served'[k].reply)
      BY <2>5 DEF ServedInv
    <3>1. k \notin Unserved
      BY <2>3
    <3>2. k \in 1 .. Len(served) /\ served'[k] = served[k]
      BY <2>2, <2>3, <3>1 DEF Unserved
    <3> QED BY <2>1, <3>2 DEF ServedInv
  <2>9. CallInv'
    BY <2>1 DEF CallInv
  <2> QED BY <2>7, <2>8, <2>9
<1> QED BY <1>1, <1>2, <1>3

LEMMA NextBase == BaseInv /\ [Next]_vars => BaseInv'
<1> SUFFICES ASSUME BaseInv, [Next]_vars PROVE BaseInv'
  OBVIOUS
<1>1. CASE UNCHANGED vars
  BY <1>1 DEF BaseInv, TypeOK, ServedInv, CallInv, Parts, vars, ports, daemon, conn, calls
<1>2. CASE Next
  BY <1>2, InitCallBase, RefusedBase, FailsBase, RecvBase, SendsBase, ServeBase, DaemonBase
     DEF Next, Thread
<1> QED BY <1>1, <1>2

(* The library, its connection and the daemon's side of it keep their types under any
   number of threads: no interleaving of reads makes the stream run past what was
   served, and an entry point returns one of five codes. *)
THEOREM TypeTheorem == Spec => []TypeOK
<1>1. BaseInv => TypeOK
  BY DEF BaseInv
<1> QED BY <1>1, InitBase, NextBase, PTL DEF Spec

------------------------------------------------------------------------------
(* One thread.  What a connection that was never cut short holds, by where the
   thread is in post(): nothing between calls, and during a call the response to
   the command in progress, or nothing if that is still to be served or lost. *)
SingleThread == \E t \in Threads : \A u \in Threads : u = t

Delivered(n) == <<[part |-> "header", n |-> n], [part |-> "body", n |-> n]>>
OwnCall(t) ==
    /\ pc[t] = "idle" => stream = <<>> /\ (link = "open" => Len(served) = Len(sent))
    /\ pc[t] = "header" =>
          /\ mine[t] = Len(sent) /\ mine[t] # 0
          /\ \/ /\ stream = <<>> /\ Len(served) + 1 \in {Len(sent), Len(sent) + 1}
                /\ link = "open" => Len(served) < Len(sent)
             \/ stream = Delivered(mine[t]) /\ Len(served) = Len(sent)
    /\ pc[t] = "body" =>
          /\ mine[t] = Len(sent) /\ mine[t] # 0 /\ expect[t] = mine[t]
          /\ stream = <<[part |-> "body", n |-> mine[t]]>> /\ Len(served) = Len(sent)

(* The three properties of one returned call. *)
Sound(t) ==
    pc[t] = "idle" /\ entry[t] # "init" =>
       /\ ret[t] \in {1, EMPTY} => Answered(t) /\ served[mine[t]].answer # "false"
       /\ ret[t] = 1 /\ command_of(entry[t]) \in CallCommands
             => served[mine[t]].reply \in Backing(command_of(entry[t]))
       /\ ret[t] \notin {0, 1, EMPTY} => mine[t] = 0

OneInv == ~interrupted => link # "torn" /\ \A t \in Threads : OwnCall(t) /\ Sound(t)

LEMMA InitOne == Init => OneInv
<1> SUFFICES ASSUME Init PROVE OneInv
  OBVIOUS
<1>1. link # "torn" /\ stream = <<>> /\ Len(served) = Len(sent)
  BY DEF Init
<1>2. \A t \in Threads : pc[t] = "idle" /\ entry[t] = "init"
  BY DEF Init
<1> QED BY <1>1, <1>2 DEF OneInv, OwnCall, Sound

LEMMA InitCallOne ==
    ASSUME BaseInv, OneInv, SingleThread, NEW t \in Threads, init(t)
    PROVE  OneInv'
<1>1. \A u \in Threads : pc[u] = "idle"
  BY DEF init
<1>2. CASE /\ redial /\ entry' = [u \in Threads |-> "init"] /\ Return(t, 0)
  <2>1. /\ link' = "open" /\ stream' = <<>> /\ Len(sent') = 0 /\ Len(served') = 0
    BY <1>2 DEF redial
  <2>2. \A u \in Threads : pc'[u] = "idle" /\ entry'[u] = "init"
    BY <1>1, <1>2 DEF Return, BaseInv, TypeOK
  <2> QED BY <2>1, <2>2 DEF OneInv, OwnCall, Sound
<1>3. CASE /\ entry' = [entry EXCEPT ![t] = "init"] /\ Return(t, -1)
           /\ UNCHANGED <<daemon, conn>>
  <2>1. \A u \in Threads : pc'[u] = "idle" /\ entry'[u] = "init"
    BY <1>1, <1>3 DEF Return, BaseInv, TypeOK, SingleThread
  <2> QED BY <1>1, <1>3, <2>1 DEF OneInv, OwnCall, Sound, daemon, conn
<1>4. CASE UNCHANGED <<daemon, conn, calls>>
  BY <1>4 DEF OneInv, OwnCall, Sound, Answered, daemon, conn, calls
<1> QED BY <1>2, <1>3, <1>4 DEF init

LEMMA RefusedOne ==
    ASSUME BaseInv, OneInv, SingleThread, NEW t \in Threads, NEW e \in InUse,
           NEW complete \in BOOLEAN,
           call_refused(t, e, complete) \/ call_crashes(t, e, complete)
    PROVE  OneInv'
<1>1. CASE call_refused(t, e, complete)
  <2>1. PICK value \in {-EINVAL, -1, 0, EINVAL} : Return(t, value)
    BY <1>1, RefusedIsNo DEF call_refused
  <2>2. /\ pc[t] = "idle" /\ mine' = [mine EXCEPT ![t] = 0] /\ UNCHANGED <<daemon, conn>>
    BY <1>1 DEF call_refused
  <2>3. pc'[t] = "idle" /\ mine'[t] = 0 /\ ret'[t] \notin {1, EMPTY}
    BY <2>1, <2>2 DEF Return, BaseInv, TypeOK, EINVAL, EMPTY
  <2> QED BY <2>2, <2>3 DEF OneInv, OwnCall, Sound, SingleThread, daemon, conn
<1>2. CASE call_crashes(t, e, complete)
  BY <1>2 DEF call_crashes, OneInv, OwnCall, Sound, Answered, daemon, conn, calls
<1> QED BY <1>1, <1>2

LEMMA FailsOne ==
    ASSUME BaseInv, OneInv, SingleThread, NEW t \in Threads, NEW e \in InUse,
           NEW complete \in BOOLEAN, call_fails(t, e, complete)
    PROVE  OneInv'
<1> SUFFICES ASSUME ~interrupted' PROVE OneInv'
  BY DEF OneInv
<1>1. PICK wrong : Respond(t, e, "false", wrong) /\ UNCHANGED <<link, interrupted>>
  BY DEF call_fails, NoAnswer
<1>2. /\ pc[t] = "idle" /\ mine' = [mine EXCEPT ![t] = 0]
      /\ UNCHANGED <<served, sent, stream>>
  BY DEF call_fails, posts, daemon
<1>3. pc'[t] = "idle" /\ mine'[t] = 0 /\ ret'[t] = 0
  BY <1>1, <1>2, FalseIsNo DEF Respond, Return, BaseInv, TypeOK
<1> QED BY <1>1, <1>2, <1>3 DEF OneInv, OwnCall, Sound, SingleThread, EMPTY

LEMMA SendsOne ==
    ASSUME BaseInv, OneInv, SingleThread, NEW t \in Threads, NEW e \in InUse,
           NEW complete \in BOOLEAN, call_sends(t, e, complete)
    PROVE  OneInv'
<1> SUFFICES ASSUME ~interrupted' PROVE OneInv'
  BY DEF OneInv
<1>1. /\ pc[t] = "idle" /\ pc' = [pc EXCEPT ![t] = "header"]
      /\ UNCHANGED <<served, link, interrupted, stream>>
  BY DEF call_sends, posts, daemon
<1>2. link # "torn" /\ stream = <<>> /\ (link = "open" => Len(served) = Len(sent))
  BY <1>1 DEF OneInv, OwnCall
<1>3. PICK sys : /\ link = "open"
                 /\ sent' = Append(sent, [cmd |-> command_of(e), named |-> sys.named])
                 /\ mine' = [mine EXCEPT ![t] = Len(sent')]
  BY <1>2 DEF call_sends
<1>4. Len(sent') = Len(sent) + 1 /\ Len(sent) \in Nat /\ Len(served) = Len(sent)
  <2>1. sent \in Seq(Sent) /\ Len(sent) \in Nat
    BY Lengths DEF BaseInv, TypeOK
  <2> QED BY <1>2, <1>3, <2>1
<1>5. pc'[t] = "header" /\ mine'[t] = Len(sent')
  BY <1>1, <1>3 DEF BaseInv, TypeOK
<1>6. OwnCall(t)' /\ Sound(t)'
  BY <1>1, <1>2, <1>4, <1>5 DEF OwnCall, Sound
<1> QED BY <1>1, <1>2, <1>6 DEF OneInv, SingleThread

LEMMA HeaderOne ==
    ASSUME BaseInv, OneInv, SingleThread, NEW t \in Threads, recv_header(t)
    PROVE  OneInv'
<1> SUFFICES ASSUME ~interrupted' PROVE OneInv'
  BY DEF OneInv
<1>1. /\ pc[t] = "header"
      /\ UNCHANGED <<served, link, interrupted, sent, entry, mine>>
  BY DEF recv_header, daemon
<1>2. link # "torn" /\ OwnCall(t)
  BY <1>1 DEF OneInv
<1>3. CASE stream = <<>>
  <2>1. recv_closed(t)
    BY <1>3 DEF recv_header
  <2>2. link = "closed" /\ stream' = <<>>
    BY <1>3, <2>1 DEF recv_closed
  <2>3. pc'[t] = "idle" /\ ret'[t] = 0
    BY <2>1, FalseIsNo DEF recv_closed, NoAnswer, Respond, Return, BaseInv, TypeOK
  <2> QED BY <1>1, <1>2, <2>2, <2>3 DEF OneInv, OwnCall, Sound, SingleThread, EMPTY
<1>4. CASE stream # <<>>
  <2>1. /\ stream = Delivered(mine[t]) /\ Len(served) = Len(sent)
        /\ mine[t] = Len(sent) /\ mine[t] # 0
    BY <1>1, <1>2, <1>4 DEF OwnCall
  <2>2. /\ Head(stream) = [part |-> "header", n |-> mine[t]]
        /\ Tail(stream) = <<[part |-> "body", n |-> mine[t]]>>
    BY <2>1 DEF Delivered
  <2>3. Head(stream).part = "header" /\ Head(stream).n = mine[t]
    BY <2>2
  <2>4. ~recv_closed(t)
    BY <1>4 DEF recv_closed
  <2>5. /\ stream' = Tail(stream) /\ pc' = [pc EXCEPT ![t] = "body"]
        /\ expect' = [expect EXCEPT ![t] = Head(stream).n]
    BY <2>3, <2>4 DEF recv_header
  <2>6. /\ pc'[t] = "body" /\ expect'[t] = mine[t]
        /\ stream' = <<[part |-> "body", n |-> mine[t]]>>
    BY <2>2, <2>3, <2>5 DEF BaseInv, TypeOK
  <2> QED BY <1>1, <1>2, <2>1, <2>6 DEF OneInv, OwnCall, Sound, SingleThread
<1> QED BY <1>3, <1>4

LEMMA BodyOne ==
    ASSUME BaseInv, OneInv, SingleThread, NEW t \in Threads, recv_body(t)
    PROVE  OneInv'
<1> SUFFICES ASSUME ~interrupted' PROVE OneInv'
  BY DEF OneInv
<1> DEFINE n == mine[t]
<1>1. /\ pc[t] = "body"
      /\ UNCHANGED <<served, link, interrupted, sent, entry, mine>>
  BY DEF recv_body, daemon
<1>2. /\ link # "torn" /\ n = Len(sent) /\ n # 0 /\ expect[t] = n
      /\ stream = <<[part |-> "body", n |-> n]>> /\ Len(served) = Len(sent)
  BY <1>1 DEF OneInv, OwnCall
<1>3. stream # <<>> /\ Head(stream) = [part |-> "body", n |-> expect[t]] /\ Tail(stream) = <<>>
  BY <1>2
<1>4. ~recv_closed(t)
  BY <1>3 DEF recv_closed
<1>5. /\ stream' = <<>>
      /\ Respond(t, entry[t], served[n].answer, refusal(entry[t], served[n].answer))
  BY <1>2, <1>3, <1>4 DEF recv_body
<1>6. pc'[t] = "idle" /\ ret'[t] = returns(entry[t], served[n].answer)
  BY <1>5 DEF Respond, Return, BaseInv, TypeOK
<1>7. n \in 1 .. Len(served) /\ entry[t] \in Entries /\ sent[n].cmd = command_of(entry[t])
  BY <1>1, <1>2, Lengths DEF BaseInv, CallInv
<1>8. CASE served[n].answer = "false"
  <2>1. ret'[t] = 0
    BY <1>6, <1>8, FalseIsNo
  <2> QED BY <1>1, <1>2, <1>5, <1>6, <2>1 DEF OneInv, OwnCall, Sound, SingleThread, EMPTY
<1>9. CASE served[n].answer # "false"
  <2>1. /\ served[n].reply \in replies(command_of(entry[t]))
        /\ served[n].answer \in answers(command_of(entry[t]), served[n].reply)
    BY <1>7, <1>9 DEF BaseInv, ServedInv
  <2>2. /\ ret'[t] \in {0, 1, EMPTY}
        /\ ret'[t] = 1 /\ command_of(entry[t]) \in CallCommands => served[n].answer # "empty"
    BY <1>6, <1>7, <2>1, OwnAnswer
  <2>3. ret'[t] = 1 /\ command_of(entry[t]) \in CallCommands
           => served[n].reply \in Backing(command_of(entry[t]))
    BY <1>9, <2>1, <2>2, YesIsBacked
  <2>4. OwnCall(t)'
    BY <1>1, <1>2, <1>5, <1>6 DEF OwnCall
  <2>5. Sound(t)'
    BY <1>1, <1>7, <1>9, <2>2, <2>3 DEF Sound, Answered
  <2> QED BY <1>1, <1>2, <2>4, <2>5 DEF OneInv, SingleThread
<1> QED BY <1>8, <1>9

LEMMA ServeOne ==
    ASSUME BaseInv, OneInv, serve
    PROVE  OneInv'
<1>0. UNCHANGED <<link, interrupted>>
  BY DEF serve
<1> SUFFICES ASSUME ~interrupted', NEW t \in Threads
             PROVE  OwnCall(t)' /\ Sound(t)'
  BY <1>0 DEF OneInv
<1> DEFINE n == Len(served) + 1
<1>1. /\ n \in 1 .. Len(sent) /\ Len(served) \in Nat
      /\ stream' = IF link = "closed" THEN stream ELSE stream \o Delivered(n)
      /\ UNCHANGED <<link, interrupted, sent, pc, entry, mine, expect, ret>>
  BY Lengths DEF BaseInv, serve, Unserved, calls, Delivered
<1>2. link # "torn" /\ OwnCall(t) /\ Sound(t)
  BY <1>1 DEF OneInv
<1>3. /\ Len(served') = n /\ \A k \in 1 .. Len(served) : served'[k] = served[k]
  <2>1. PICK x : served' = Append(served, x)
    BY DEF serve
  <2>2. served \in Seq(Served)
    BY DEF BaseInv, TypeOK
  <2> QED BY <2>1, <2>2
<1>4. Sound(t)'
  BY <1>1, <1>2, <1>3 DEF Sound, Answered
<1>5. pc[t] # "body"
  BY <1>1, <1>2 DEF OwnCall
<1>6. CASE pc[t] = "idle"
  <2>1. link = "closed"
    <3>1. link # "open"
      BY <1>1, <1>2, <1>6 DEF OwnCall
    <3> QED BY <1>2, <3>1 DEF BaseInv, TypeOK
  <2> QED BY <1>1, <1>2, <1>4, <1>6, <2>1 DEF OwnCall
<1>7. CASE pc[t] = "header"
  <2>1. stream = <<>> /\ n = Len(sent) /\ mine[t] = Len(sent)
    BY <1>1, <1>2, <1>7 DEF OwnCall
  <2>2. link \in {"open", "closed"}
    BY <1>2 DEF BaseInv, TypeOK
  <2>3. <<>> \o Delivered(n) = Delivered(n)
    BY DEF Delivered
  <2> QED BY <1>1, <1>2, <1>3, <1>4, <1>7, <2>1, <2>2, <2>3 DEF OwnCall
<1>8. pc[t] \in {"idle", "header", "body"}
  BY DEF BaseInv, TypeOK
<1> QED BY <1>5, <1>6, <1>7, <1>8

LEMMA DaemonOne ==
    ASSUME BaseInv, OneInv, close \/ daemon_ends \/ \E c \in orphans : serve_orphan(c)
    PROVE  OneInv'
<1>1. CASE close
  BY <1>1 DEF close, OneInv, OwnCall, Sound, Answered, daemon, calls
<1>2. CASE \E c \in orphans : serve_orphan(c)
  BY <1>2 DEF serve_orphan, OneInv, OwnCall, Sound, Answered, conn, calls
<1>3. CASE daemon_ends
  <2>0. link' = "closed"
    BY <1>3 DEF daemon_ends
  <2> SUFFICES ASSUME ~interrupted', NEW t \in Threads
               PROVE  OwnCall(t)' /\ Sound(t)'
    BY <2>0 DEF OneInv
  <2>1. link' = "closed" /\ UNCHANGED <<interrupted, sent, stream, pc, entry, mine, expect, ret>>
    BY <1>3 DEF daemon_ends, calls
  <2>2. OwnCall(t) /\ Sound(t)
    BY <2>1 DEF OneInv
  <2>3. DOMAIN sent = 1 .. Len(sent) /\ Len(sent) \in Nat /\ Len(served) \in 0 .. Len(sent)
    BY Lengths DEF BaseInv, TypeOK
  <2>4. served' \in Seq(Served) /\ DOMAIN served' = 1 .. Len(sent)
    BY <1>3, <2>3, DaemonBase DEF daemon_ends, BaseInv, TypeOK
  <2>5. Len(served') = Len(sent)
    BY <2>3, <2>4, LenProperties
  <2>6. \A k \in 1 .. Len(served) : served'[k] = served[k]
    BY <1>3, <2>3 DEF daemon_ends, Unserved
  <2>7. Sound(t)'
    BY <2>1, <2>2, <2>3, <2>5, <2>6 DEF Sound, Answered
  <2>8. OwnCall(t)'
    BY <2>1, <2>2, <2>3, <2>5 DEF OwnCall
  <2> QED BY <2>1, <2>7, <2>8
<1> QED BY <1>1, <1>2, <1>3

LEMMA NextOne == SingleThread /\ BaseInv /\ OneInv /\ [Next]_vars => OneInv'
<1> SUFFICES ASSUME SingleThread, BaseInv, OneInv, [Next]_vars PROVE OneInv'
  OBVIOUS
<1>1. CASE UNCHANGED vars
  BY <1>1 DEF OneInv, OwnCall, Sound, Answered, vars, daemon, conn, calls
<1>2. CASE \E t \in Threads : recv_interrupted(t)
  BY <1>2 DEF recv_interrupted, OneInv
<1>3. CASE Next
  BY <1>2, <1>3, InitCallOne, RefusedOne, FailsOne, SendsOne, HeaderOne, BodyOne, ServeOne,
     DaemonOne DEF Next, Thread
<1> QED BY <1>1, <1>3

LEMMA OneTheorem == SingleThread => (Spec => [](BaseInv /\ OneInv))
<1> SUFFICES ASSUME SingleThread PROVE Spec => [](BaseInv /\ OneInv)
  OBVIOUS
<1>1. Init => BaseInv /\ OneInv
  BY InitBase, InitOne
<1>2. BaseInv /\ OneInv /\ [Next]_vars => (BaseInv /\ OneInv)'
  BY NextBase, NextOne
<1> QED BY <1>1, <1>2, PTL DEF Spec

(* In an application with one thread, an entry point whose command is one call of the
   metadata service returns 1 only if its own command was put to the service and the
   reply backed it (an access by the text of the grant, an attestation by a message):
   until a send or receive is cut short, lost connections, redials, restarts of the
   daemon and late answers of earlier connections never make a yes of their own (post,
   proto_recv_msg, status_int and the extractors). *)
THEOREM ApprovedTheorem == SingleThread => (Spec => []Approved)
<1> SUFFICES ASSUME SingleThread PROVE Spec => []Approved
  OBVIOUS
<1>1. OneInv => Approved
  BY DEF OneInv, Sound, Approved, Returned, Answered
<1> QED BY <1>1, OneTheorem, PTL

(* In an application with one thread, until a send or receive is cut short, a 1 or a
   pointer stands for an answer of the daemon to this very command that is not
   status(false), and a code other than these and 0 comes from the library's own tests
   (CHECK_LIB_INIT, CHECK_NULL_PTR, what is not implemented) and never from a command
   that was sent: status_int finds a status in every response. *)
THEOREM TruthfulTheorem == SingleThread => (Spec => []Truthful)
<1> SUFFICES ASSUME SingleThread PROVE Spec => []Truthful
  OBVIOUS
<1>1. OneInv => Truthful
  BY DEF OneInv, Sound, Truthful, Returned, Answered
<1> QED BY <1>1, OneTheorem, PTL

------------------------------------------------------------------------------
(* The ports of the child and its principal, as long as no call was left in doubt:
   no connection was cut short and no earlier one is still at work.  Between calls
   the daemon has nothing left to do that would change its principals.  Inside a
   call only the last command sent can still be without effect: a create that names
   ports has them reserved, a delete has given them back, and principal and ports
   are apart only until that command is answered with a yes. *)
LastSent == sent[Len(sent)]
Pending(t) ==
    /\ pc[t] # "idle"
    /\ Len(served) < Len(sent) \/ served[Len(sent)].answer = "false"
PortsOf(t) ==
    /\ pc[t] = "idle" => \A k \in Unserved : sent[k].cmd \notin Lasting
    /\ pc[t] # "idle" /\ LastSent.named => LastSent.cmd = "CREATE_PRINCIPAL" /\ child_ports
    /\ pc[t] # "idle" /\ LastSent.cmd = "DELETE_PRINCIPAL" /\ mishaps = {} => ~child_ports
    /\ "ported" \in registered /\ ~child_ports
          => Pending(t) /\ LastSent.cmd = "DELETE_PRINCIPAL"
    /\ mishaps = {} /\ child_ports /\ "ported" \notin registered
          => Pending(t) /\ LastSent.named
PortInv ==
    "doubt" \notin mishaps =>
       /\ ~interrupted /\ orphans = {}
       /\ \A t \in Threads : PortsOf(t)

LEMMA InitPort == Init => PortInv
<1> SUFFICES ASSUME Init PROVE PortInv
  OBVIOUS
<1>1. Len(sent) = 0 /\ Len(served) = 0
  BY DEF Init
<1>2. Unserved = {}
  BY <1>1 DEF Unserved
<1> QED BY <1>2 DEF Init, PortInv, PortsOf

(* The system calls before a command, by the command: a create names ports only
   after it has reserved them, a delete that leaves ports behind is recorded, and
   the other commands leave the ports alone. *)
LEMMA SystemCallsPorts ==
    ASSUME TypeOK, NEW e \in Entries, NEW sys \in system_calls(e)
    PROVE  /\ sys.named => command_of(e) = "CREATE_PRINCIPAL" /\ sys.reserved
           /\ command_of(e) = "DELETE_PRINCIPAL" /\ sys.wrong = {} => ~sys.reserved
           /\ command_of(e) # "DELETE_PRINCIPAL" /\ child_ports => sys.reserved
           /\ ~sys.named /\ sys.reserved => child_ports
<1>0. child_ports \in BOOLEAN
  BY DEF TypeOK
<1>1. CASE e \in CreateEntries
  <2>1. command_of(e) = "CREATE_PRINCIPAL"
    BY <1>1 DEF command_of, CreateEntries
  <2>2. sys = result(TRUE, TRUE, {})
    BY <1>1 DEF system_calls, CreateEntries, Releasing
  <2> QED BY <2>1, <2>2 DEF result
<1>2. CASE e = "create_instance"
  <2>1. command_of(e) = "CREATE_PRINCIPAL"
    BY <1>2 DEF command_of
  <2>2. sys \in {result(TRUE, TRUE, {}), result(child_ports, FALSE, {})}
    BY <1>2 DEF system_calls, CreateEntries, Releasing
  <2> QED BY <1>0, <2>1, <2>2 DEF result
<1>3. CASE e \in Releasing \cup {"delete_principal_without_allocated_ports"}
  <2>1. /\ command_of(e) = "DELETE_PRINCIPAL"
        /\ sys \in {result(FALSE, FALSE, {}), result(child_ports, FALSE, kept)}
    BY <1>3 DEF command_of, system_calls, CreateEntries, Releasing
  <2> QED BY <1>0, <2>1 DEF result, kept
<1>4. CASE e \notin CreateEntries \cup Releasing
                      \cup {"create_instance", "delete_principal_without_allocated_ports"}
  <2>1. /\ command_of(e) # "DELETE_PRINCIPAL" /\ sys = result(child_ports, FALSE, {})
    BY <1>4 DEF command_of, system_calls, CreateEntries, Releasing
  <2> QED BY <1>0, <2>1 DEF result
<1> QED BY <1>1, <1>2, <1>3, <1>4

(* The other commands: the system calls change nothing. *)
LEMMA SystemCallsNone ==
    ASSUME TypeOK, NEW e \in Entries, command_of(e) \notin Lasting,
           NEW sys \in system_calls(e)
    PROVE  sys = result(child_ports, FALSE, {})
BY DEF command_of, Lasting, system_calls, CreateEntries, Releasing

LEMMA InitCallPort ==
    ASSUME BaseInv, OneInv, PortInv, SingleThread, NEW t \in Threads, init(t)
    PROVE  PortInv'
<1> SUFFICES ASSUME "doubt" \notin mishaps' PROVE PortInv'
  BY DEF PortInv
<1>1. /\ \A u \in Threads : pc[u] = "idle"
      /\ UNCHANGED <<child_ports, mishaps>>
  BY DEF init, ports
<1>2. ~interrupted /\ orphans = {} /\ \A u \in Threads : PortsOf(u)
  BY <1>1 DEF PortInv
<1>3. CASE redial /\ Return(t, 0)
  <2>1. /\ interrupted' = FALSE /\ registered' = registered
        /\ Len(sent') = 0 /\ Len(served') = 0
        /\ orphans' = orphans \cup {sent[n] : n \in {k \in Unserved : sent[k].cmd \in Lasting}}
    BY <1>3 DEF redial
  <2>2. orphans' = {}
    BY <1>1, <1>2, <2>1 DEF PortsOf, SingleThread
  <2>3. Unserved' = {}
    BY <2>1 DEF Unserved
  <2>4. \A u \in Threads : pc'[u] = "idle"
    BY <1>1, <1>3 DEF Return, BaseInv, TypeOK
  <2> QED BY <1>1, <1>2, <2>1, <2>2, <2>3, <2>4 DEF PortInv, PortsOf, Pending
<1>4. CASE Return(t, -1) /\ UNCHANGED <<daemon, conn>>
  <2>1. \A u \in Threads : pc'[u] = "idle"
    BY <1>1, <1>4 DEF Return, BaseInv, TypeOK
  <2> QED BY <1>1, <1>2, <1>4, <2>1
          DEF PortInv, PortsOf, Pending, Unserved, LastSent, daemon, conn
<1>5. CASE UNCHANGED <<daemon, conn, calls>>
  BY <1>1, <1>2, <1>5 DEF PortInv, PortsOf, Pending, Unserved, LastSent, daemon, conn, calls
<1> QED BY <1>3, <1>4, <1>5 DEF init

LEMMA RefusedPort ==
    ASSUME BaseInv, OneInv, PortInv, SingleThread, NEW t \in Threads, NEW e \in InUse,
           NEW complete \in BOOLEAN,
           call_refused(t, e, complete) \/ call_crashes(t, e, complete)
    PROVE  PortInv'
<1>1. CASE call_refused(t, e, complete)
  <2>1. PICK value : Return(t, value)
    BY <1>1 DEF call_refused
  <2>2. pc[t] = "idle" /\ UNCHANGED <<ports, mishaps, daemon, conn>>
    BY <1>1 DEF call_refused
  <2>3. pc'[t] = "idle"
    BY <2>1, <2>2 DEF Return, BaseInv, TypeOK
  <2> QED BY <2>2, <2>3 DEF PortInv, PortsOf, Pending, Unserved, LastSent, SingleThread,
                            ports, daemon, conn
<1>2. CASE call_crashes(t, e, complete)
  BY <1>2 DEF call_crashes, PortInv, PortsOf, Pending, Unserved, LastSent, ports, daemon,
              conn, calls
<1> QED BY <1>1, <1>2

(* A call that fails without a doubt has found the connection closed, and its command
   is neither a create nor a delete. *)
LEMMA FailsPort ==
    ASSUME BaseInv, OneInv, PortInv, SingleThread, NEW t \in Threads, NEW e \in InUse,
           NEW complete \in BOOLEAN, call_fails(t, e, complete)
    PROVE  PortInv'
<1> SUFFICES ASSUME "doubt" \notin mishaps' PROVE PortInv'
  BY DEF PortInv
<1>1. PICK sys \in system_calls(e) :
         /\ child_ports' = sys.reserved
         /\ Respond(t, e, "false", sys.wrong \cup unanswered(e))
         /\ UNCHANGED <<link, interrupted>>
  <2>1. PICK sys \in system_calls(e) :
           /\ child_ports' = sys.reserved
           /\ \/ /\ NoAnswer(t, e, sys.wrong \cup unanswered(e))
                 /\ UNCHANGED <<link, interrupted>>
              \/ NoAnswer(t, e, sys.wrong \cup {"doubt"})
    BY DEF call_fails
  <2> QED BY <2>1 DEF NoAnswer, Respond
<1>2. command_of(e) \notin Lasting /\ "doubt" \notin mishaps
  BY <1>1 DEF Respond, unanswered
<1>3. child_ports' = child_ports /\ mishaps' = mishaps
  <2>1. sys = result(child_ports, FALSE, {})
    BY <1>2, SystemCallsNone DEF BaseInv
  <2> QED BY <1>1, <1>2, <2>1 DEF Respond, result, unanswered
<1>4. pc[t] = "idle" /\ UNCHANGED <<daemon, sent>>
  BY DEF call_fails, posts
<1>5. pc'[t] = "idle"
  BY <1>1 DEF Respond, Return, BaseInv, TypeOK
<1> QED BY <1>1, <1>2, <1>3, <1>4, <1>5
        DEF PortInv, PortsOf, Pending, Unserved, LastSent, SingleThread, daemon

LEMMA SendsPort ==
    ASSUME BaseInv, OneInv, PortInv, SingleThread, NEW t \in Threads, NEW e \in InUse,
           NEW complete \in BOOLEAN, call_sends(t, e, complete)
    PROVE  PortInv'
<1> SUFFICES ASSUME "doubt" \notin mishaps' PROVE PortInv'
  BY DEF PortInv
<1>1. /\ pc[t] = "idle" /\ pc' = [pc EXCEPT ![t] = "header"]
      /\ UNCHANGED <<registered, served, orphans, link, interrupted>>
  BY DEF call_sends, posts, daemon
<1>2. PICK sys \in system_calls(e) :
         /\ child_ports' = sys.reserved /\ mishaps' = mishaps \cup sys.wrong
         /\ \/ /\ link = "open"
               /\ sent' = Append(sent, [cmd |-> command_of(e), named |-> sys.named])
            \/ link = "torn"
  BY DEF call_sends
<1>3. ~interrupted /\ orphans = {} /\ PortsOf(t) /\ link # "torn" /\ OwnCall(t)
  BY <1>2 DEF PortInv, OneInv
<1>4. /\ LastSent' = [cmd |-> command_of(e), named |-> sys.named]
      /\ Len(served') < Len(sent')
  <2>1. sent \in Seq(Sent) /\ Len(sent) \in Nat /\ Len(served) = Len(sent)
    BY <1>1, <1>2, <1>3, Lengths DEF BaseInv, TypeOK, OwnCall
  <2> QED BY <1>1, <1>2, <1>3, <2>1 DEF LastSent
<1>5. pc'[t] = "header"
  BY <1>1 DEF BaseInv, TypeOK
<1>6. PortsOf(t)'
  <2>1. Pending(t)'
    BY <1>4, <1>5 DEF Pending
  <2>2. /\ sys.named => command_of(e) = "CREATE_PRINCIPAL" /\ sys.reserved
        /\ command_of(e) = "DELETE_PRINCIPAL" /\ sys.wrong = {} => ~sys.reserved
        /\ command_of(e) # "DELETE_PRINCIPAL" /\ child_ports => sys.reserved
        /\ ~sys.named /\ sys.reserved => child_ports
    BY SystemCallsPorts DEF BaseInv
  <2>3. /\ "ported" \in registered => child_ports
        /\ mishaps = {} /\ child_ports => "ported" \in registered
    BY <1>1, <1>3 DEF PortsOf, Pending
  <2>4. mishaps' = {} => mishaps = {} /\ sys.wrong = {}
    BY <1>2
  <2> QED BY <1>1, <1>2, <1>4, <1>5, <2>1, <2>2, <2>3, <2>4 DEF PortsOf
<1> QED BY <1>1, <1>3, <1>6 DEF PortInv, SingleThread

LEMMA HeaderPort ==
    ASSUME BaseInv, OneInv, PortInv, SingleThread, NEW t \in Threads, recv_header(t)
    PROVE  PortInv'
<1> SUFFICES ASSUME "doubt" \notin mishaps' PROVE PortInv'
  BY DEF PortInv
<1>1. /\ pc[t] = "header"
      /\ UNCHANGED <<registered, served, orphans, child_ports, interrupted, sent, entry, mine>>
  BY DEF recv_header, daemon
<1>2. ~recv_stray(t)
  BY DEF recv_stray, Respond
<1>3. CASE recv_closed(t)
  <2>1. command_of(entry[t]) \notin Lasting /\ mishaps' = mishaps
    BY <1>3 DEF recv_closed, NoAnswer, Respond, unanswered
  <2>2. PortsOf(t) /\ OwnCall(t) /\ ~interrupted /\ orphans = {}
    BY <2>1 DEF PortInv, OneInv
  <2>3. LastSent.cmd = command_of(entry[t])
    BY <1>1, <2>2 DEF OwnCall, BaseInv, CallInv, LastSent
  <2>4. pc'[t] = "idle"
    BY <1>3 DEF recv_closed, NoAnswer, Respond, Return, BaseInv, TypeOK
  <2>5. Unserved \subseteq {Len(sent)}
    BY <1>1, <2>2, Lengths DEF BaseInv, OwnCall, Unserved
  <2>6. PortsOf(t)'
    BY <1>1, <2>1, <2>2, <2>3, <2>4, <2>5
       DEF PortsOf, Pending, Unserved, LastSent, Lasting
  <2> QED BY <1>1, <2>2, <2>6 DEF PortInv, SingleThread
<1>4. CASE ~recv_closed(t)
  <2>1. pc' = [pc EXCEPT ![t] = "body"] /\ UNCHANGED mishaps
    BY <1>2, <1>4 DEF recv_header
  <2>2. pc'[t] = "body"
    BY <2>1 DEF BaseInv, TypeOK
  <2> QED BY <1>1, <2>1, <2>2 DEF PortInv, PortsOf, Pending, Unserved, LastSent, SingleThread
<1> QED BY <1>3, <1>4

(* A response that leaves no doubt: a yes has put ports and principal in step, and a
   no to a create is recorded as a leak. *)
LEMMA BodyPort ==
    ASSUME BaseInv, OneInv, PortInv, SingleThread, NEW t \in Threads, recv_body(t)
    PROVE  PortInv'
<1> SUFFICES ASSUME "doubt" \notin mishaps' PROVE PortInv'
  BY DEF PortInv
<1>1. /\ pc[t] = "body"
      /\ UNCHANGED <<registered, served, orphans, child_ports, interrupted, sent, entry, mine>>
  BY DEF recv_body, daemon
<1>2. "doubt" \notin mishaps
  BY DEF recv_body, recv_stray, recv_closed, NoAnswer, Respond
<1>3. PortsOf(t) /\ OwnCall(t) /\ ~interrupted /\ orphans = {}
  BY <1>2 DEF PortInv, OneInv
<1>4. /\ expect[t] = Len(sent) /\ mine[t] = Len(sent) /\ mine[t] # 0
      /\ Len(served) = Len(sent) /\ stream # <<>>
  BY <1>1, <1>3 DEF OwnCall
<1>5. LastSent.cmd = command_of(entry[t])
  BY <1>1, <1>4 DEF BaseInv, CallInv, LastSent
<1> DEFINE answer == served[Len(sent)].answer
<1>6. Respond(t, entry[t], answer, refusal(entry[t], answer))
  <2>1. ~recv_stray(t) /\ ~recv_closed(t)
    BY <1>4 DEF recv_stray, recv_closed, Respond
  <2> QED BY <1>4, <2>1 DEF recv_body
<1>7. mishaps' = mishaps \cup refusal(entry[t], answer) /\ pc'[t] = "idle"
  BY <1>6 DEF Respond, Return, BaseInv, TypeOK
<1>8. /\ ~(answer = "false" /\ LastSent.cmd = "DELETE_PRINCIPAL")
      /\ answer = "false" /\ LastSent.cmd = "CREATE_PRINCIPAL" => mishaps' # {}
  BY <1>5, <1>7 DEF refusal
<1>9. Unserved' = {}
  BY <1>1, <1>4, Lengths DEF BaseInv, Unserved
<1>10. PortsOf(t)'
  <2>1. "ported" \in registered => child_ports
    BY <1>3, <1>4, <1>8, Lengths DEF BaseInv, PortsOf, Pending
  <2>2. mishaps' = {} /\ child_ports => "ported" \in registered
    BY <1>1, <1>3, <1>4, <1>7, <1>8, Lengths DEF BaseInv, PortsOf, Pending
  <2> QED BY <1>1, <1>7, <1>9, <2>1, <2>2 DEF PortsOf
<1> QED BY <1>1, <1>3, <1>10 DEF PortInv, SingleThread

(* The daemon answers the last command: a create that names ports adds the principal
   with ports that are reserved, a delete takes it away. *)
LEMMA ServePort ==
    ASSUME BaseInv, OneInv, PortInv, serve
    PROVE  PortInv'
<1> SUFFICES ASSUME "doubt" \notin mishaps', NEW t \in Threads
             PROVE  ~interrupted' /\ orphans' = {} /\ PortsOf(t)'
  BY DEF PortInv, serve
<1> DEFINE n == Len(served) + 1
<1>1. /\ n \in 1 .. Len(sent) /\ Len(served) \in Nat /\ n \in Unserved
      /\ UNCHANGED <<child_ports, mishaps, orphans, interrupted, sent, pc>>
  BY Lengths DEF BaseInv, serve, Unserved, ports, calls
<1>2. ~interrupted /\ orphans = {} /\ PortsOf(t) /\ OwnCall(t)
  BY <1>1 DEF PortInv, OneInv
<1>3. PICK answer, reply :
         /\ served' = Append(served, [answer |-> answer, reply |-> reply])
         /\ registered' \in effects(sent[n], answer)
         /\ answer \in answers(sent[n].cmd, reply)
  BY DEF serve
<1>4. Len(served') = n /\ served'[n].answer = answer
  <2>1. served \in Seq(Served) /\ [answer |-> answer, reply |-> reply].answer = answer
    BY DEF BaseInv, TypeOK
  <2> QED BY <1>3, <2>1
<1>5. CASE pc[t] = "idle"
  <2>1. sent[n].cmd \notin Lasting
    BY <1>1, <1>2, <1>5 DEF PortsOf
  <2>2. registered' = registered
    BY <1>3, <2>1 DEF effects, Lasting
  <2>3. Unserved' \subseteq Unserved
    BY <1>1, <1>4 DEF Unserved
  <2> QED BY <1>1, <1>2, <1>5, <2>2, <2>3 DEF PortsOf, Pending
<1>6. CASE pc[t] # "idle"
  <2>1. n = Len(sent)
    BY <1>1, <1>2, <1>6 DEF OwnCall, BaseInv, TypeOK
  <2>2. LastSent = sent[n] /\ LastSent' = LastSent
    BY <1>1, <2>1 DEF LastSent
  <2>3. LastSent.cmd \in Lasting => answer \in {"true", "false"}
    BY <1>3, <2>2, StatusAnswers DEF StatusCommands, Lasting
  <2>4. answer = "false" => Pending(t)'
    BY <1>1, <1>4, <1>6, <2>1 DEF Pending
  <2>5. "ported" \in registered' /\ ~child_ports
           => answer = "false" /\ LastSent.cmd = "DELETE_PRINCIPAL"
    <3>1. CASE LastSent.cmd = "CREATE_PRINCIPAL"
      BY <1>2, <1>3, <1>6, <2>2, <3>1 DEF PortsOf, effects
    <3>2. CASE LastSent.cmd = "DELETE_PRINCIPAL"
      BY <1>3, <2>2, <2>3, <3>2 DEF effects, Lasting
    <3>3. CASE LastSent.cmd \notin Lasting
      <4>1. registered' = registered
        BY <1>3, <2>2, <3>3 DEF effects, Lasting
      <4> QED BY <1>2, <3>3, <4>1 DEF PortsOf, Lasting
    <3> QED BY <3>1, <3>2, <3>3 DEF Lasting
  <2>6. mishaps = {} /\ child_ports /\ "ported" \notin registered'
           => answer = "false" /\ LastSent.named
    <3> SUFFICES ASSUME mishaps = {}, child_ports, "ported" \notin registered'
                 PROVE  answer = "false" /\ LastSent.named
      OBVIOUS
    <3>1. LastSent.cmd # "DELETE_PRINCIPAL"
      BY <1>2, <1>6 DEF PortsOf
    <3>2. registered \subseteq registered'
      BY <1>3, <2>2, <3>1 DEF effects
    <3>3. LastSent.named /\ LastSent.cmd = "CREATE_PRINCIPAL"
      BY <1>2, <1>6, <3>2 DEF PortsOf
    <3> QED BY <1>3, <2>2, <2>3, <3>3 DEF effects, Lasting
  <2> QED BY <1>1, <1>2, <1>6, <2>2, <2>4, <2>5, <2>6 DEF PortsOf
<1> QED BY <1>5, <1>6

(* When the daemon ends, the principals go and what was not answered never is. *)
LEMMA DaemonPort ==
    ASSUME BaseInv, OneInv, PortInv, close \/ daemon_ends \/ \E c \in orphans : serve_orphan(c)
    PROVE  PortInv'
<1> SUFFICES ASSUME "doubt" \notin mishaps' PROVE PortInv'
  BY DEF PortInv
<1>1. "doubt" \notin mishaps
  BY DEF close, daemon_ends, serve_orphan
<1>2. ~interrupted /\ orphans = {} /\ \A t \in Threads : PortsOf(t) /\ OwnCall(t)
  BY <1>1 DEF PortInv, OneInv
<1>3. CASE close
  BY <1>2, <1>3 DEF close, PortInv, PortsOf, Pending, Unserved, LastSent, ports, daemon, calls
<1>4. CASE daemon_ends
  <2> SUFFICES ASSUME NEW t \in Threads PROVE PortsOf(t)'
    BY <1>2, <1>4 DEF daemon_ends, PortInv
  <2>1. /\ registered' = {} /\ UNCHANGED <<child_ports, sent, pc>>
        /\ mishaps' = {} => registered = {} /\ mishaps = {}
        /\ mishaps' = IF registered = {} THEN mishaps ELSE mishaps \cup {"leak"}
    BY <1>4 DEF daemon_ends, ports, calls
  <2>2. DOMAIN sent = 1 .. Len(sent) /\ Len(sent) \in Nat /\ Len(served) \in 0 .. Len(sent)
    BY Lengths DEF BaseInv, TypeOK
  <2>3. Len(served') = Len(sent)
    <3>1. served' \in Seq(Served) /\ DOMAIN served' = 1 .. Len(sent)
      BY <1>4, <2>2, DaemonBase DEF daemon_ends, BaseInv, TypeOK
    <3> QED BY <2>2, <3>1, LenProperties
  <2>4. Unserved' = {}
    BY <2>1, <2>2, <2>3 DEF Unserved
  <2>5. Pending(t) => Pending(t)'
    <3> SUFFICES ASSUME Pending(t) PROVE served'[Len(sent)].answer = "false"
      BY <2>1 DEF Pending
    <3>1. Len(sent) \in 1 .. Len(sent)
      <4>1. pc[t] \in {"header", "body"}
        BY DEF Pending, BaseInv, TypeOK
      <4>2. Len(sent) # 0
        BY <1>2, <4>1 DEF OwnCall
      <4> QED BY <2>2, <4>2
    <3>2. CASE Len(sent) \in Unserved
      BY <1>4, <2>2, <3>1, <3>2 DEF daemon_ends
    <3>3. CASE Len(sent) \notin Unserved
      <4>1. ~(Len(served) < Len(sent))
        BY <2>2, <3>1, <3>3 DEF Unserved
      <4>2. served'[Len(sent)] = served[Len(sent)]
        BY <1>4, <2>2, <3>1, <3>3 DEF daemon_ends
      <4> QED BY <4>1, <4>2 DEF Pending
    <3> QED BY <3>2, <3>3
  <2> QED BY <1>2, <2>1, <2>4, <2>5 DEF PortsOf, LastSent
<1>5. CASE \E c \in orphans : serve_orphan(c)
  BY <1>2, <1>5
<1> QED BY <1>3, <1>4, <1>5

LEMMA NextPort == SingleThread /\ BaseInv /\ OneInv /\ PortInv /\ [Next]_vars => PortInv'
<1> SUFFICES ASSUME SingleThread, BaseInv, OneInv, PortInv, [Next]_vars PROVE PortInv'
  OBVIOUS
<1>1. CASE UNCHANGED vars
  BY <1>1 DEF PortInv, PortsOf, Pending, Unserved, LastSent, vars, ports, daemon, conn, calls
<1>2. CASE \E t \in Threads : recv_interrupted(t)
  BY <1>2 DEF recv_interrupted, NoAnswer, Respond, PortInv
<1>3. CASE Next
  BY <1>2, <1>3, InitCallPort, RefusedPort, FailsPort, SendsPort, HeaderPort, BodyPort,
     ServePort, DaemonPort DEF Next, Thread
<1> QED BY <1>1, <1>3

(* In an application with one thread, whatever entry points it calls, however often
   it redials and whenever the daemon ends: between calls the daemon vouches for
   ports of the child that are not reserved only after a delete that was refused or a
   call without an answer, and ports are reserved without a principal only after one
   of the recorded mishaps (alloc_child_ports and del_reserved_ports around post in
   create_principal, create_instance, delete_principal, delete_instance). *)
THEOREM PortsTheorem == SingleThread => (Spec => []PortsInStep)
<1> SUFFICES ASSUME SingleThread PROVE Spec => []PortsInStep
  OBVIOUS
<1>1. Init => BaseInv /\ OneInv /\ PortInv
  BY InitBase, InitOne, InitPort
<1>2. BaseInv /\ OneInv /\ PortInv /\ [Next]_vars => (BaseInv /\ OneInv /\ PortInv)'
  BY NextBase, NextOne, NextPort
<1>3. PortInv => PortsInStep
  BY DEF PortInv, PortsOf, Pending, PortsInStep, SingleThread
<1> QED BY <1>1, <1>2, <1>3, PTL DEF Spec
==============================================================================
