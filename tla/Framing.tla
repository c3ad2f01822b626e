------------------------------- MODULE Framing -------------------------------
(***************************************************************************)
(* The framing of messages on a stream socket (include/comm.h, the loops   *)
(* reliable_send and reliable_recv of common/utils.cc, and the session's   *)
(* async_read and async_write): one direction of a connection.             *)
(*                                                                         *)
(* A message is a header with its size and a body.  The kernel takes and   *)
(* gives any number of bytes at a time, in order; a byte is its position   *)
(* in the stream.  What a receiver makes of the bytes at a position        *)
(* depends on what was written there: the header of a message tells its    *)
(* size, any other bytes tell an arbitrary one.                            *)
(*                                                                         *)
(* Either end may give up in the middle of a message: send() or recv()     *)
(* fails (an interrupted call, say; only EAGAIN is retried), or the body   *)
(* does not parse.  A session then closes the connection, a client goes    *)
(* on using it for its next call.                                          *)
(***************************************************************************)
EXTENDS Integers, Sequences

CONSTANTS COMM_HEADER_SZ,  \* bytes of a header
          Sizes,           \* sizes of the messages, and what a stray header may tell
          MaxMessages      \* bound on the messages of a behaviour

ASSUME HeaderAssumption == COMM_HEADER_SZ \in Nat \ {0}
ASSUME SizesAssumption == Sizes \subseteq Nat /\ MaxMessages \in Nat

VARIABLES
    msgs,       \* the messages: where each starts in the stream, and its size
    wpos,       \* bytes written to the stream
    left,       \* size in reliable_send: the bytes of the buffer not sent yet
    rpos,       \* bytes read from the stream
    part,       \* what the receiver reads, or "stopped"
    from,       \* where the part it reads starts
    size,       \* the size that the last header told
    need,       \* size in reliable_recv: the bytes of the part not read yet
    delivered,  \* the numbers of the messages that were parsed
    broken      \* an end has given up

vars == <<msgs, wpos, left, rpos, part, from, size, need, delivered, broken>>
sender == <<msgs, wpos, left>>
receiver == <<rpos, part, from, size, need, delivered>>

Garbage == 0    \* parsed, but not what anybody sent

Init ==
    /\ msgs = <<>> /\ wpos = 0 /\ left = 0
    /\ rpos = 0 /\ part = "header" /\ from = 0 /\ size = 0 /\ need = COMM_HEADER_SZ
    /\ delivered = <<>>
    /\ broken = FALSE

------------------------------------------------------------------------------
(* proto_send_msg: header and body go into one buffer.  serialize_msg and
   write_response do the same at the other end. *)
proto_send_msg(n) ==
    /\ left = 0 /\ Len(msgs) < MaxMessages
    /\ msgs' = Append(msgs, [start |-> wpos, size |-> n])
    /\ left' = COMM_HEADER_SZ + n
    /\ UNCHANGED <<wpos, receiver, broken>>

(* mutant: what send() took is not told from what it was given *)
reliable_send_all(k) ==
    /\ k \in 1 .. left
    /\ wpos' = wpos + k
    /\ left' = 0
    /\ UNCHANGED <<msgs, receiver, broken>>

(* reliable_send: send() has taken k bytes *)
reliable_send(k) ==
    /\ k \in 1 .. left
    /\ wpos' = wpos + k
    /\ left' = left - k
    /\ UNCHANGED <<msgs, receiver, broken>>

(* reliable_send returns an error, or the sender ends: the rest of the message
   is never sent *)
send_fails ==
    /\ left > 0
    /\ left' = 0
    /\ broken' = TRUE
    /\ UNCHANGED <<msgs, wpos, receiver>>

------------------------------------------------------------------------------
(* The next n bytes are read as part p. *)
Expect(p, n) ==
    /\ part' = p
    /\ from' = rpos
    /\ need' = n

(* reliable_recv: recv() has given k bytes *)
reliable_recv(k) ==
    /\ part # "stopped"
    /\ k \in 1 .. need /\ k <= wpos - rpos
    /\ rpos' = rpos + k
    /\ need' = need - k
    /\ UNCHANGED <<sender, part, from, size, delivered, broken>>

(* The first k bytes of message n are where it starts in the stream. *)
Written(n, k) ==
    msgs[n].start + k <= (IF n < Len(msgs) THEN msgs[n + 1].start ELSE wpos)

(* mutant: the size in the header counts the header too *)
HeaderAt_total(pos) ==
    {msgs[n].size + COMM_HEADER_SZ : n \in {m \in 1 .. Len(msgs) : msgs[m].start = pos}}

(* What the COMM_HEADER_SZ bytes at a position tell *)
HeaderAt(pos) ==
    LET here == {n \in 1 .. Len(msgs) :
                    msgs[n].start = pos /\ Written(n, COMM_HEADER_SZ)}
    IN  IF here = {} THEN Sizes ELSE {msgs[n].size : n \in here}

(* mutant: the buffer has one byte more than the body *)
body_size_defense(n) == n + 1

(* the size that proto_recv_msg passes to reliable_recv *)
body_size(n) == n

(* The header is complete: the body comes next. *)
header_received ==
    /\ part = "header" /\ need = 0
    /\ \E n \in HeaderAt(from) :
          size' = n /\ Expect("body", body_size(n))
    /\ UNCHANGED <<sender, rpos, delivered, broken>>

(* The messages whose body is the n bytes at a position. *)
BodyAt(pos, n) ==
    {m \in 1 .. Len(msgs) :
        /\ msgs[m].start + COMM_HEADER_SZ = pos /\ msgs[m].size = n
        /\ Written(m, COMM_HEADER_SZ + n)}

(* mutant: an empty body is waited for *)
body_received_nonempty ==
    /\ part = "body" /\ need = 0 /\ size > 0
    /\ \/ \E m \in BodyAt(from, size) : delivered' = Append(delivered, m)
       \/ BodyAt(from, size) = {} /\ delivered' = Append(delivered, Garbage)
    /\ Expect("header", COMM_HEADER_SZ)
    /\ UNCHANGED <<sender, rpos, size, broken>>

(* The body is complete and ParseFromArray takes it: as the message that it is,
   or bytes of several messages for a message that nobody sent. *)
body_received ==
    /\ part = "body" /\ need = 0
    /\ \/ \E m \in BodyAt(from, size) : delivered' = Append(delivered, m)
       \/ BodyAt(from, size) = {} /\ delivered' = Append(delivered, Garbage)
    /\ Expect("header", COMM_HEADER_SZ)
    /\ UNCHANGED <<sender, rpos, size, broken>>

(* The receiver gives up: recv() fails in the middle of a part, or bytes that
   are no message do not parse.  The session stops, the client starts over
   with a header at the next byte. *)
recv_fails ==
    /\ \/ part \in {"header", "body"} /\ need > 0
       \/ part = "body" /\ need = 0 /\ BodyAt(from, size) = {}
    /\ broken' = TRUE
    /\ \/ Expect("header", COMM_HEADER_SZ)
       \/ part' = "stopped" /\ UNCHANGED <<from, need>>
    /\ UNCHANGED <<sender, rpos, size, delivered>>

Sender == \E k \in 1 .. left : reliable_send(k)
Receiver == (\E k \in 1 .. need : reliable_recv(k)) \/ header_received \/ body_received

Next ==
    \/ \E n \in Sizes : proto_send_msg(n)
    \/ Sender \/ Receiver
    \/ send_fails \/ recv_fails

Spec == Init /\ [][Next]_vars

(* Both loops go on until they are done or fail. *)
FairSpec == Spec /\ WF_vars(Sender) /\ WF_vars(Receiver)

------------------------------------------------------------------------------
(* The buffers and positions of both ends of reliable_send and reliable_recv. *)
TypeOK ==
    /\ msgs \in Seq([start : Nat, size : Sizes])
    /\ wpos \in Nat /\ left \in Nat /\ rpos \in Nat /\ from \in Nat /\ need \in Nat
    /\ size \in Sizes \cup {0}
    /\ part \in {"header", "body", "stopped"}
    /\ delivered \in Seq(Nat)
    /\ broken \in BOOLEAN

(* Where message n ends; and where the next one to be received starts. *)
EndOf(n) == msgs[n].start + COMM_HEADER_SZ + msgs[n].size
Boundary(n) == IF n = 0 THEN 0 ELSE EndOf(n)

(* The receiver is in step with the sender, however the bytes were cut up on
   the way: it reads the header or the body of the message after the last one
   delivered, and has not read past it. *)
InStep ==
    ~broken =>
        LET done == Len(delivered)
        IN  /\ done <= Len(msgs)
            /\ \/ part = "header" /\ from = Boundary(done)
                     /\ rpos + need = from + COMM_HEADER_SZ
               \/ part = "body" /\ done < Len(msgs)
                     /\ from = Boundary(done) + COMM_HEADER_SZ
                     /\ size = msgs[done + 1].size
                     /\ rpos + need = from + size

(* One direction of a connection is a channel of messages: no message is lost,
   duplicated, reordered or cut before an end has reported an error. *)
Channel == INSTANCE MessageChannel WITH sent <- Len(msgs)
KeepsChannel == Channel!Spec

(* Every message that is sent arrives, unless an end has given up: the loops
   end for every way the bytes are cut up, also for an empty body. *)
Arrives ==
    \A n \in 1 .. MaxMessages :
        Len(msgs) >= n ~> Len(delivered) >= n \/ broken
==============================================================================
