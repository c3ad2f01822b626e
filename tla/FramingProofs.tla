---------------------------- MODULE FramingProofs ----------------------------
(***************************************************************************)
(* For a header and messages of any sizes: however the kernel cuts up the  *)
(* stream, the receiver stays in step with the sender, and the connection  *)
(* is a channel of messages, until an end gives up.                        *)
(***************************************************************************)
EXTENDS Framing, TLAPS

USE HeaderAssumption, SizesAssumption

(* The messages lie in the stream one behind the other, the last one reaches to
   where its sender will have written, and nothing is read before it is written. *)
Contiguous ==
    ~broken =>
        /\ \A n \in 1 .. Len(msgs) : msgs[n].start = Boundary(n - 1)
        /\ \A m, n \in 1 .. Len(msgs) : m < n => EndOf(m) <= msgs[n].start
        /\ wpos + left = Boundary(Len(msgs))
        /\ rpos <= wpos

IInv == TypeOK /\ InStep /\ Contiguous

(* Positions and sizes are numbers. *)
LEMMA Positions ==
    ASSUME TypeOK
    PROVE  /\ Len(msgs) \in Nat /\ Len(delivered) \in Nat
           /\ \A n \in 1 .. Len(msgs) :
                 /\ msgs[n].start \in Nat /\ msgs[n].size \in Sizes /\ msgs[n].size \in Nat
                 /\ EndOf(n) = msgs[n].start + COMM_HEADER_SZ + msgs[n].size
                 /\ Boundary(n) = EndOf(n) /\ EndOf(n) \in Nat
           /\ Boundary(0) = 0
<1> DEFINE M == [start : Nat, size : Sizes]
<1>1. msgs \in Seq(M) /\ delivered \in Seq(Nat)
  BY DEF TypeOK
<1>2. Len(msgs) \in Nat /\ Len(delivered) \in Nat /\ \A n \in 1 .. Len(msgs) : msgs[n] \in M
  <2> HIDE DEF M
  <2> QED BY <1>1
<1>3. \A r \in M : r.start \in Nat /\ r.size \in Sizes /\ r.size \in Nat
  OBVIOUS
<1>4. \A n \in 1 .. Len(msgs) : msgs[n].start \in Nat /\ msgs[n].size \in Sizes /\ msgs[n].size \in Nat
  <2> HIDE DEF M
  <2> QED BY <1>2, <1>3
<1> QED BY <1>2, <1>4 DEF EndOf, Boundary

LEMMA InitIInv == Init => IInv
<1> SUFFICES ASSUME Init PROVE IInv
  OBVIOUS
<1>1. TypeOK
  <2>1. \A S : <<>> \in Seq(S)
    OBVIOUS
  <2>2. msgs \in Seq([start : Nat, size : Sizes]) /\ delivered \in Seq(Nat)
    BY <2>1, Zenon DEF Init
  <2> QED BY <2>2 DEF Init, TypeOK
<1>2. InStep
  BY DEF Init, InStep, Boundary
<1>3. Contiguous
  BY DEF Init, Contiguous, Boundary
<1> QED BY <1>1, <1>2, <1>3 DEF IInv

(* A complete header of a receiver in step is the one of the next message. *)
LEMMA HeaderInStep ==
    ASSUME IInv, ~broken, part = "header", need = 0
    PROVE  /\ Len(delivered) < Len(msgs)
           /\ HeaderAt(from) = {msgs[Len(delivered) + 1].size}
<1> DEFINE next == Len(delivered) + 1
<1>1. /\ from = Boundary(Len(delivered))
      /\ from + COMM_HEADER_SZ <= wpos
      /\ Len(delivered) <= Len(msgs)
      /\ Len(delivered) \in Nat /\ Len(msgs) \in Nat
  BY DEF IInv, TypeOK, InStep, Contiguous
<1>2. Len(delivered) < Len(msgs)
  BY <1>1 DEF IInv, TypeOK, Contiguous
<1>3. next \in 1 .. Len(msgs) /\ msgs[next].start = from
  BY <1>1, <1>2 DEF IInv, Contiguous
<1>4. Written(next, COMM_HEADER_SZ)
  <2>1. CASE next < Len(msgs)
    <3>1. EndOf(next) <= msgs[next + 1].start
      BY <1>1, <1>3, <2>1 DEF IInv, Contiguous
    <3>2. msgs[next].start \in Nat /\ msgs[next].size \in Nat /\ msgs[next + 1].start \in Nat
      BY <1>1, <1>3, <2>1, Positions DEF IInv
    <3> QED BY <3>1, <3>2, <2>1 DEF Written, EndOf
  <2>2. CASE ~(next < Len(msgs))
    BY <1>1, <1>3, <2>2 DEF Written
  <2> QED BY <2>1, <2>2
<1>5. ASSUME NEW n \in 1 .. Len(msgs), msgs[n].start = from PROVE n = next
  <2>1. /\ msgs[n].start \in Nat /\ msgs[n].size \in Nat /\ msgs[next].size \in Nat
        /\ n \in Nat /\ next \in Nat /\ from \in Nat
    BY <1>1, <1>3, Positions DEF IInv, TypeOK
  <2>2. /\ n < next => EndOf(n) <= msgs[next].start
        /\ next < n => EndOf(next) <= msgs[n].start
    BY <1>3 DEF IInv, Contiguous
  <2>3. ~(n < next) /\ ~(next < n)
    BY <1>3, <1>5, <2>1, <2>2 DEF EndOf
  <2> QED BY <2>1, <2>3
<1>6. {n \in 1 .. Len(msgs) : msgs[n].start = from /\ Written(n, COMM_HEADER_SZ)} = {next}
  BY <1>3, <1>4, <1>5
<1> QED BY <1>2, <1>6 DEF HeaderAt

(* A complete body of a receiver in step is the one of the next message. *)
LEMMA BodyInStep ==
    ASSUME IInv, ~broken, part = "body", need = 0
    PROVE  /\ Len(delivered) < Len(msgs)
           /\ BodyAt(from, size) = {Len(delivered) + 1}
           /\ rpos = Boundary(Len(delivered) + 1)
<1> DEFINE next == Len(delivered) + 1
<1>1. /\ from = Boundary(Len(delivered)) + COMM_HEADER_SZ
      /\ size = msgs[next].size
      /\ rpos = from + size /\ rpos <= wpos
      /\ Len(delivered) < Len(msgs)
      /\ Len(delivered) \in Nat /\ Len(msgs) \in Nat
  BY DEF IInv, TypeOK, InStep, Contiguous
<1>2. next \in 1 .. Len(msgs) /\ next - 1 = Len(delivered)
  BY <1>1
<1>3. msgs[next].start \in Nat /\ msgs[next].size \in Nat /\ from \in Nat
  BY <1>2, Positions DEF IInv, TypeOK
<1>4. msgs[next].start = Boundary(Len(delivered))
  BY <1>2 DEF IInv, Contiguous
<1>5. EndOf(next) = from + size /\ Boundary(next) = EndOf(next)
  BY <1>1, <1>2, <1>3, <1>4 DEF EndOf, Boundary
<1>6. Written(next, COMM_HEADER_SZ + size)
  <2>1. CASE next < Len(msgs)
    <3>1. next + 1 \in 1 .. Len(msgs) /\ next < next + 1
      BY <1>1, <2>1
    <3>2. EndOf(next) <= msgs[next + 1].start
      BY <1>2, <3>1 DEF IInv, Contiguous
    <3> QED BY <1>1, <1>3, <1>5, <2>1, <3>2 DEF Written, EndOf
  <2>2. CASE ~(next < Len(msgs))
    BY <1>1, <1>3, <1>4, <2>2 DEF Written
  <2> QED BY <2>1, <2>2
<1>7. ASSUME NEW m \in 1 .. Len(msgs), msgs[m].start + COMM_HEADER_SZ = from
      PROVE  m = next
  <2>1. msgs[m].start \in Nat /\ msgs[m].size \in Nat
    BY Positions DEF IInv
  <2>2. msgs[m].start = msgs[next].start
    BY <1>1, <1>3, <1>4, <1>7, <2>1
  <2>3. /\ m < next => EndOf(m) <= msgs[next].start
        /\ next < m => EndOf(next) <= msgs[m].start
    BY <1>2 DEF IInv, Contiguous
  <2>4. ~(m < next) /\ ~(next < m)
    BY <1>3, <2>1, <2>2, <2>3 DEF EndOf
  <2> QED BY <1>1, <1>2, <2>4
<1>8. BodyAt(from, size) = {next}
  BY <1>1, <1>2, <1>3, <1>4, <1>6, <1>7 DEF BodyAt
<1> QED BY <1>1, <1>5, <1>8

------------------------------------------------------------------------------
(* The sender's steps *)

LEMMA SendMsgIInv ==
    ASSUME IInv, NEW n \in Sizes, proto_send_msg(n)
    PROVE  IInv'
<1> DEFINE r == [start |-> wpos, size |-> n]
<1>1. /\ Len(msgs') = Len(msgs) + 1
      /\ \A i \in 1 .. Len(msgs) : msgs'[i] = msgs[i]
      /\ msgs'[Len(msgs) + 1] = r
      /\ msgs' \in Seq([start : Nat, size : Sizes])
      /\ Len(msgs) \in Nat
  BY DEF IInv, TypeOK, proto_send_msg
<1>2. TypeOK'
  BY <1>1 DEF IInv, TypeOK, proto_send_msg, receiver
<1>3. CASE broken
  BY <1>2, <1>3 DEF IInv, InStep, Contiguous, proto_send_msg
<1>4. CASE ~broken
  <2>1. \A i \in 0 .. Len(msgs) : Boundary(i)' = Boundary(i)
    BY <1>1 DEF Boundary, EndOf
  <2>2. wpos' = wpos /\ left = 0 /\ left' = COMM_HEADER_SZ + n /\ n \in Nat /\ wpos \in Nat
    BY DEF IInv, TypeOK, proto_send_msg
  <2>3. Boundary(Len(msgs)) = wpos
    BY <1>4, <2>2 DEF IInv, Contiguous
  <2>4. Boundary(Len(msgs))' = wpos + COMM_HEADER_SZ + n
    <3>1. msgs'[Len(msgs')].start = wpos /\ msgs'[Len(msgs')].size = n
      BY <1>1
    <3>2. EndOf(Len(msgs))' = wpos + COMM_HEADER_SZ + n
      BY <1>1, <2>2, <3>1 DEF EndOf
    <3> QED BY <1>1, <3>2 DEF Boundary
  <2>5. InStep'
    <3>1. /\ UNCHANGED <<rpos, part, from, size, need, delivered, broken>>
          /\ Len(delivered) \in Nat
      BY DEF IInv, TypeOK, proto_send_msg, receiver
    <3>2. Len(delivered) <= Len(msgs)
      BY <1>4 DEF IInv, InStep
    <3>3. Boundary(Len(delivered))' = Boundary(Len(delivered))
      BY <1>1, <3>1, <3>2 DEF Boundary, EndOf
    <3>4. Len(delivered) < Len(msgs) => msgs'[Len(delivered) + 1] = msgs[Len(delivered) + 1]
      BY <1>1, <3>1
    <3> QED BY <1>1, <1>4, <3>1, <3>2, <3>3, <3>4 DEF IInv, InStep
  <2>6. \A i \in 1 .. Len(msgs') : msgs'[i].start = Boundary(i - 1)'
    <3>1. TAKE i \in 1 .. Len(msgs')
    <3>2. CASE i = Len(msgs) + 1
      BY <1>1, <2>1, <2>3, <3>2
    <3>3. CASE i \in 1 .. Len(msgs)
      <4>1. msgs'[i] = msgs[i] /\ i - 1 \in 0 .. Len(msgs)
        BY <1>1, <3>3
      <4>2. msgs[i].start = Boundary(i - 1)
        BY <1>4, <3>3 DEF IInv, Contiguous
      <4> QED BY <2>1, <4>1, <4>2
    <3> QED BY <1>1, <3>2, <3>3
  <2>7. \A i \in 1 .. Len(msgs) : EndOf(i) \in Nat /\ EndOf(i) <= wpos
    <3>1. TAKE i \in 1 .. Len(msgs)
    <3>2. Len(msgs) \in 1 .. Len(msgs)
      BY <1>1
    <3>3. /\ msgs[Len(msgs)].start \in Nat /\ msgs[Len(msgs)].size \in Nat
           /\ EndOf(Len(msgs)) = msgs[Len(msgs)].start + COMM_HEADER_SZ + msgs[Len(msgs)].size
           /\ EndOf(Len(msgs)) = wpos
           /\ EndOf(i) \in Nat
      BY <2>3, <3>2, Positions DEF IInv
    <3>4. i < Len(msgs) => EndOf(i) <= msgs[Len(msgs)].start
      BY <1>4, <3>2 DEF IInv, Contiguous
    <3>5. CASE i = Len(msgs)
      BY <2>2, <3>3, <3>5
    <3>6. CASE i < Len(msgs)
      BY <2>2, <3>3, <3>4, <3>6
    <3> QED BY <1>1, <3>5, <3>6
  <2>8. \A i, j \in 1 .. Len(msgs') : i < j => EndOf(i)' <= msgs'[j].start
    <3>1. TAKE i, j \in 1 .. Len(msgs')
    <3>2. HAVE i < j
    <3>3. i \in 1 .. Len(msgs) /\ msgs'[i] = msgs[i]
      BY <1>1, <3>2
    <3>4. EndOf(i)' = EndOf(i)
      BY <3>3 DEF EndOf
    <3>5. CASE j = Len(msgs) + 1
      BY <1>1, <2>7, <3>3, <3>4, <3>5
    <3>6. CASE j \in 1 .. Len(msgs)
      BY <1>1, <1>4, <3>2, <3>3, <3>4, <3>6 DEF IInv, Contiguous
    <3> QED BY <1>1, <3>5, <3>6
  <2>9. rpos' <= wpos' /\ wpos' + left' = Boundary(Len(msgs))'
    BY <1>4, <2>2, <2>4 DEF IInv, Contiguous, proto_send_msg, receiver
  <2>10. Contiguous'
    BY <2>6, <2>8, <2>9 DEF Contiguous
  <2> QED BY <1>2, <2>5, <2>10 DEF IInv
<1> QED BY <1>3, <1>4

LEMMA SendIInv ==
    ASSUME IInv, NEW k \in 1 .. left, reliable_send(k)
    PROVE  IInv'
<1>1. TypeOK'
  BY DEF IInv, TypeOK, reliable_send, receiver
<1>2. InStep'
  BY DEF IInv, InStep, Boundary, EndOf, reliable_send, receiver
<1>3. Contiguous'
  BY DEF IInv, TypeOK, Contiguous, Boundary, EndOf, reliable_send, receiver
<1> QED BY <1>1, <1>2, <1>3 DEF IInv

LEMMA FailsIInv ==
    ASSUME IInv, send_fails \/ recv_fails
    PROVE  IInv'
<1>1. TypeOK'
  <2>1. CASE send_fails
    BY <2>1 DEF IInv, TypeOK, send_fails, receiver
  <2>2. CASE recv_fails
    <3>1. broken' = TRUE /\ UNCHANGED <<msgs, wpos, left, rpos, size, delivered>>
      BY <2>2 DEF recv_fails, sender
    <3>2. /\ part' \in {"header", "stopped"}
          /\ from' \in {rpos, from} /\ need' \in {COMM_HEADER_SZ, need}
      BY <2>2 DEF recv_fails, Expect
    <3> QED BY <3>1, <3>2 DEF IInv, TypeOK
  <2> QED BY <2>1, <2>2
<1>2. broken'
  BY DEF send_fails, recv_fails
<1> QED BY <1>1, <1>2 DEF IInv, InStep, Contiguous

------------------------------------------------------------------------------
(* The receiver's steps *)

LEMMA RecvIInv ==
    ASSUME IInv, NEW k \in 1 .. need, reliable_recv(k)
    PROVE  IInv'
<1>1. TypeOK'
  BY DEF IInv, TypeOK, reliable_recv, sender
<1>2. InStep'
  BY DEF IInv, TypeOK, InStep, Boundary, EndOf, reliable_recv, sender
<1>3. Contiguous'
  BY DEF IInv, TypeOK, Contiguous, Boundary, EndOf, reliable_recv, sender
<1> QED BY <1>1, <1>2, <1>3 DEF IInv

LEMMA HeaderIInv ==
    ASSUME IInv, header_received
    PROVE  IInv'
<1>1. HeaderAt(from) \subseteq Sizes
  BY Positions DEF IInv, HeaderAt
<1>2. TypeOK'
  BY <1>1 DEF IInv, TypeOK, header_received, Expect, body_size, sender
<1>3. Contiguous'
  BY DEF IInv, Contiguous, Boundary, EndOf, header_received, sender
<1>4. InStep'
  <2>1. CASE broken
    BY <2>1 DEF InStep, header_received
  <2>2. CASE ~broken
    <3>1. /\ Len(delivered) < Len(msgs)
          /\ HeaderAt(from) = {msgs[Len(delivered) + 1].size}
      BY <2>2, HeaderInStep DEF header_received
    <3>2. /\ from = Boundary(Len(delivered))
          /\ rpos = from + COMM_HEADER_SZ
      BY <2>2 DEF IInv, TypeOK, InStep, header_received
    <3>3. Boundary(Len(delivered))' = Boundary(Len(delivered))
      BY DEF Boundary, EndOf, header_received, sender
    <3> QED BY <2>2, <3>1, <3>2, <3>3
            DEF InStep, IInv, TypeOK, header_received, Expect, body_size, sender
  <2> QED BY <2>1, <2>2
<1> QED BY <1>2, <1>3, <1>4 DEF IInv

(* A body that is taken for a message of the sender's is numbered like it. *)
LEMMA BodyDelivers ==
    ASSUME IInv, body_received
    PROVE  /\ Len(delivered') = Len(delivered) + 1
           /\ delivered' \in Seq(Nat)
           /\ ~broken => delivered' = Append(delivered, Len(delivered) + 1)
<1>1. PICK m \in Nat : /\ delivered' = Append(delivered, m)
                       /\ m \in BodyAt(from, size) \/ BodyAt(from, size) = {}
  BY DEF IInv, TypeOK, body_received, BodyAt, Garbage
<1>2. ~broken => m = Len(delivered) + 1
  BY <1>1, BodyInStep DEF body_received
<1> QED BY <1>1, <1>2 DEF IInv, TypeOK

LEMMA BodyIInv ==
    ASSUME IInv, body_received
    PROVE  IInv'
<1>1. TypeOK'
  BY BodyDelivers DEF IInv, TypeOK, body_received, Expect, sender
<1>2. Contiguous'
  BY DEF IInv, Contiguous, Boundary, EndOf, body_received, sender
<1>3. InStep'
  <2>1. CASE broken
    BY <2>1 DEF InStep, body_received
  <2>2. CASE ~broken
    <3>1. /\ Len(delivered) < Len(msgs)
          /\ rpos = Boundary(Len(delivered) + 1)
      BY <2>2, BodyInStep DEF body_received
    <3>2. /\ UNCHANGED <<msgs, rpos>> /\ part' = "header"
          /\ from' = rpos /\ need' = COMM_HEADER_SZ
          /\ Len(delivered') = Len(delivered) + 1
      BY BodyDelivers DEF body_received, sender, Expect
    <3>3. Boundary(Len(delivered))' = Boundary(Len(delivered) + 1)
      BY <3>2 DEF Boundary, EndOf
    <3>4. Len(delivered) \in Nat /\ Len(msgs) \in Nat
      BY Positions DEF IInv
    <3> QED BY <3>1, <3>2, <3>3, <3>4 DEF InStep
  <2> QED BY <2>1, <2>2
<1> QED BY <1>1, <1>2, <1>3 DEF IInv

------------------------------------------------------------------------------
LEMMA NextIInv == IInv /\ [Next]_vars => IInv'
<1> SUFFICES ASSUME IInv, [Next]_vars PROVE IInv'
  OBVIOUS
<1>1. CASE UNCHANGED vars
  BY <1>1 DEF IInv, TypeOK, InStep, Contiguous, Boundary, EndOf, vars
<1>2. CASE Next
  BY <1>2, SendMsgIInv, SendIInv, FailsIInv, RecvIInv, HeaderIInv, BodyIInv
     DEF Next, Sender, Receiver
<1> QED BY <1>1, <1>2

(* The receiver of proto_recv_msg and of the session is in step with the sender
   of proto_send_msg, for every size and every cut of the stream, until send or
   recv fails. *)
THEOREM InStepTheorem == Spec => []InStep
<1>1. IInv => InStep
  BY DEF IInv
<1> QED BY <1>1, InitIInv, NextIInv, PTL DEF Spec

(* Types of the positions and buffers of reliable_send and reliable_recv. *)
THEOREM TypeTheorem == Spec => []TypeOK
<1>1. IInv => TypeOK
  BY DEF IInv
<1> QED BY <1>1, InitIInv, NextIInv, PTL DEF Spec

(* One direction of a connection implements a channel of messages. *)
LEMMA ChannelInit == Init => Channel!Init
BY DEF Init, Channel!Init

LEMMA ChannelStep == IInv /\ [Next]_vars => [Channel!Next]_(Channel!vars)
<1> SUFFICES ASSUME IInv, [Next]_vars PROVE [Channel!Next]_(Channel!vars)
  OBVIOUS
<1>1. ASSUME NEW n \in Sizes, proto_send_msg(n) PROVE Channel!Send
  BY <1>1 DEF IInv, TypeOK, proto_send_msg, receiver, Channel!Send
<1>2. ASSUME NEW k \in 1 .. left, reliable_send(k) PROVE UNCHANGED Channel!vars
  BY <1>2 DEF reliable_send, receiver, Channel!vars
<1>3. ASSUME NEW k \in 1 .. need, reliable_recv(k) PROVE UNCHANGED Channel!vars
  BY <1>3 DEF reliable_recv, sender, Channel!vars
<1>4. ASSUME header_received PROVE UNCHANGED Channel!vars
  BY <1>4 DEF header_received, sender, Channel!vars
<1>5. ASSUME body_received PROVE Channel!Deliver \/ Channel!OutOfStep
  <2>1. CASE broken
    BY <1>5, <2>1 DEF body_received, sender, Channel!OutOfStep
  <2>2. CASE ~broken
    BY <1>5, <2>2, BodyDelivers, BodyInStep DEF body_received, sender, Channel!Deliver
  <2> QED BY <2>1, <2>2
<1>6. ASSUME send_fails \/ recv_fails PROVE Channel!GiveUp
  BY <1>6 DEF send_fails, recv_fails, Expect, sender, receiver, Channel!GiveUp
<1>7. ASSUME UNCHANGED vars PROVE UNCHANGED Channel!vars
  BY <1>7 DEF vars, Channel!vars
<1> QED BY <1>1, <1>2, <1>3, <1>4, <1>5, <1>6, <1>7
        DEF Next, Sender, Receiver, Channel!Next

(* KeepsChannel for every size and every cut: what the parsers of both ends are
   given are the messages, whole, once and in order, until an end gives up. *)
THEOREM ChannelTheorem == Spec => KeepsChannel
<1> QED BY InitIInv, NextIInv, ChannelInit, ChannelStep, PTL
        DEF Spec, KeepsChannel, Channel!Spec
==============================================================================
