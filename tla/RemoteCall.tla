------------------------------ MODULE RemoteCall ------------------------------
(***************************************************************************)
(* What post() promises its caller, without sessions, threads and buffers. *)
(* Commands are executed in the order of the calls, each of them once or   *)
(* never, and the answers come back in that order.  A call that returns    *)
(* takes the next answer; one that fails because the connection has ended  *)
(* had its command not executed, and it never will be.                     *)
(*                                                                         *)
(* A call may also fail halfway (cut).  One that gives up on its answer    *)
(* does not know whether the command was or will be executed, and the      *)
(* answer stays for the next call.  One that has sent half of its command  *)
(* leaves the rest of the connection to chance.  A caller learns of either *)
(* as of any other failure.  The daemon does not end here.  Daemon         *)
(* implements this specification.                                          *)
(***************************************************************************)
EXTENDS Integers, Sequences

CONSTANTS Clients,    \* the callers
          Sizes,      \* sizes of the commands
          MaxPosts,   \* bound on the number of calls of each client
          Limit,      \* the size up to which a command is executed as it was sent
          Failure,    \* a call that has failed
          Garbage     \* a command that is not the one sent, or an answer that is none

VARIABLES
    client,   \* per client: "new", "idle", "posting", or "gone"
    posted,   \* the command of the last call: its number and its size
    got,      \* what the last call returned
    cut,      \* what calls that failed halfway have left: "command", "answer"
    pending,  \* the commands, from the call to the execution
    answer    \* their answers, from the execution to the return of a call

vars == <<client, posted, got, cut, pending, answer>>

Init ==
    /\ client = [c \in Clients |-> "new"]
    /\ posted = [c \in Clients |-> [n |-> 0, size |-> 0]]
    /\ got = [c \in Clients |-> 0]
    /\ cut = [c \in Clients |-> {}]
    /\ pending = [c \in Clients |-> <<>>]
    /\ answer = [c \in Clients |-> <<>>]

Connect(c) ==
    /\ client[c] = "new"
    /\ client' = [client EXCEPT ![c] = "idle"]
    /\ UNCHANGED <<posted, got, cut, pending, answer>>

(* The command is accepted, or the call fails at once, with half of it sent or none. *)
Call(c, size) ==
    /\ client[c] = "idle"
    /\ posted[c].n < MaxPosts[c]
    /\ posted' = [posted EXCEPT ![c] = [n |-> @.n + 1, size |-> size]]
    /\ \/ /\ pending' = [pending EXCEPT ![c] = Append(@, posted'[c])]
          /\ client' = [client EXCEPT ![c] = "posting"]
          /\ UNCHANGED <<got, cut>>
       \/ /\ got' = [got EXCEPT ![c] = Failure]
          /\ cut' \in {cut, [cut EXCEPT ![c] = @ \cup {"command"}]}
          /\ UNCHANGED <<client, pending>>
    /\ UNCHANGED answer

Answers(cmd) == IF cmd.size <= Limit THEN {cmd.n} ELSE {cmd.n, Garbage}

(* The next command is taken, and with it the right to execute it. *)
Execute(c) ==
    /\ "command" \notin cut[c]
    /\ pending[c] # <<>>
    /\ \E n \in Answers(Head(pending[c])) : answer' = [answer EXCEPT ![c] = Append(@, n)]
    /\ pending' = [pending EXCEPT ![c] = Tail(@)]
    /\ UNCHANGED <<client, posted, got, cut>>

(* Behind half a command: some of what is pending is taken for one command. *)
ExecuteStray(c) ==
    /\ "command" \in cut[c]
    /\ \E k \in 1 .. Len(pending[c]) :
          pending' = [pending EXCEPT ![c] = SubSeq(@, k + 1, Len(@))]
    /\ \E n \in {Head(pending[c]).n, Garbage} : answer' = [answer EXCEPT ![c] = Append(@, n)]
    /\ UNCHANGED <<client, posted, got, cut>>

(* The connection ends before the commands were executed. *)
Drop(c) ==
    /\ pending[c] # <<>>
    /\ pending' = [pending EXCEPT ![c] = <<>>]
    /\ UNCHANGED <<client, posted, got, cut, answer>>

(* The call returns the next answer; it fails only if there is none and will be none. *)
Return(c) ==
    /\ client[c] = "posting"
    /\ \/ /\ answer[c] # <<>>
          /\ got' = [got EXCEPT ![c] = Head(answer[c])]
          /\ answer' = [answer EXCEPT ![c] = Tail(@)]
       \/ /\ answer[c] = <<>> /\ pending[c] = <<>>
          /\ got' = [got EXCEPT ![c] = Failure]
          /\ UNCHANGED answer
    /\ client' = [client EXCEPT ![c] = "idle"]
    /\ UNCHANGED <<posted, cut, pending>>

(* The call gives up. *)
GiveUp(c) ==
    /\ client[c] = "posting"
    /\ got' = [got EXCEPT ![c] = Failure]
    /\ cut' = [cut EXCEPT ![c] = @ \cup {"answer"}]
    /\ client' = [client EXCEPT ![c] = "idle"]
    /\ UNCHANGED <<posted, pending, answer>>

(* After a call has given up: some of the answers are taken for one, or for none. *)
Misread(c) ==
    /\ client[c] = "posting" /\ "answer" \in cut[c]
    /\ \E n \in {Garbage, Failure} : got' = [got EXCEPT ![c] = n]
    /\ \E k \in 0 .. Len(answer[c]) :
          answer' = [answer EXCEPT ![c] = SubSeq(@, k + 1, Len(@))]
    /\ client' = [client EXCEPT ![c] = "idle"]
    /\ UNCHANGED <<posted, cut, pending>>

(* The caller ends; what it was sending may be lost. *)
Exit(c) ==
    /\ client[c] \in {"idle", "posting"}
    /\ client' = [client EXCEPT ![c] = "gone"]
    /\ \/ UNCHANGED pending
       \/ /\ client[c] = "posting" /\ pending[c] # <<>>
          /\ pending' = [pending EXCEPT ![c] = SubSeq(@, 1, Len(@) - 1)]
    /\ UNCHANGED <<posted, got, cut, answer>>

(* An answer that nobody waits for; the connection ends with it. *)
Discard(c) ==
    /\ client[c] = "gone"
    /\ answer[c] # <<>>
    /\ answer' = [answer EXCEPT ![c] = SubSeq(@, 1, Len(@) - 1)]
    /\ pending' = [pending EXCEPT ![c] = <<>>]
    /\ UNCHANGED <<client, posted, got, cut>>

Next ==
    \E c \in Clients :
       \/ Connect(c) \/ Execute(c) \/ ExecuteStray(c) \/ Drop(c) \/ Return(c)
       \/ GiveUp(c) \/ Misread(c) \/ Exit(c) \/ Discard(c)
       \/ \E size \in Sizes : Call(c, size)

Spec == Init /\ [][Next]_vars
===============================================================================
