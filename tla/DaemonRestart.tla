---------------------------- MODULE DaemonRestart ----------------------------
(***************************************************************************)
(* The attestation manager over several lives of the daemon process.       *)
(* main() starts with gn_ = 0 and no principals, removes the old socket    *)
(* and listens on a new one; nothing was saved.  The metadata service      *)
(* keeps its instances, calls of the last life may still reach it, and a   *)
(* client process gets a new connection only by calling liblatte_init      *)
(* again: redial() is called in the constructor of AttGuardClient alone.   *)
(***************************************************************************)
EXTENDS AttestationManager

CONSTANT MaxRestarts   \* bound on the restarts of a behaviour

ASSUME MaxRestartsAssumption == MaxRestarts \in Nat

VARIABLES
    connected,  \* the sessions with a connection to the daemon that runs now
    late,       \* external: calls of earlier lives on their way to the service
    crossed,    \* history: the names that such calls have reached in this life
    restarts    \* number of restarts so far

lifeVars == <<connected, late, crossed, restarts>>
allVars == <<vars, lifeVars>>

Calls == [op : {"post", "delete"}, name : Names]

(* The call to the service that a handler is in. *)
call_of(s) == [op |-> IF pc[s] = "post_instance" THEN "post" ELSE "delete", name |-> MyName(s)]
Calling == {s \in Sessions : pc[s] \in {"post_instance", "delete_instance"}}

RestartInit ==
    /\ Init
    /\ connected = Sessions
    /\ late = {} /\ crossed = {} /\ restarts = 0

(* mutant: the connections outlive the daemon *)
disconnect_none == UNCHANGED connected

(* All sockets of the old process are closed. *)
disconnect == connected' = {}

(* init_manager in the new process *)
forget == gn_' = 0 /\ principals_' = {}

(* The daemon ends, at any step of its handlers, and main() runs again.  A
   client inside post() is told status(false); what was erased and answered
   belongs to the old life. *)
restart ==
    /\ restarts < MaxRestarts
    /\ restarts' = restarts + 1
    /\ forget
    /\ plock_' = NoSession
    /\ retired' = {}
    /\ pc' = [s \in Sessions |-> "idle"]
    /\ answer' = [s \in Sessions |-> IF pc[s] = "idle" THEN answer[s] ELSE "false"]
    /\ late' = late \cup {call_of(s) : s \in Calling}
    /\ crossed' = {}
    /\ disconnect
    /\ UNCHANGED <<live, req, mine, requests>>

(* external: a call of an earlier life is applied, or is lost *)
late_call(c) ==
    /\ c \in late
    /\ late' = late \ {c}
    /\ \/ /\ live' = IF c.op = "post" THEN live \cup {c.name} ELSE live \ {c.name}
          /\ crossed' = crossed \cup {c.name}
       \/ UNCHANGED <<live, crossed>>
    /\ UNCHANGED <<gn_, principals_, plock_, retired, pc, req, mine, answer, requests,
                   connected, restarts>>

(* post() on the old connection fails before anything is sent *)
post_fails(s) ==
    /\ s \notin connected
    /\ requests < MaxRequests
    /\ requests' = requests + 1
    /\ answer' = [answer EXCEPT ![s] = "false"]
    /\ UNCHANGED <<gn_, principals_, plock_, live, retired, pc, req, mine, lifeVars>>

(* liblatte_init: a new AttGuardClient, a new session; what the last one
   returned is history for the application *)
reconnect(s) ==
    /\ s \notin connected
    /\ connected' = connected \cup {s}
    /\ answer' = [answer EXCEPT ![s] = "none"]
    /\ UNCHANGED <<gn_, principals_, plock_, live, retired, pc, req, mine, requests,
                   late, crossed, restarts>>

RestartNext ==
    \/ \E s \in Sessions :
          \/ s \in connected /\ Request(s) /\ UNCHANGED lifeVars
          \/ Handler(s) /\ UNCHANGED lifeVars
          \/ post_fails(s) \/ reconnect(s)
    \/ restart
    \/ \E c \in late : late_call(c)

RestartSpec == RestartInit /\ [][RestartNext]_allVars

------------------------------------------------------------------------------
(* The daemon of this life, the connections to it and the calls of earlier ones. *)
RestartTypeOK ==
    /\ TypeOK
    /\ connected \subseteq Sessions
    /\ late \subseteq Calls
    /\ crossed \subseteq Names
    /\ restarts \in 0 .. MaxRestarts
    /\ \A s \in Sessions : pc[s] # "idle" => s \in connected

(* A creation that was answered true is known to the daemon as long as the
   connection stands on which the answer came: it is registered, or some
   session has had it erased.  (That is what not redialling is good for: a
   process whose principals were forgotten finds its connection closed.) *)
CreatedIsKnown ==
    \A s \in connected :
        pc[s] = "idle" /\ req[s].cmd = "CREATE_PRINCIPAL" /\ answer[s] = "true"
        => MyName(s) \in retired \cup {principal_name(p) : p \in principals_}

(* Daemon and service disagree about a name of this life only when a call of an
   earlier life has reached the service since: the generations start at 0 again,
   and so the names of the lives meet there. *)
AgreeUnlessCrossed ==
    /\ \A p \in principals_ : principal_name(p) \in live \cup crossed
    /\ \A s \in connected :
          pc[s] = "idle" /\ req[s].cmd = "DELETE_PRINCIPAL" /\ answer[s] = "true"
          => MyName(s) \in retired /\ MyName(s) \notin live \ crossed
==============================================================================
