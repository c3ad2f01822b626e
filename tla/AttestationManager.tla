-------------------------- MODULE AttestationManager --------------------------
(***************************************************************************)
(* LatteAttestationManager (server/manager.cc) with the sessions that call *)
(* dispatch() from the threads of the daemon's pool.  A session has at     *)
(* most one request in progress (it reads the next one after the response  *)
(* of the last is sent), so that it stands for the thread that runs the    *)
(* handler.  One step is what a handler does between two points where      *)
(* another thread's step can show: a read or a write of gn_, the lock      *)
(* plock_, and every call to the metadata service.                         *)
(***************************************************************************)
EXTENDS Integers, FiniteSets, MetadataClient

CONSTANTS Sessions,     \* connected sessions
          PidOf,        \* pid of the peer process of each session
          Root,         \* the sessions whose peer has uid 0
          Creators,     \* the sessions that send CREATE_PRINCIPAL
          Ids,          \* principal ids
          Commands,     \* the other commands in use
          MaxRequests   \* bound on the requests of a behaviour

NotImplemented == {"GET_PRINCIPAL", "ENDORSE_PRINCIPAL",
                   "REVOKE_PRINCIPAL_ENDORSEMENT", "REVOKE"}
NoHandler == {"ENDORSE_IMAGE_PROPERTY"}
AllCommands == NotImplemented \cup NoHandler \cup CallCommands
                 \cup {"CREATE_PRINCIPAL", "DELETE_PRINCIPAL",
                       "GET_LOCAL_PRINCIPAL", "GET_METADATA_CONFIG"}

(* the handlers that look at what they were sent: creating, deleting and asking
   for a principal need a statement, the others a list that is not empty.  A command
   that is sent without the statement its handler goes through unchecked is no input
   here (the client library always sends one): the process ends, which is the restart
   of DaemonRestart. *)
Validated == {"CREATE_PRINCIPAL", "DELETE_PRINCIPAL", "GET_LOCAL_PRINCIPAL",
              "POST_ACL", "ENDORSE", "ENDORSE_MEMBERSHIP", "ENDORSE_BUILDER_IMAGE",
              "ENDORSE_SOURCE_IMAGE"} \cup CheckCommands

ASSUME SessionsAssumption == Root \subseteq Sessions /\ Creators \subseteq Sessions
ASSUME CommandsAssumption == Commands \subseteq AllCommands \ {"CREATE_PRINCIPAL"}
ASSUME MaxRequestsAssumption == MaxRequests \in Nat

ASSUME IdsAssumption == Ids # {}
AnyId == CHOOSE id \in Ids : TRUE

NoSession == "none"
ASSUME NoSessionAssumption == NoSession \notin Sessions

VARIABLES
    gn_,          \* the generation counter
    principals_,  \* the registered principals, [id, gn, speaker]
    plock_,       \* the holder of the mutex, or NoSession
    live,         \* external: the instances <<id, gn>> the metadata service has
    retired,      \* history: the names <<id, gn>> that were erased from principals_
    pc,           \* where each session's handler is; "idle" between requests
    req,          \* the request in progress, or the last one
    mine,         \* the generation number a handler works on
    answer,       \* the status of the response to req
    requests      \* number of requests so far

vars == <<gn_, principals_, plock_, live, retired, pc, req, mine, answer, requests>>

Principals == [id : Ids, gn : Nat, speaker : {PidOf[s] : s \in Sessions}]
Names == Ids \X Nat
Answers == {"none", "true", "false", "principal", "config", "attestation"}
Steps == {"idle", "gn_load", "gn_store", "post_instance", "post_config", "add",
          "lock", "scan", "erase", "delete_instance", "get_local", "call"}

(* principal_name *)
principal_name(p) == <<p.id, p.gn>>

(* equal_range(id), and the scan for the largest generation: with equal numbers
   the last element of an unordered range wins, which may be any of them *)
equal_range(id) == {p \in principals_ : p.id = id}
IsLatest(p) == p \in principals_ /\ \A q \in equal_range(p.id) : q.gn <= p.gn

(* the privilege check of delete_principal *)
privileged(s, latest) == latest.speaker = PidOf[s] \/ s \in Root

-------------------------------------------------------------------------------
Init ==
    /\ gn_ = 0
    /\ principals_ = {}
    /\ plock_ = NoSession
    /\ live = {}
    /\ retired = {}
    /\ pc = [s \in Sessions |-> "idle"]
    /\ req = [s \in Sessions |-> [cmd |-> "GET_METADATA_CONFIG", id |-> AnyId]]
    /\ mine = [s \in Sessions |-> 0]
    /\ answer = [s \in Sessions |-> "none"]
    /\ requests = 0

(* w(result): the handler is done and the response is handed to the session *)
Respond(s, a) ==
    /\ pc' = [pc EXCEPT ![s] = "idle"]
    /\ answer' = [answer EXCEPT ![s] = a]

Goto(s, step) ==
    /\ pc' = [pc EXCEPT ![s] = step]
    /\ UNCHANGED answer

(* The first blocking step of the handler of a well-formed command. *)
FirstStep(cmd) ==
    CASE cmd = "CREATE_PRINCIPAL"    -> "gn_load"
      [] cmd = "DELETE_PRINCIPAL"    -> "lock"
      [] cmd = "GET_LOCAL_PRINCIPAL" -> "get_local"
      [] OTHER                       -> "call"

(* a command without a handler, one that is not implemented, and one whose
   handler returns early on what it was sent *)
refused(cmd, complete) ==
    cmd \in NoHandler \cup NotImplemented \/ (cmd \in Validated /\ ~complete)

(* dispatch up to the first point where other threads matter; the config is
   answered from memory *)
dispatch(s, cmd, id, complete) ==
    /\ pc[s] = "idle"
    /\ requests < MaxRequests
    /\ requests' = requests + 1
    /\ req' = [req EXCEPT ![s] = [cmd |-> cmd, id |-> id]]
    /\ \/ /\ refused(cmd, complete)
          /\ Respond(s, "false")
       \/ /\ cmd = "GET_METADATA_CONFIG"
          /\ Respond(s, "config")
       \/ /\ ~refused(cmd, complete) /\ cmd # "GET_METADATA_CONFIG"
          /\ pc' = [pc EXCEPT ![s] = FirstStep(cmd)]
          /\ answer' = [answer EXCEPT ![s] = "none"]
    /\ UNCHANGED <<gn_, principals_, plock_, live, retired, mine>>

(* gn(): gn_++ is a load and a store that nothing orders between two threads *)
gn_load(s) ==
    /\ pc[s] = "gn_load"
    /\ mine' = [mine EXCEPT ![s] = gn_]
    /\ Goto(s, "gn_store")
    /\ UNCHANGED <<gn_, principals_, plock_, live, retired, req, requests>>

(* mutant: the counter is written back without the increment *)
gn_store_same(s) ==
    /\ pc[s] = "gn_store"
    /\ gn_' = mine[s]
    /\ Goto(s, "post_instance")
    /\ UNCHANGED <<principals_, plock_, live, retired, req, mine, requests>>

gn_store(s) ==
    /\ pc[s] = "gn_store"
    /\ gn_' = mine[s] + 1
    /\ Goto(s, "post_instance")
    /\ UNCHANGED <<principals_, plock_, live, retired, req, mine, requests>>

(* mutant: the parts of the name are swapped *)
MyName_swapped(s) == <<mine[s], req[s].id>>

MyName(s) == <<req[s].id, mine[s]>>

(* create_instance: /postInstance, whose answer must hold an identity ... *)
post_instance(s, reply) ==
    /\ pc[s] = "post_instance"
    /\ \/ MayApply(reply)  /\ live' = live \cup {MyName(s)}
       \/ MayIgnore(reply) /\ live' = live
    /\ IF identity_task(reply) = "true" THEN Goto(s, "post_config")
                                        ELSE Respond(s, "false")
    /\ UNCHANGED <<gn_, principals_, plock_, retired, req, mine, requests>>

(* ... then /postInstanceConfig, whose status is only logged *)
post_config(s, reply) ==
    /\ pc[s] = "post_config"
    /\ IF sink_task(reply) = "true" THEN Goto(s, "add") ELSE Respond(s, "false")
    /\ UNCHANGED <<gn_, principals_, plock_, live, retired, req, mine, requests>>

(* add_principal, under a lock_guard; then status(true) *)
add_principal(s) ==
    /\ pc[s] = "add"
    /\ plock_ = NoSession
    /\ principals_' = principals_ \cup
           {[id |-> req[s].id, gn |-> mine[s], speaker |-> PidOf[s]]}
    /\ Respond(s, "true")
    /\ UNCHANGED <<gn_, plock_, live, retired, req, mine, requests>>

(* mutant: the lock is not kept *)
delete_lock_dropped(s) ==
    /\ pc[s] = "lock"
    /\ plock_ = NoSession
    /\ Goto(s, "scan")
    /\ UNCHANGED <<gn_, principals_, plock_, live, retired, req, mine, requests>>

(* delete_principal: plock_.lock() ... *)
delete_lock(s) ==
    /\ pc[s] = "lock"
    /\ plock_ = NoSession
    /\ plock_' = s
    /\ Goto(s, "scan")
    /\ UNCHANGED <<gn_, principals_, live, retired, req, mine, requests>>

(* mutant: the return for an unknown id does not unlock *)
delete_scan_locked(s) ==
    /\ pc[s] = "scan"
    /\ \/ \E p \in equal_range(req[s].id) :
             /\ IsLatest(p)
             /\ \/ /\ privileged(s, p)
                   /\ mine' = [mine EXCEPT ![s] = p.gn]
                   /\ Goto(s, "erase")
                   /\ UNCHANGED plock_
                \/ /\ ~privileged(s, p)
                   /\ plock_' = NoSession
                   /\ Respond(s, "false")
                   /\ UNCHANGED mine
       \/ /\ equal_range(req[s].id) = {}
          /\ Respond(s, "false")
          /\ UNCHANGED <<mine, plock_>>
    /\ UNCHANGED <<gn_, principals_, live, retired, req, requests>>

(* ... the scan for the latest generation and its privilege check ... *)
delete_scan(s) ==
    /\ pc[s] = "scan"
    /\ \/ \E p \in equal_range(req[s].id) :
             /\ IsLatest(p)
             /\ \/ /\ privileged(s, p)
                   /\ mine' = [mine EXCEPT ![s] = p.gn]
                   /\ Goto(s, "erase")
                   /\ UNCHANGED plock_
                \/ /\ ~privileged(s, p)
                   /\ plock_' = NoSession
                   /\ Respond(s, "false")
                   /\ UNCHANGED mine
       \/ /\ equal_range(req[s].id) = {}
          /\ plock_' = NoSession
          /\ Respond(s, "false")
          /\ UNCHANGED mine
    /\ UNCHANGED <<gn_, principals_, live, retired, req, requests>>

(* mutant: only the latest generation is erased *)
delete_erase_latest(s) ==
    LET latest == {p \in equal_range(req[s].id) : p.gn = mine[s]}
    IN  /\ pc[s] = "erase"
        /\ principals_' = principals_ \ latest
        /\ retired' = retired \cup {principal_name(p) : p \in latest}
        /\ plock_' = NoSession
        /\ Goto(s, "delete_instance")
        /\ UNCHANGED <<gn_, live, req, mine, requests>>

(* ... erase(matched.first, matched.second) and plock_.unlock() ... *)
delete_erase(s) ==
    /\ pc[s] = "erase"
    /\ principals_' = principals_ \ equal_range(req[s].id)
    /\ retired' = retired \cup {principal_name(p) : p \in equal_range(req[s].id)}
    /\ plock_' = NoSession
    /\ Goto(s, "delete_instance")
    /\ UNCHANGED <<gn_, live, req, mine, requests>>

(* ... and /lazyDeleteInstance for the latest name, outside the lock *)
delete_instance(s, reply) ==
    /\ pc[s] = "delete_instance"
    /\ \/ MayApply(reply)  /\ live' = live \ {MyName(s)}
       \/ MayIgnore(reply) /\ live' = live
    /\ Respond(s, status_of(json_task(reply)))
    /\ UNCHANGED <<gn_, principals_, plock_, retired, req, mine, requests>>

(* get_local_principal, under a lock_guard *)
get_local_principal(s) ==
    /\ pc[s] = "get_local"
    /\ plock_ = NoSession
    /\ \/ \E p \in equal_range(req[s].id) :
             /\ IsLatest(p)
             /\ mine' = [mine EXCEPT ![s] = p.gn]
             /\ Respond(s, "principal")
       \/ /\ equal_range(req[s].id) = {}
          /\ Respond(s, "false")
          /\ UNCHANGED mine
    /\ UNCHANGED <<gn_, principals_, plock_, live, retired, req, requests>>

(* every other handler: one call to the metadata service *)
metadata_call(s, reply) ==
    /\ pc[s] = "call"
    /\ LET result == status_of(call(req[s].cmd, reply))
       IN  Respond(s, IF req[s].cmd = "CHECK_ATTESTATION" /\ result = "true"
                      THEN "attestation" ELSE result)
    /\ UNCHANGED <<gn_, principals_, plock_, live, retired, req, mine, requests>>

(* The steps of a handler once it is dispatched. *)
Handler(s) ==
    \/ gn_load(s) \/ gn_store(s) \/ add_principal(s)
    \/ delete_lock(s) \/ delete_scan(s) \/ delete_erase(s)
    \/ get_local_principal(s)
    \/ \E reply \in Replies :
          \/ post_instance(s, reply) \/ post_config(s, reply)
          \/ delete_instance(s, reply) \/ metadata_call(s, reply)

Request(s) ==
    \E cmd \in Commands \cup (IF s \in Creators THEN {"CREATE_PRINCIPAL"} ELSE {}),
       id \in Ids, complete \in BOOLEAN :
          dispatch(s, cmd, id, complete)

Next == \E s \in Sessions : Request(s) \/ Handler(s)

Spec == Init /\ [][Next]_vars

(* A pool thread keeps running its handler, and an HTTP exchange ends (the HTTP
   client has a timeout).  Nothing obliges a client to send another request. *)
FairSpec == Spec /\ \A s \in Sessions : WF_vars(Handler(s))
-------------------------------------------------------------------------------
(* The counter, the table and the lock of the manager, the service's instances,
   and what each handler of dispatch works on. *)
TypeOK ==
    /\ gn_ \in Nat
    /\ principals_ \subseteq Principals
    /\ plock_ \in Sessions \cup {NoSession}
    /\ live \subseteq Names
    /\ retired \subseteq Names
    /\ pc \in [Sessions -> Steps]
    /\ req \in [Sessions -> [cmd : AllCommands, id : Ids]]
    /\ mine \in [Sessions -> Nat]
    /\ answer \in [Sessions -> Answers]
    /\ requests \in Nat

(* The create requests that have their generation number but are not registered
   yet, and the deletions between their erase and their answer. *)
Creating(s) == pc[s] \in {"gn_store", "post_instance", "post_config", "add"}
Deleting(s) == pc[s] = "delete_instance"

(* Every principal is named with a generation number of its own (the names
   "0:0", "1:1", "0:2" of tests/test-manager.cc): a number taken from gn() is
   not in use by another create or by a registered principal. *)
UniqueGn ==
    /\ \A s, t \in Sessions : s # t /\ Creating(s) /\ Creating(t) => mine[s] # mine[t]
    /\ \A s \in Sessions, p \in principals_ : Creating(s) => mine[s] # p.gn
    /\ \A p, q \in principals_ : p.gn = q.gn => p = q

(* No two handlers are inside gn_++ at the same time, ... *)
OneInGn == \A s, t \in Sessions : pc[s] = "gn_store" /\ pc[t] = "gn_store" => s = t

(* ... which is all that has to be ruled out, with any number of sessions that create:
   as long as gn_++ never overlaps, the numbers are unique, although they are taken
   and registered in any order, registrations fail and principals are erased. *)
UniqueUnlessOverlap == []OneInGn => []UniqueGn

(* A principal the daemon has registered is an instance of the metadata service:
   the service is told before principals_ and is asked to forget it after. *)
RegisteredIsLive == \A p \in principals_ : principal_name(p) \in live

(* Generations of an id never come back: what is registered is newer than
   everything that was ever erased under the same id. *)
RetiredIsOlder ==
    \A p \in principals_, n \in retired : n[1] = p.id => n[2] < p.gn

(* A deletion answered with true is complete: the instance is gone from the
   metadata service, whatever happened since, and is not registered here. *)
DeletedIsGone ==
    \A s \in Sessions :
        /\ pc[s] = "idle" /\ req[s].cmd = "DELETE_PRINCIPAL" /\ answer[s] = "true"
        => /\ MyName(s) \in retired \ live
           /\ \A p \in principals_ : principal_name(p) # MyName(s)

(* When a principal is erased, the session that erases it still has the
   privilege over the generation that is the latest at that moment, although it
   was checked in an earlier step, and no generation of the id stays behind. *)
EraseStep ==
    ~(principals_ \subseteq principals_') =>
        \E s \in Sessions :
           /\ pc[s] = "erase"
           /\ \E p \in equal_range(req[s].id) : IsLatest(p) /\ privileged(s, p)
           /\ \A p \in principals_' : p.id # req[s].id
ErasedByOwner == [][EraseStep]_vars

(* plock_ is taken and given back by hand, on every way out of delete_principal: it
   is held exactly by the one handler between its lock() and the unlock() of the way
   it takes, never across a call to the metadata service or by a handler that has
   returned, so that who waits for it waits for a few steps in memory. *)
LockMatches == \A s \in Sessions : plock_ = s <=> pc[s] \in {"scan", "erase"}

(* Every request is answered, whatever the metadata service does: no handler
   returns with plock_ held or waits for it forever. *)
Answered == \A s \in Sessions : pc[s] # "idle" ~> pc[s] = "idle"

(* The handlers together keep the registry of names that a client sees: every
   create is a single registration under a new generation and every delete takes
   all generations of the id at once, although both are several steps that other
   handlers run between. *)
registered_names == {principal_name(p) : p \in principals_}
Registry == INSTANCE PrincipalRegistry
            WITH current <- registered_names, used <- retired \cup registered_names
KeepsRegistry == Registry!Spec
===============================================================================
