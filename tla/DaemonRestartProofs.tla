------------------------- MODULE DaemonRestartProofs -------------------------
(***************************************************************************)
(* What holds over any number of lives of the daemon.  A new life starts   *)
(* with the initial values of gn_, principals_ and plock_ and no handler   *)
(* running, so that the invariants of AttestationManagerProofs that speak  *)
(* of these alone are restored by it; what relates them to the metadata    *)
(* service or to what a client was told is proved here again, with the     *)
(* calls of earlier lives and the closed connections in view.              *)
(***************************************************************************)
EXTENDS DaemonRestart, AttestationManagerProofs

USE MaxRestartsAssumption

(* A handler runs for a connection that stands. *)
LifeTypes ==
    /\ connected \subseteq Sessions
    /\ late \subseteq Calls
    /\ crossed \subseteq Names
    /\ restarts \in 0 .. MaxRestarts
    /\ \A s \in Sessions : pc[s] # "idle" => s \in connected

(* What a connected client was told to be created is registered or erased. *)
Known(s) ==
    pc[s] = "idle" /\ req[s].cmd = "CREATE_PRINCIPAL" /\ answer[s] = "true"
    => MyName(s) \in retired \cup registered_names
LifeInv == BaseInv /\ LifeTypes /\ \A s \in connected : Known(s)

(* The steps of the manager within a life, and those around it. *)
Within ==
    /\ \E s \in Sessions : (s \in connected /\ Request(s)) \/ Handler(s)
    /\ UNCHANGED lifeVars

LEMMA StepCases ==
    ASSUME RestartNext
    PROVE  \/ Within \/ restart
           \/ \E s \in Sessions : post_fails(s) \/ reconnect(s)
           \/ \E c \in late : late_call(c)
BY DEF RestartNext, Within

LEMMA InitLife == RestartInit => LifeInv
<1> SUFFICES ASSUME RestartInit PROVE LifeInv
  OBVIOUS
<1>1. BaseInv
  BY InitBase DEF RestartInit
<1>2. LifeTypes
  BY DEF RestartInit, LifeTypes
<1>3. \A s \in connected : Known(s)
  BY DEF RestartInit, Init, Known
<1> QED BY <1>1, <1>2, <1>3 DEF LifeInv

(* Within a life, one session moves. *)
LEMMA OneMoves ==
    ASSUME TypeOK, NEW s \in Sessions, Request(s) \/ Handler(s)
    PROVE  \A t \in Sessions \ {s} : /\ pc'[t] = pc[t] /\ req'[t] = req[t]
                                     /\ mine'[t] = mine[t] /\ answer'[t] = answer[t]
<1> USE DEF Respond, Goto, TypeOK
<1>1. CASE Request(s)
  BY <1>1 DEF Request, dispatch
<1>2. CASE Handler(s)
  BY <1>2 DEF Handler, gn_load, gn_store, add_principal, delete_lock, delete_scan,
              delete_erase, get_local_principal, post_instance, post_config,
              delete_instance, metadata_call
<1> QED BY <1>1, <1>2

(* Names are registered or erased, never lost. *)
LEMMA NamesKept ==
    ASSUME NEW s \in Sessions, Request(s) \/ Handler(s)
    PROVE  retired \cup registered_names \subseteq (retired \cup registered_names)'
<1>1. \/ UNCHANGED <<principals_, retired>>
      \/ add_principal(s) \/ delete_erase(s)
  BY DEF Request, dispatch, Handler, gn_load, gn_store, delete_lock, delete_scan,
         get_local_principal, post_instance, post_config, delete_instance,
         metadata_call
<1>2. CASE UNCHANGED <<principals_, retired>>
  BY <1>2 DEF registered_names, principal_name
<1>3. CASE add_principal(s)
  BY <1>3 DEF add_principal, registered_names, principal_name
<1>4. CASE delete_erase(s)
  BY <1>4 DEF delete_erase, equal_range, registered_names, principal_name
<1> QED BY <1>1, <1>2, <1>3, <1>4

(* The session that moves is told true for a creation only by add_principal. *)
LEMMA CreatedByAdd ==
    ASSUME TypeOK, HandlerInv, NEW s \in Sessions, Request(s) \/ Handler(s)
    PROVE  Known(s)'
<1> SUFFICES ASSUME pc'[s] = "idle", req'[s].cmd = "CREATE_PRINCIPAL", answer'[s] = "true"
             PROVE  MyName(s)' \in (retired \cup registered_names)'
  BY DEF Known
<1> USE DEF Respond, Goto, TypeOK
<1>1. ~Request(s)
  <2> SUFFICES ASSUME NEW cmd, NEW id, NEW complete, dispatch(s, cmd, id, complete)
               PROVE  FALSE
    BY DEF Request
  <2>1. PICK a \in {"none", "false", "config"} : answer' = [answer EXCEPT ![s] = a]
    BY DEF dispatch
  <2> QED BY <2>1
<1>2. CASE add_principal(s)
  <2>1. /\ req' = req /\ mine' = mine
        /\ principals_' = principals_ \cup
              {[id |-> req[s].id, gn |-> mine[s], speaker |-> PidOf[s]]}
    BY <1>2 DEF add_principal
  <2>2. PICK p \in principals_' : p.id = req[s].id /\ p.gn = mine[s]
    <3> DEFINE new == [id |-> req[s].id, gn |-> mine[s], speaker |-> PidOf[s]]
    <3>1. new \in principals_'
      BY <2>1
    <3>2. new.id = req[s].id /\ new.gn = mine[s]
      OBVIOUS
    <3> QED BY <3>1, <3>2
  <2>3. principal_name(p) \in registered_names' /\ principal_name(p) = MyName(s)'
    BY <2>1, <2>2 DEF registered_names, principal_name, MyName
  <2> QED BY <2>3
<1>3. CASE gn_load(s) \/ gn_store(s) \/ delete_lock(s) \/ delete_scan(s) \/ delete_erase(s)
  BY <1>3 DEF gn_load, gn_store, delete_lock, delete_scan, delete_erase
<1>4. CASE get_local_principal(s)
  BY <1>4 DEF get_local_principal
<1>5. ASSUME NEW reply \in Replies,
             post_instance(s, reply) \/ post_config(s, reply) \/ delete_instance(s, reply)
      PROVE  FALSE
  BY <1>5 DEF post_instance, post_config, delete_instance, HandlerInv
<1>6. ASSUME NEW reply \in Replies, metadata_call(s, reply) PROVE FALSE
  BY <1>6 DEF metadata_call, HandlerInv
<1> QED BY <1>1, <1>2, <1>3, <1>4, <1>5, <1>6 DEF Handler

LEMMA WithinLife ==
    ASSUME LifeInv, Within
    PROVE  LifeInv'
<1>1. PICK s \in Sessions : (s \in connected /\ Request(s)) \/ Handler(s)
  BY DEF Within
<1>2. /\ TypeOK /\ HandlerInv /\ BaseInv /\ LifeTypes
      /\ UNCHANGED <<connected, late, crossed, restarts>>
  BY DEF LifeInv, BaseInv, Within, lifeVars
<1>3. BaseInv'
  BY <1>1, <1>2, NextBase DEF Next
<1>4. \A t \in Sessions \ {s} : /\ pc'[t] = pc[t] /\ req'[t] = req[t]
                                /\ mine'[t] = mine[t] /\ answer'[t] = answer[t]
  BY <1>1, <1>2, OneMoves
<1>5. s \in connected
  <2>1. ASSUME Handler(s) PROVE pc[s] # "idle"
    BY <2>1 DEF Handler, gn_load, gn_store, add_principal, delete_lock, delete_scan,
                delete_erase, get_local_principal, post_instance, post_config,
                delete_instance, metadata_call
  <2> QED BY <1>1, <1>2, <2>1 DEF LifeTypes
<1>6. LifeTypes'
  BY <1>2, <1>4, <1>5 DEF LifeTypes
<1>7. ASSUME NEW t \in connected PROVE Known(t)'
  <2>1. t \in Sessions /\ Known(t)
    BY <1>2, <1>7 DEF LifeTypes, LifeInv
  <2>2. CASE t = s
    BY <1>1, <1>2, <2>2, CreatedByAdd
  <2>3. CASE t # s
    BY <1>1, <1>4, <2>1, <2>3, NamesKept DEF Known, MyName
  <2> QED BY <2>2, <2>3
<1> QED BY <1>2, <1>3, <1>6, <1>7 DEF LifeInv

LEMMA RestartLife ==
    ASSUME LifeInv, restart
    PROVE  LifeInv'
<1> USE DEF restart, forget, disconnect
<1>0. TypeOK /\ LifeTypes
  BY DEF LifeInv, BaseInv
<1>1. TypeOK'
  <2>1. answer' \in [Sessions -> Answers]
    BY <1>0 DEF TypeOK, Answers
  <2>2. pc' \in [Sessions -> Steps]
    BY DEF Steps
  <2>3. gn_' \in Nat /\ principals_' \subseteq Principals /\ retired' \subseteq Names
    OBVIOUS
  <2> QED BY <1>0, <2>1, <2>2, <2>3 DEF TypeOK
<1>2. LockInv' /\ HandlerInv'
  BY NoSessionAssumption DEF LockInv, HandlerInv
<1>3. LifeTypes'
  <2>1. \A s \in Sessions : call_of(s) \in Calls
    BY <1>0 DEF call_of, Calls, MyName, Names, TypeOK
  <2>2. late' \subseteq Calls
    BY <1>0, <2>1 DEF Calling, LifeTypes
  <2> QED BY <1>0, <2>2 DEF LifeTypes
<1> QED BY <1>1, <1>2, <1>3 DEF LifeInv, BaseInv

LEMMA AroundLife ==
    ASSUME LifeInv,
           \/ \E s \in Sessions : post_fails(s) \/ reconnect(s)
           \/ \E c \in late : late_call(c)
    PROVE  LifeInv'
<1>0. TypeOK /\ LockInv /\ HandlerInv /\ LifeTypes
  BY DEF LifeInv, BaseInv
<1>1. UNCHANGED <<gn_, principals_, plock_, retired, pc, req, mine, restarts>>
  BY DEF post_fails, reconnect, late_call, lifeVars
<1>2. LockInv' /\ HandlerInv'
  BY <1>0, <1>1 DEF LockInv, HandlerInv, equal_range, IsLatest, privileged
<1>3. ASSUME NEW s \in Sessions, post_fails(s) PROVE LifeInv'
  <2> USE <1>3 DEF post_fails, lifeVars
  <2>1. TypeOK'
    BY <1>0 DEF TypeOK, Answers
  <2>2. LifeTypes'
    BY <1>0 DEF LifeTypes
  <2>3. \A t \in connected : answer'[t] = answer[t] /\ Known(t)
    BY <1>0 DEF LifeInv, LifeTypes, TypeOK
  <2>4. \A t \in connected' : Known(t)'
    BY <1>1, <2>3 DEF Known, MyName, registered_names, principal_name
  <2> QED BY <1>2, <2>1, <2>2, <2>4 DEF LifeInv, BaseInv
<1>4. ASSUME NEW s \in Sessions, reconnect(s) PROVE LifeInv'
  <2> USE <1>4 DEF reconnect
  <2>1. TypeOK'
    BY <1>0 DEF TypeOK, Answers
  <2>2. LifeTypes'
    BY <1>0 DEF LifeTypes
  <2>3. /\ answer'[s] = "none"
        /\ \A t \in connected : answer'[t] = answer[t] /\ Known(t)
    BY <1>0 DEF LifeInv, LifeTypes, TypeOK
  <2>4. \A t \in connected' : Known(t)'
    BY <1>1, <2>3 DEF Known, MyName, registered_names, principal_name
  <2> QED BY <1>2, <2>1, <2>2, <2>4 DEF LifeInv, BaseInv
<1>5. ASSUME NEW c \in late, late_call(c) PROVE LifeInv'
  <2> USE <1>5 DEF late_call
  <2>1. c.name \in Names
    BY <1>0 DEF LifeTypes, Calls
  <2>2. TypeOK'
    BY <1>0, <2>1 DEF TypeOK
  <2>3. LifeTypes'
    BY <1>0, <2>1 DEF LifeTypes
  <2>4. \A t \in connected' : Known(t)'
    BY <1>1 DEF LifeInv, Known, MyName, registered_names, principal_name
  <2> QED BY <1>2, <2>2, <2>3, <2>4 DEF LifeInv, BaseInv
<1> QED BY <1>3, <1>4, <1>5

LEMMA NextLife == LifeInv /\ [RestartNext]_allVars => LifeInv'
<1> SUFFICES ASSUME LifeInv, [RestartNext]_allVars PROVE LifeInv'
  OBVIOUS
<1>1. CASE UNCHANGED allVars
  <2>1. UNCHANGED vars /\ UNCHANGED lifeVars
    BY <1>1 DEF allVars
  <2>2. BaseInv'
    BY <2>1, NextBase DEF LifeInv
  <2> QED BY <2>1, <2>2 DEF vars, lifeVars, LifeInv, LifeTypes, Known, MyName, registered_names,
                            principal_name
<1>2. CASE RestartNext
  BY <1>2, StepCases, WithinLife, RestartLife, AroundLife
<1> QED BY <1>1, <1>2

(* Over any number of restarts, at any step of any handler, the new daemon starts
   from states of the right types, and a handler never runs for a connection that a
   restart has closed. *)
THEOREM RestartTypeTheorem == RestartSpec => []RestartTypeOK
<1>1. LifeInv => RestartTypeOK
  BY DEF LifeInv, BaseInv, LifeTypes, RestartTypeOK
<1> QED BY <1>1, InitLife, NextLife, PTL DEF RestartSpec

(* A client that was told true for create_principal and whose connection still
   stands talks to a daemon that knows the principal, whatever restarts there were
   and however many sessions create. *)
THEOREM CreatedTheorem == RestartSpec => []CreatedIsKnown
<1>1. LifeInv => CreatedIsKnown
  BY DEF LifeInv, Known, CreatedIsKnown, registered_names
<1> QED BY <1>1, InitLife, NextLife, PTL DEF RestartSpec

(* A daemon that ends while a handler holds plock_ leaves nobody waiting for it: in
   every life the lock is held by a handler of this life, in delete_principal. *)
THEOREM RestartLockTheorem == RestartSpec => []LockMatches
<1>1. LifeInv => LockMatches
  BY DEF LifeInv, BaseInv, LockInv, LockMatches
<1> QED BY <1>1, InitLife, NextLife, PTL DEF RestartSpec

------------------------------------------------------------------------------
(* With a single creator: the names of this life, and the service's instances as
   far as no call of an earlier life has touched them. *)
Reached == live \cup crossed
AgreeInv ==
    /\ \A p \in principals_ : principal_name(p) \in Reached
    /\ \A s \in Sessions :
          /\ pc[s] \in {"post_config", "add"} => MyName(s) \in Reached
          /\ pc[s] = "delete_instance" => MyName(s) \in retired
    /\ \A s \in connected :
          pc[s] = "idle" /\ req[s].cmd = "DELETE_PRINCIPAL" /\ answer[s] = "true"
          => MyName(s) \in retired /\ MyName(s) \notin live \ crossed
NamedLife == LifeInv /\ NameInv /\ AgreeInv

LEMMA InitNamed == RestartInit => NamedLife
<1> SUFFICES ASSUME RestartInit PROVE NamedLife
  OBVIOUS
<1>1. LifeInv /\ NameInv
  BY InitLife, InitNames DEF RestartInit
<1>2. AgreeInv
  BY DEF RestartInit, Init, AgreeInv
<1> QED BY <1>1, <1>2 DEF NamedLife

(* A step of one session that leaves the names and the service alone. *)
LEMMA QuietAgree ==
    ASSUME AgreeInv, NEW s \in Sessions, connected \subseteq Sessions,
           UNCHANGED <<principals_, retired, live, crossed, connected>>,
           \A t \in Sessions \ {s} : /\ pc'[t] = pc[t] /\ req'[t] = req[t]
                                     /\ mine'[t] = mine[t] /\ answer'[t] = answer[t],
           pc'[s] \in {"post_config", "add"} => MyName(s)' \in Reached,
           pc'[s] # "delete_instance",
           pc'[s] = "idle" => answer'[s] # "true" \/ req'[s].cmd # "DELETE_PRINCIPAL"
    PROVE  AgreeInv'
<1>1. \A t \in Sessions \ {s} : MyName(t)' = MyName(t)
  BY DEF MyName
<1> QED BY <1>1 DEF AgreeInv, Reached, principal_name

LEMMA QuietAgreeSteps ==
    ASSUME NamedLife, NEW s \in Sessions, UNCHANGED lifeVars,
           \/ Request(s) \/ gn_load(s) \/ gn_store(s)
           \/ delete_lock(s) \/ delete_scan(s) \/ get_local_principal(s)
           \/ \E reply \in Replies : metadata_call(s, reply) \/ post_config(s, reply)
    PROVE  AgreeInv'
<1> USE DEF Goto, Respond
<1>0. /\ TypeOK /\ HandlerInv /\ AgreeInv /\ connected \subseteq Sessions
      /\ UNCHANGED <<connected, crossed>>
  BY DEF NamedLife, LifeInv, LifeTypes, BaseInv, lifeVars
<1>1. CASE Request(s)
  <2>1. PICK cmd, id, complete : dispatch(s, cmd, id, complete)
    BY <1>1 DEF Request
  <2>2. FirstStep(cmd) \in {"gn_load", "lock", "get_local", "call"}
    BY DEF FirstStep
  <2> QED BY <1>0, <2>1, <2>2, QuietAgree DEF dispatch, TypeOK
<1>2. CASE delete_lock(s)
  BY <1>0, <1>2, QuietAgree DEF delete_lock, TypeOK
<1>3. CASE delete_scan(s)
  BY <1>0, <1>3, QuietAgree DEF delete_scan, TypeOK
<1>4. CASE get_local_principal(s)
  BY <1>0, <1>4, QuietAgree DEF get_local_principal, TypeOK
<1>5. CASE \E reply \in Replies : metadata_call(s, reply)
  BY <1>0, <1>5, QuietAgree DEF metadata_call, TypeOK, HandlerInv
<1>6. CASE gn_load(s)
  BY <1>0, <1>6, QuietAgree DEF gn_load, TypeOK
<1>7. CASE gn_store(s)
  BY <1>0, <1>7, QuietAgree DEF gn_store, TypeOK
<1>8. ASSUME NEW reply \in Replies, post_config(s, reply) PROVE AgreeInv'
  <2>1. MyName(s)' = MyName(s) /\ MyName(s) \in Reached
    BY <1>0, <1>8 DEF post_config, MyName, AgreeInv
  <2> QED BY <1>0, <1>8, <2>1, QuietAgree DEF post_config, TypeOK
<1> QED BY <1>1, <1>2, <1>3, <1>4, <1>5, <1>6, <1>7, <1>8

(* create_principal tells the service of a name that was never erased. *)
LEMMA CreateAgree ==
    ASSUME NamedLife, NEW s \in Sessions, UNCHANGED lifeVars,
           \/ add_principal(s)
           \/ \E reply \in Replies : post_instance(s, reply)
    PROVE  AgreeInv'
<1> USE DEF Goto, Respond
<1>0. /\ TypeOK /\ HandlerInv /\ AgreeInv /\ connected \subseteq Sessions
      /\ UNCHANGED <<connected, crossed>>
  BY DEF NamedLife, LifeInv, LifeTypes, BaseInv, lifeVars
<1>1. req[s].cmd = "CREATE_PRINCIPAL"
  BY <1>0 DEF HandlerInv, add_principal, post_instance
<1>2. CASE add_principal(s)
  <2> USE <1>2 DEF add_principal
  <2>1. MyName(s) \in Reached /\ Reached' = Reached
    BY <1>0 DEF AgreeInv, Reached
  <2>2. \A p \in principals_' : p \in principals_ \/ principal_name(p) = MyName(s)
    BY DEF principal_name, MyName
  <2>3. \A p \in principals_' : principal_name(p)' \in Reached'
    BY <1>0, <2>1, <2>2 DEF AgreeInv, principal_name
  <2>4. \A t \in Sessions : MyName(t)' = MyName(t)
    BY DEF MyName
  <2> QED BY <1>0, <1>1, <2>1, <2>3, <2>4 DEF AgreeInv, TypeOK
<1>3. ASSUME NEW reply \in Replies, post_instance(s, reply) PROVE AgreeInv'
  <2> USE <1>3 DEF post_instance
  <2>1. MyName(s) \notin retired
    BY RetiredIsUnused DEF Posting, NamedLife
  <2>2. identity_task(reply) = "true" => ~MayIgnore(reply)
    BY DEF identity_task, json_task, MayIgnore, Replies
  <2>3. /\ live \subseteq live' /\ live' \subseteq live \cup {MyName(s)}
        /\ pc'[s] = "post_config" => MyName(s) \in live'
        /\ pc'[s] \in {"post_config", "idle"}
    BY <1>0, <2>2 DEF TypeOK
  <2>4. Reached \subseteq Reached' /\ \A t \in Sessions : MyName(t)' = MyName(t)
    BY <1>0, <2>3 DEF Reached, MyName
  <2>5. \A p \in principals_' : principal_name(p)' \in Reached'
    BY <1>0, <2>4 DEF AgreeInv, principal_name
  <2>6. \A t \in Sessions \ {s} : pc'[t] = pc[t] /\ answer'[t] = answer[t]
    BY <1>0 DEF TypeOK
  <2>7. ASSUME NEW t \in Sessions
        PROVE  /\ pc'[t] \in {"post_config", "add"} => MyName(t)' \in Reached'
               /\ pc'[t] = "delete_instance" => MyName(t)' \in retired'
    BY <1>0, <2>3, <2>4, <2>6 DEF AgreeInv, Reached
  <2>8. ASSUME NEW t \in connected', pc'[t] = "idle", req'[t].cmd = "DELETE_PRINCIPAL",
               answer'[t] = "true"
        PROVE  MyName(t)' \in retired' /\ MyName(t)' \notin live' \ crossed'
    <3>1. t \in Sessions /\ t \in connected /\ t # s
      BY <1>0, <1>1, <2>8
    <3>2. MyName(t) \in retired /\ MyName(t) \notin live \ crossed
      BY <1>0, <2>6, <2>8, <3>1 DEF AgreeInv
    <3> QED BY <1>0, <2>1, <2>3, <2>4, <3>1, <3>2
  <2> QED BY <2>5, <2>7, <2>8 DEF AgreeInv
<1> QED BY <1>2, <1>3

(* delete_principal asks the service to forget a name that was erased here. *)
LEMMA DeleteAgree ==
    ASSUME NamedLife, NEW s \in Sessions, UNCHANGED lifeVars,
           delete_erase(s) \/ \E reply \in Replies : delete_instance(s, reply)
    PROVE  AgreeInv'
<1> USE DEF Goto, Respond
<1>0. /\ TypeOK /\ LockInv /\ AgreeInv /\ connected \subseteq Sessions
      /\ UNCHANGED <<connected, crossed>>
  BY DEF NamedLife, LifeInv, LifeTypes, BaseInv, lifeVars
<1>1. CASE delete_erase(s)
  <2> USE <1>1 DEF delete_erase
  <2>1. MyName(s) \in retired'
    BY <1>0 DEF LockInv, equal_range, principal_name, MyName
  <2>2. retired \subseteq retired' /\ principals_' \subseteq principals_
    OBVIOUS
  <2>3. Reached' = Reached /\ \A t \in Sessions : MyName(t)' = MyName(t)
    BY <1>0 DEF Reached, MyName
  <2>4. /\ pc'[s] = "delete_instance"
        /\ \A t \in Sessions \ {s} : pc'[t] = pc[t] /\ answer'[t] = answer[t]
    BY <1>0 DEF TypeOK
  <2>5. \A p \in principals_' : principal_name(p)' \in Reached'
    BY <1>0, <2>2, <2>3 DEF AgreeInv, principal_name
  <2> QED BY <1>0, <2>1, <2>2, <2>3, <2>4, <2>5 DEF AgreeInv
<1>2. ASSUME NEW reply \in Replies, delete_instance(s, reply) PROVE AgreeInv'
  <2> USE <1>2 DEF delete_instance
  <2>1. MyName(s) \in retired
    BY <1>0 DEF AgreeInv
  <2>2. status_of(json_task(reply)) = "true" => ~MayIgnore(reply)
    BY DEF status_of, json_task, MayIgnore, Replies
  <2>3. /\ live' \subseteq live /\ live \subseteq live' \cup {MyName(s)}
        /\ ~MayIgnore(reply) => MyName(s) \notin live'
    OBVIOUS
  <2>4. \A t \in Sessions : MyName(t)' = MyName(t)
    BY DEF MyName
  <2>5. /\ pc'[s] = "idle" /\ answer'[s] = status_of(json_task(reply))
        /\ \A t \in Sessions \ {s} : pc'[t] = pc[t] /\ answer'[t] = answer[t]
    BY <1>0 DEF TypeOK
  <2>6. Reached \subseteq Reached' \cup {MyName(s)}
    BY <1>0, <2>3 DEF Reached
  <2>7. ASSUME NEW p \in principals_' PROVE principal_name(p)' \in Reached'
    <3>1. principal_name(p) # MyName(s) /\ principal_name(p) \in Reached
      BY <1>0, <2>1, <2>7, RetiredIsUnused DEF AgreeInv, NamedLife
    <3> QED BY <2>6, <3>1 DEF principal_name
  <2>8. ASSUME NEW t \in Sessions
        PROVE  /\ pc'[t] \in {"post_config", "add"} => MyName(t)' \in Reached'
               /\ pc'[t] = "delete_instance" => MyName(t)' \in retired'
    <3>1. Posting(t) => MyName(t) # MyName(s)
      BY <2>1, RetiredIsUnused DEF NamedLife
    <3> QED BY <1>0, <2>4, <2>5, <2>6, <3>1 DEF AgreeInv, Posting
  <2>9. ASSUME NEW t \in connected', pc'[t] = "idle", req'[t].cmd = "DELETE_PRINCIPAL",
               answer'[t] = "true"
        PROVE  MyName(t)' \in retired' /\ MyName(t)' \notin live' \ crossed'
    <3>1. t \in Sessions /\ t \in connected
      BY <1>0
    <3>2. CASE t = s
      BY <1>0, <2>1, <2>2, <2>3, <2>4, <2>5, <2>9, <3>2
    <3>3. CASE t # s
      BY <1>0, <2>3, <2>4, <2>5, <2>9, <3>1, <3>3 DEF AgreeInv
    <3> QED BY <3>2, <3>3
  <2> QED BY <2>7, <2>8, <2>9 DEF AgreeInv
<1> QED BY <1>1, <1>2

(* The steps around a life. *)
LEMMA AroundNamed ==
    ASSUME NamedLife, BaseInv',
           \/ restart
           \/ \E s \in Sessions : post_fails(s) \/ reconnect(s)
           \/ \E c \in late : late_call(c)
    PROVE  NameInv' /\ AgreeInv'
<1>0. TypeOK /\ AgreeInv /\ NameInv /\ connected \subseteq Sessions
  BY DEF NamedLife, LifeInv, LifeTypes, BaseInv
<1>1. CASE restart
  BY <1>1 DEF restart, forget, disconnect, NameInv, GnInv, Newest, Posting, RetiredIsOlder,
              AgreeInv
<1>2. CASE ~restart
  <2>1. UNCHANGED <<gn_, principals_, retired, pc, req, mine>>
    BY <1>2 DEF post_fails, reconnect, late_call
  <2>2. NameInv'
    BY <1>0, <2>1 DEF NameInv, GnInv, Newest, Posting, RetiredIsOlder
  <2>3. \A t \in Sessions : MyName(t)' = MyName(t)
    BY <2>1 DEF MyName
  <2>4. ASSUME NEW s \in Sessions, post_fails(s) \/ reconnect(s) PROVE AgreeInv'
    <3>1. UNCHANGED <<live, crossed>> /\ s \notin connected /\ answer'[s] # "true"
      BY <1>0, <2>4 DEF post_fails, reconnect, lifeVars, TypeOK
    <3>2. \A t \in connected' : t # s => t \in connected /\ answer'[t] = answer[t]
      BY <1>0, <2>4 DEF post_fails, reconnect, lifeVars, TypeOK
    <3>3. connected' \subseteq Sessions
      BY <1>0, <2>4 DEF post_fails, reconnect, lifeVars
    <3> QED BY <1>0, <2>1, <2>3, <3>1, <3>2, <3>3 DEF AgreeInv, Reached, principal_name
  <2>5. ASSUME NEW c \in late, late_call(c) PROVE AgreeInv'
    <3>1. UNCHANGED <<answer, connected>>
      BY <2>5 DEF late_call
    <3>2. \/ /\ live' = live \cup {c.name} \/ live' = live \ {c.name}
             /\ crossed' = crossed \cup {c.name}
          \/ UNCHANGED <<live, crossed>>
      BY <2>5 DEF late_call
    <3>3. Reached \subseteq Reached' /\ live' \ crossed' \subseteq live \ crossed
      BY <3>2 DEF Reached
    <3> QED BY <1>0, <2>1, <2>3, <3>1, <3>3 DEF AgreeInv, principal_name
  <2> QED BY <1>2, <2>2, <2>4, <2>5
<1> QED BY <1>1, <1>2

LEMMA NextNamed ==
    ASSUME SingleCreator
    PROVE  NamedLife /\ [RestartNext]_allVars => NamedLife'
<1> SUFFICES ASSUME NamedLife, [RestartNext]_allVars PROVE NamedLife'
  OBVIOUS
<1>1. LifeInv' /\ BaseInv'
  BY NextLife DEF NamedLife, LifeInv
<1>2. CASE UNCHANGED allVars
  <2>1. UNCHANGED vars /\ UNCHANGED lifeVars
    BY <1>2 DEF allVars
  <2>2. NameInv'
    BY <2>1, NextNames DEF NamedLife
  <2>3. AgreeInv'
    BY <2>1 DEF vars, lifeVars, NamedLife, AgreeInv, Reached, MyName, principal_name
  <2> QED BY <1>1, <2>2, <2>3 DEF NamedLife
<1>3. CASE Within
  <2>1. PICK s \in Sessions : Request(s) \/ Handler(s)
    BY <1>3 DEF Within
  <2>2. UNCHANGED lifeVars
    BY <1>3 DEF Within
  <2>3. NameInv'
    BY <2>1, NextNames DEF NamedLife, Next
  <2>4. AgreeInv'
    BY <2>1, <2>2, QuietAgreeSteps, CreateAgree, DeleteAgree DEF Handler
  <2> QED BY <1>1, <2>3, <2>4 DEF NamedLife
<1>4. CASE RestartNext /\ ~Within
  BY <1>1, <1>4, StepCases, AroundNamed DEF NamedLife
<1> QED BY <1>2, <1>3, <1>4

LEMMA NamedInvariant ==
    ASSUME SingleCreator
    PROVE  RestartSpec => []NamedLife
<1>1. NamedLife /\ [RestartNext]_allVars => NamedLife'
  BY NextNamed
<1> QED BY <1>1, InitNamed, PTL DEF RestartSpec

(* With a single creator, the daemon of this life and the metadata service agree on
   every name that no call of an earlier life has reached. *)
THEOREM AgreementTheorem ==
    ASSUME SingleCreator
    PROVE  RestartSpec => []AgreeUnlessCrossed
<1>1. NamedLife => AgreeUnlessCrossed
  BY DEF NamedLife, AgreeInv, Reached, AgreeUnlessCrossed
<1> QED BY <1>1, NamedInvariant, PTL
==============================================================================
