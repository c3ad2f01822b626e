----------------------- MODULE AttestationManagerProofs -----------------------
(***************************************************************************)
(* What the attestation manager guarantees for any number of sessions,     *)
(* principals and requests.  The lock discipline of plock_ needs no        *)
(* assumption on the callers; generation numbers are unique as long as the *)
(* unprotected gn_++ of two handlers does not overlap; what is told of     *)
(* names beyond that holds as long as a single session creates principals. *)
(***************************************************************************)
EXTENDS AttestationManager, TLAPS

USE SessionsAssumption, CommandsAssumption, MaxRequestsAssumption, IdsAssumption,
    NoSessionAssumption

(* The mutex is held exactly by the session between its lock and its unlock,
   and what that session found in its scan is still so when it erases. *)
LockInv ==
    /\ \A s \in Sessions : pc[s] \in {"scan", "erase"} <=> plock_ = s
    /\ \A s \in Sessions : pc[s] = "erase" =>
          \E p \in equal_range(req[s].id) :
             IsLatest(p) /\ privileged(s, p) /\ p.gn = mine[s]

(* The handler a session runs is the one of its command. *)
HandlerInv ==
    \A s \in Sessions :
        /\ pc[s] \in {"gn_load", "gn_store", "post_instance", "post_config", "add"}
              => s \in Creators /\ req[s].cmd = "CREATE_PRINCIPAL"
        /\ pc[s] \in {"lock", "scan", "erase", "delete_instance"}
              => req[s].cmd = "DELETE_PRINCIPAL"
        /\ pc[s] \in {"get_local", "call"}
              => req[s].cmd \notin {"CREATE_PRINCIPAL", "DELETE_PRINCIPAL"}

BaseInv == TypeOK /\ LockInv /\ HandlerInv

LEMMA InitBase == Init => BaseInv
<1> SUFFICES ASSUME Init PROVE BaseInv
  OBVIOUS
<1> USE DEF Init
<1>1. AnyId \in Ids
  BY DEF AnyId
<1>2. TypeOK
  BY <1>1 DEF TypeOK, Steps, AllCommands, Answers
<1>3. LockInv
  BY DEF LockInv
<1>4. HandlerInv
  BY DEF HandlerInv
<1> QED BY <1>2, <1>3, <1>4 DEF BaseInv

(* A step of one session outside the critical section of delete_principal, which
   leaves the table and the lock alone. *)
LEMMA OutsideLock ==
    ASSUME TypeOK, LockInv, NEW s \in Sessions,
           UNCHANGED <<principals_, plock_>>,
           pc[s] \notin {"scan", "erase"}, pc'[s] \notin {"scan", "erase"},
           \A t \in Sessions \ {s} :
              pc'[t] = pc[t] /\ req'[t] = req[t] /\ mine'[t] = mine[t]
    PROVE  LockInv'
<1>1. ASSUME NEW t \in Sessions PROVE pc'[t] \in {"scan", "erase"} <=> plock_' = t
  BY DEF LockInv
<1>2. ASSUME NEW t \in Sessions, pc'[t] = "erase"
      PROVE  (\E p \in equal_range(req[t].id) :
                 IsLatest(p) /\ privileged(t, p) /\ p.gn = mine[t])'
  <2>1. t # s /\ pc[t] = "erase" /\ req'[t] = req[t] /\ mine'[t] = mine[t]
    BY <1>2
  <2> QED BY <2>1 DEF LockInv, equal_range, IsLatest, privileged
<1> QED BY <1>1, <1>2 DEF LockInv

(* What dispatch makes of a request. *)
LEMMA DispatchBase ==
    ASSUME BaseInv, NEW s \in Sessions, NEW cmd \in AllCommands, NEW id \in Ids,
           NEW complete, dispatch(s, cmd, id, complete),
           cmd = "CREATE_PRINCIPAL" => s \in Creators
    PROVE  BaseInv'
<1>1. PICK to, a : /\ pc' = [pc EXCEPT ![s] = to]
                   /\ answer' = [answer EXCEPT ![s] = a]
                   /\ a \in {"none", "false", "config"}
                   /\ to = "idle" \/ to = FirstStep(cmd)
  BY DEF dispatch, Respond
<1>2. FirstStep(cmd) \in {"gn_load", "lock", "get_local", "call"}
  BY DEF FirstStep
<1>3. /\ FirstStep(cmd) = "gn_load" <=> cmd = "CREATE_PRINCIPAL"
      /\ FirstStep(cmd) = "lock" <=> cmd = "DELETE_PRINCIPAL"
  BY DEF FirstStep
<1>4. /\ pc[s] = "idle"
      /\ req' = [req EXCEPT ![s] = [cmd |-> cmd, id |-> id]]
      /\ requests' = requests + 1
      /\ UNCHANGED <<gn_, principals_, plock_, live, retired, mine>>
  BY DEF dispatch
<1>5. TypeOK'
  BY <1>1, <1>2, <1>4 DEF BaseInv, TypeOK, Steps, Answers
<1>6. LockInv'
  BY <1>1, <1>2, <1>4, OutsideLock DEF BaseInv, TypeOK
<1>7. HandlerInv'
  BY <1>1, <1>2, <1>3, <1>4 DEF BaseInv, TypeOK, HandlerInv
<1> QED BY <1>5, <1>6, <1>7 DEF BaseInv

(* The steps of the handlers that leave the lock to others. *)
LEMMA UnlockedBase ==
    ASSUME BaseInv, NEW s \in Sessions,
           \/ gn_load(s) \/ gn_store(s) \/ get_local_principal(s)
           \/ \E reply \in Replies :
                 \/ post_instance(s, reply) \/ post_config(s, reply)
                 \/ delete_instance(s, reply) \/ metadata_call(s, reply)
    PROVE  BaseInv'
<1> USE DEF BaseInv, Goto, Respond
<1>1. ASSUME gn_load(s) PROVE BaseInv'
  <2>1. TypeOK'
    BY <1>1 DEF gn_load, TypeOK, Steps, Answers
  <2>2. LockInv'
    BY <1>1, OutsideLock DEF gn_load, TypeOK
  <2>3. HandlerInv'
    BY <1>1 DEF gn_load, TypeOK, HandlerInv
  <2> QED BY <2>1, <2>2, <2>3
<1>2. ASSUME gn_store(s) PROVE BaseInv'
  <2>1. TypeOK'
    BY <1>2 DEF gn_store, TypeOK, Steps, Answers
  <2>2. LockInv'
    BY <1>2, OutsideLock DEF gn_store, TypeOK
  <2>3. HandlerInv'
    BY <1>2 DEF gn_store, TypeOK, HandlerInv
  <2> QED BY <2>1, <2>2, <2>3
<1>3. ASSUME get_local_principal(s) PROVE BaseInv'
  <2>1. TypeOK'
    BY <1>3 DEF get_local_principal, TypeOK, Steps, Answers, Principals, equal_range
  <2>2. LockInv'
    BY <1>3, OutsideLock DEF get_local_principal, TypeOK
  <2>3. HandlerInv'
    BY <1>3 DEF get_local_principal, TypeOK, HandlerInv
  <2> QED BY <2>1, <2>2, <2>3
<1>4. ASSUME NEW reply \in Replies, post_instance(s, reply) PROVE BaseInv'
  <2>1. TypeOK'
    <3>1. MyName(s) \in Names
      BY DEF MyName, Names, TypeOK
    <3>2. live' \subseteq Names
      BY <1>4, <3>1 DEF post_instance, TypeOK
    <3> QED BY <1>4, <3>2 DEF post_instance, TypeOK, Steps, Answers
  <2>2. LockInv'
    BY <1>4, OutsideLock DEF post_instance, TypeOK
  <2>3. HandlerInv'
    BY <1>4 DEF post_instance, TypeOK, HandlerInv
  <2> QED BY <2>1, <2>2, <2>3
<1>5. ASSUME NEW reply \in Replies, post_config(s, reply) PROVE BaseInv'
  <2>1. TypeOK'
    BY <1>5 DEF post_config, TypeOK, Steps, Answers
  <2>2. LockInv'
    BY <1>5, OutsideLock DEF post_config, TypeOK
  <2>3. HandlerInv'
    BY <1>5 DEF post_config, TypeOK, HandlerInv
  <2> QED BY <2>1, <2>2, <2>3
<1>6. ASSUME NEW reply \in Replies, delete_instance(s, reply) PROVE BaseInv'
  <2>1. TypeOK'
    BY <1>6 DEF delete_instance, TypeOK, Steps, Answers, status_of, MyName, Names
  <2>2. LockInv'
    BY <1>6, OutsideLock DEF delete_instance, TypeOK
  <2>3. HandlerInv'
    BY <1>6 DEF delete_instance, TypeOK, HandlerInv
  <2> QED BY <2>1, <2>2, <2>3
<1>7. ASSUME NEW reply \in Replies, metadata_call(s, reply) PROVE BaseInv'
  <2>1. TypeOK'
    BY <1>7 DEF metadata_call, TypeOK, Steps, Answers, status_of
  <2>2. LockInv'
    BY <1>7, OutsideLock DEF metadata_call, TypeOK
  <2>3. HandlerInv'
    BY <1>7 DEF metadata_call, TypeOK, HandlerInv
  <2> QED BY <2>1, <2>2, <2>3
<1> QED BY <1>1, <1>2, <1>3, <1>4, <1>5, <1>6, <1>7

(* add_principal runs only while nobody is between lock and unlock. *)
LEMMA AddBase ==
    ASSUME BaseInv, NEW s \in Sessions, add_principal(s)
    PROVE  BaseInv'
<1> USE DEF BaseInv, add_principal, Respond
<1>1. TypeOK'
  <2>1. [id |-> req[s].id, gn |-> mine[s], speaker |-> PidOf[s]] \in Principals
    BY DEF Principals, TypeOK
  <2> QED BY <2>1 DEF TypeOK, Steps, Answers
<1>2. \A t \in Sessions : pc[t] \notin {"scan", "erase"}
  BY DEF LockInv
<1>3. LockInv'
  BY <1>2 DEF LockInv, TypeOK
<1>4. HandlerInv'
  BY DEF TypeOK, HandlerInv
<1> QED BY <1>1, <1>3, <1>4

(* The critical section: whoever is in it is alone in it. *)
LEMMA DeleteBase ==
    ASSUME BaseInv, NEW s \in Sessions,
           delete_lock(s) \/ delete_scan(s) \/ delete_erase(s)
    PROVE  BaseInv'
<1> USE DEF BaseInv, Goto, Respond
<1>1. ASSUME delete_lock(s) PROVE BaseInv'
  <2> USE <1>1 DEF delete_lock
  <2>1. TypeOK'
    BY DEF TypeOK, Steps
  <2>2. LockInv'
    BY DEF LockInv, TypeOK
  <2>3. HandlerInv'
    BY DEF TypeOK, HandlerInv
  <2> QED BY <2>1, <2>2, <2>3
<1>2. ASSUME delete_scan(s) PROVE BaseInv'
  <2> USE <1>2
  <2>1. plock_ = s /\ \A t \in Sessions \ {s} : pc[t] \notin {"scan", "erase"}
    BY DEF LockInv, delete_scan
  <2>2. CASE \E p \in equal_range(req[s].id) :
                /\ IsLatest(p) /\ privileged(s, p)
                /\ mine' = [mine EXCEPT ![s] = p.gn]
                /\ pc' = [pc EXCEPT ![s] = "erase"] /\ UNCHANGED <<answer, plock_>>
    <3>1. PICK p \in equal_range(req[s].id) :
             /\ IsLatest(p) /\ privileged(s, p)
             /\ mine' = [mine EXCEPT ![s] = p.gn]
             /\ pc' = [pc EXCEPT ![s] = "erase"] /\ UNCHANGED <<answer, plock_>>
      BY <2>2
    <3>2. p.gn \in Nat
      BY DEF equal_range, TypeOK, Principals
    <3>3. UNCHANGED <<gn_, principals_, live, retired, req, requests>>
      BY DEF delete_scan
    <3>4. TypeOK'
      BY <3>1, <3>2, <3>3 DEF TypeOK, Steps
    <3>5. LockInv'
      <4>1. \A t \in Sessions : pc'[t] = "erase" => t = s
        BY <2>1, <3>1 DEF TypeOK
      <4>2. (\E q \in equal_range(req[s].id) :
                IsLatest(q) /\ privileged(s, q) /\ q.gn = mine[s])'
        BY <3>1, <3>3 DEF TypeOK, equal_range, IsLatest, privileged
      <4>3. \A t \in Sessions : pc'[t] \in {"scan", "erase"} <=> plock_' = t
        BY <2>1, <3>1 DEF TypeOK
      <4> QED BY <4>1, <4>2, <4>3 DEF LockInv
    <3>6. HandlerInv'
      BY <3>1, <3>3 DEF TypeOK, HandlerInv, delete_scan
    <3> QED BY <3>4, <3>5, <3>6
  <2>3. CASE /\ pc' = [pc EXCEPT ![s] = "idle"]
             /\ answer' = [answer EXCEPT ![s] = "false"]
             /\ plock_' = NoSession /\ UNCHANGED mine
    <3>1. UNCHANGED <<gn_, principals_, live, retired, req, requests>>
      BY DEF delete_scan
    <3>2. TypeOK'
      BY <2>3, <3>1 DEF TypeOK, Steps, Answers
    <3>3. LockInv'
      BY <2>1, <2>3 DEF LockInv, TypeOK
    <3>4. HandlerInv'
      BY <2>3, <3>1 DEF TypeOK, HandlerInv
    <3> QED BY <3>2, <3>3, <3>4
  <2> QED BY <2>2, <2>3 DEF delete_scan
<1>3. ASSUME delete_erase(s) PROVE BaseInv'
  <2> USE <1>3 DEF delete_erase
  <2>1. plock_ = s /\ \A t \in Sessions \ {s} : pc[t] \notin {"scan", "erase"}
    BY DEF LockInv
  <2>2. TypeOK'
    <3>1. \A p \in equal_range(req[s].id) : principal_name(p) \in Names
      BY DEF equal_range, TypeOK, Principals, principal_name, Names
    <3> QED BY <3>1 DEF TypeOK, Steps
  <2>3. LockInv'
    BY <2>1 DEF LockInv, TypeOK
  <2>4. HandlerInv'
    BY DEF TypeOK, HandlerInv
  <2> QED BY <2>2, <2>3, <2>4
<1> QED BY <1>1, <1>2, <1>3

(* Every step of every session preserves the types and the lock discipline. *)
LEMMA NextBase == BaseInv /\ [Next]_vars => BaseInv'
<1> SUFFICES ASSUME BaseInv, [Next]_vars PROVE BaseInv'
  OBVIOUS
<1>1. ASSUME NEW s \in Sessions, Request(s) PROVE BaseInv'
  <2>1. PICK cmd \in AllCommands, id \in Ids, complete \in BOOLEAN :
           /\ dispatch(s, cmd, id, complete)
           /\ cmd = "CREATE_PRINCIPAL" => s \in Creators
    BY <1>1 DEF Request, AllCommands
  <2> QED BY <2>1, DispatchBase
<1>2. ASSUME NEW s \in Sessions, Handler(s) PROVE BaseInv'
  BY <1>2, UnlockedBase, AddBase, DeleteBase DEF Handler
<1>3. CASE UNCHANGED vars
  BY <1>3 DEF vars, BaseInv, TypeOK, LockInv, HandlerInv, equal_range, IsLatest, privileged
<1> QED BY <1>1, <1>2, <1>3 DEF Next

(* Whatever the sessions ask for and the metadata service answers, the manager's
   table, lock and counter keep their types. *)
THEOREM TypeTheorem == Spec => []TypeOK
<1>1. BaseInv => TypeOK
  BY DEF BaseInv
<1> QED BY <1>1, InitBase, NextBase, PTL DEF Spec

(* plock_ and the handlers of delete_principal match, for any number of sessions that
   create, delete and ask: none of the three returns keeps the lock, two handlers are
   never between lock() and unlock() together, and none is there while it waits for
   the metadata service. *)
THEOREM LockTheorem == Spec => []LockMatches
<1>1. BaseInv => LockMatches
  BY DEF BaseInv, LockInv, LockMatches
<1> QED BY <1>1, InitBase, NextBase, PTL DEF Spec

(* delete_principal's check and its erase act on the same generation, for any
   number of concurrent creations and deletions. *)
THEOREM ErasureTheorem == Spec => ErasedByOwner
<1>1. BaseInv /\ [Next]_vars => [EraseStep]_vars
  <2> SUFFICES ASSUME BaseInv, Next, ~(principals_ \subseteq principals_')
               PROVE  \E s \in Sessions :
                         /\ pc[s] = "erase"
                         /\ \E p \in equal_range(req[s].id) : IsLatest(p) /\ privileged(s, p)
                         /\ \A p \in principals_' : p.id # req[s].id
    BY DEF EraseStep
  <2>1. PICK s \in Sessions : Request(s) \/ Handler(s)
    BY DEF Next
  <2>2. delete_erase(s)
    BY <2>1 DEF Request, dispatch, Handler, gn_load, gn_store, add_principal,
                delete_lock, delete_scan, get_local_principal, post_instance,
                post_config, delete_instance, metadata_call
  <2> QED BY <2>2 DEF delete_erase, BaseInv, LockInv, equal_range
<1> QED BY <1>1, InitBase, NextBase, PTL DEF Spec, ErasedByOwner

-------------------------------------------------------------------------------
(* The numbers that creating handlers hold between gn() and add_principal, and those
   of the registered principals, are different from each other and smaller than gn_;
   only inside gn_++ a handler holds the value of gn_ itself. *)
Posting(s) == pc[s] \in {"post_instance", "post_config", "add"}
Distinct ==
    /\ \A s \in Sessions : pc[s] = "gn_store" => mine[s] = gn_
    /\ \A s \in Sessions : Posting(s) => mine[s] < gn_
    /\ \A p \in principals_ : p.gn < gn_
    /\ \A s, t \in Sessions : s # t /\ Posting(s) /\ Posting(t) => mine[s] # mine[t]
    /\ \A s \in Sessions, p \in principals_ : Posting(s) => mine[s] # p.gn
    /\ \A p, q \in principals_ : p.gn = q.gn => p = q

LEMMA InitDistinct == Init => Distinct
BY DEF Init, Distinct, Posting

(* Steps that take no number and register none. *)
LEMMA QuietDistinct ==
    ASSUME TypeOK, Distinct, NEW s \in Sessions,
           gn_' = gn_, principals_' \subseteq principals_,
           \A t \in Sessions \ {s} : pc'[t] = pc[t] /\ mine'[t] = mine[t],
           pc'[s] # "gn_store",
           Posting(s)' => Posting(s) /\ mine'[s] = mine[s]
    PROVE  Distinct'
BY DEF Distinct, Posting

(* One step, as long as no other handler is inside gn_++. *)
LEMMA StepDistinct ==
    ASSUME TypeOK, Distinct, OneInGn, NEW s \in Sessions, Request(s) \/ Handler(s)
    PROVE  Distinct'
<1> USE DEF Goto, Respond
<1>1. CASE Request(s)
  <2>1. PICK cmd, id, complete : dispatch(s, cmd, id, complete)
    BY <1>1 DEF Request
  <2>2. FirstStep(cmd) \in {"gn_load", "lock", "get_local", "call"}
    BY DEF FirstStep
  <2> QED BY <2>1, <2>2, QuietDistinct DEF dispatch, TypeOK, Posting
<1>2. CASE gn_load(s)
  BY <1>2 DEF gn_load, TypeOK, Distinct, Posting
<1>3. CASE gn_store(s)
  <2>1. /\ gn_ \in Nat /\ gn_' = gn_ + 1 /\ mine[s] = gn_ /\ UNCHANGED <<mine, principals_>>
        /\ pc'[s] = "post_instance" /\ pc[s] = "gn_store"
        /\ \A t \in Sessions \ {s} : pc'[t] = pc[t] /\ pc[t] # "gn_store"
    BY <1>3 DEF gn_store, TypeOK, Distinct, OneInGn
  <2>2. (\A t \in Sessions : mine[t] \in Nat) /\ (\A p \in principals_ : p.gn \in Nat)
    BY DEF TypeOK, Principals
  <2> QED BY <2>1, <2>2 DEF Distinct, Posting
<1>4. CASE add_principal(s)
  <2> DEFINE new == [id |-> req[s].id, gn |-> mine[s], speaker |-> PidOf[s]]
  <2>1. principals_' = principals_ \cup {new} /\ new.gn = mine[s]
    BY <1>4 DEF add_principal
  <2>2. /\ Posting(s) /\ UNCHANGED <<gn_, mine>> /\ pc'[s] = "idle"
        /\ \A t \in Sessions \ {s} : pc'[t] = pc[t]
    BY <1>4 DEF add_principal, Posting, TypeOK
  <2> HIDE DEF new
  <2> QED BY <2>1, <2>2 DEF Distinct, Posting
<1>5. CASE delete_lock(s) \/ delete_scan(s) \/ get_local_principal(s)
  BY <1>5, QuietDistinct DEF delete_lock, delete_scan, get_local_principal, TypeOK, Posting
<1>6. CASE delete_erase(s)
  BY <1>6, QuietDistinct DEF delete_erase, TypeOK, Posting
<1>7. ASSUME NEW reply \in Replies, post_instance(s, reply) PROVE Distinct'
  BY <1>7, QuietDistinct DEF post_instance, TypeOK, Posting
<1>8. ASSUME NEW reply \in Replies, post_config(s, reply) PROVE Distinct'
  BY <1>8, QuietDistinct DEF post_config, TypeOK, Posting
<1>9. ASSUME NEW reply \in Replies, delete_instance(s, reply) PROVE Distinct'
  BY <1>9, QuietDistinct DEF delete_instance, TypeOK, Posting
<1>10. ASSUME NEW reply \in Replies, metadata_call(s, reply) PROVE Distinct'
  BY <1>10, QuietDistinct DEF metadata_call, TypeOK, Posting
<1> QED BY <1>1, <1>2, <1>3, <1>4, <1>5, <1>6, <1>7, <1>8, <1>9, <1>10 DEF Handler

(* The race of gn_++ in gn() is the only way to a repeated generation number: in every
   behaviour where it never overlaps, with any number of sessions that create and
   delete, no number that gn() returns is in use by another create request or by a
   registered principal. *)
THEOREM UniqueGnTheorem == Spec => UniqueUnlessOverlap
<1>1. Init => BaseInv /\ Distinct
  BY InitBase, InitDistinct
<1>2. BaseInv /\ Distinct /\ OneInGn /\ [Next]_vars => (BaseInv /\ Distinct)'
  <2> SUFFICES ASSUME BaseInv, Distinct, OneInGn, [Next]_vars
               PROVE  BaseInv' /\ Distinct'
    OBVIOUS
  <2>1. BaseInv'
    BY NextBase
  <2>2. ASSUME NEW s \in Sessions, Request(s) \/ Handler(s) PROVE Distinct'
    BY <2>2, StepDistinct DEF BaseInv
  <2>3. CASE UNCHANGED vars
    <3>1. gn_' = gn_ /\ principals_' = principals_ /\ pc' = pc /\ mine' = mine
      BY <2>3 DEF vars
    <3> QED BY <2>1, <3>1 DEF Distinct, Posting
  <2> QED BY <2>1, <2>2, <2>3 DEF Next
<1>3. BaseInv /\ Distinct /\ OneInGn => UniqueGn
  <2> SUFFICES ASSUME BaseInv, Distinct, OneInGn PROVE UniqueGn
    OBVIOUS
  <2>1. /\ gn_ \in Nat /\ \A s \in Sessions : mine[s] \in Nat
        /\ \A p \in principals_ : p.gn \in Nat
    BY DEF BaseInv, TypeOK, Principals
  <2> QED BY <2>1 DEF Distinct, OneInGn, UniqueGn, Creating, Posting
<1> QED BY <1>1, <1>2, <1>3, PTL DEF Spec, UniqueUnlessOverlap

-------------------------------------------------------------------------------
(* Every number in use came from gn_, and a create request that has one has the
   largest. *)
Newest(gn) == (\A p \in principals_ : p.gn < gn) /\ (\A n \in retired : n[2] < gn)
GnInv ==
    /\ Newest(gn_)
    /\ \A s \in Sessions :
          /\ pc[s] = "gn_store" => mine[s] = gn_
          /\ Posting(s) => mine[s] < gn_ /\ Newest(mine[s])

SingleCreator == \A s, t \in Creators : s = t

(* What the manager itself knows of names: no mention of the service. *)
NameInv ==
    /\ BaseInv
    /\ GnInv
    /\ RetiredIsOlder

LEMMA InitNames == Init => NameInv
<1> SUFFICES ASSUME Init PROVE NameInv
  OBVIOUS
<1>1. BaseInv
  BY InitBase
<1>2. GnInv /\ RetiredIsOlder
  BY DEF Init, GnInv, Newest, Posting, RetiredIsOlder
<1> QED BY <1>1, <1>2 DEF NameInv

(* A step that moves one session along, without taking or registering a number. *)
LEMMA QuietNames ==
    ASSUME NameInv, BaseInv', NEW s \in Sessions,
           UNCHANGED <<gn_, principals_, retired>>,
           \A t \in Sessions \ {s} : pc'[t] = pc[t] /\ mine'[t] = mine[t],
           pc'[s] # "gn_store",
           Posting(s)' => Posting(s) /\ mine'[s] = mine[s]
    PROVE  NameInv'
<1>1. GnInv'
  BY DEF NameInv, GnInv, Newest, Posting
<1>2. RetiredIsOlder'
  BY DEF NameInv, RetiredIsOlder
<1> QED BY <1>1, <1>2 DEF NameInv

LEMMA QuietNameSteps ==
    ASSUME NameInv, BaseInv', NEW s \in Sessions,
           \/ Request(s) \/ delete_lock(s) \/ delete_scan(s) \/ get_local_principal(s)
           \/ \E reply \in Replies :
                 \/ post_instance(s, reply) \/ post_config(s, reply)
                 \/ delete_instance(s, reply) \/ metadata_call(s, reply)
    PROVE  NameInv'
<1> USE DEF Goto, Respond, Posting
<1>0. TypeOK
  BY DEF NameInv, BaseInv
<1>1. CASE Request(s)
  <2>1. PICK cmd, id, complete : dispatch(s, cmd, id, complete)
    BY <1>1 DEF Request
  <2>2. FirstStep(cmd) \in {"gn_load", "lock", "get_local", "call"}
    BY DEF FirstStep
  <2> QED BY <1>0, <2>1, <2>2, QuietNames DEF dispatch, TypeOK
<1>2. CASE delete_lock(s)
  BY <1>0, <1>2, QuietNames DEF delete_lock, TypeOK
<1>3. CASE delete_scan(s)
  BY <1>0, <1>3, QuietNames DEF delete_scan, TypeOK
<1>4. CASE get_local_principal(s)
  BY <1>0, <1>4, QuietNames DEF get_local_principal, TypeOK
<1>5. ASSUME NEW reply \in Replies, post_instance(s, reply) PROVE NameInv'
  BY <1>0, <1>5, QuietNames DEF post_instance, TypeOK
<1>6. ASSUME NEW reply \in Replies, post_config(s, reply) PROVE NameInv'
  BY <1>0, <1>6, QuietNames DEF post_config, TypeOK
<1>7. ASSUME NEW reply \in Replies, delete_instance(s, reply) PROVE NameInv'
  BY <1>0, <1>7, QuietNames DEF delete_instance, TypeOK
<1>8. ASSUME NEW reply \in Replies, metadata_call(s, reply) PROVE NameInv'
  BY <1>0, <1>8, QuietNames DEF metadata_call, TypeOK
<1> QED BY <1>1, <1>2, <1>3, <1>4, <1>5, <1>6, <1>7, <1>8

(* Nobody else is creating while the one creator is. *)
LEMMA OnlyCreator ==
    ASSUME SingleCreator, HandlerInv, NEW s \in Sessions,
           pc[s] \in {"gn_load", "gn_store", "post_instance", "post_config", "add"}
    PROVE  /\ s \in Creators /\ req[s].cmd = "CREATE_PRINCIPAL"
           /\ \A t \in Sessions \ {s} : ~Posting(t) /\ pc[t] # "gn_store"
BY DEF HandlerInv, SingleCreator, Posting

(* gn() and add_principal, the steps of create_principal that touch the numbers. *)
LEMMA CreateNames ==
    ASSUME SingleCreator, NameInv, BaseInv', NEW s \in Sessions,
           gn_load(s) \/ gn_store(s) \/ add_principal(s)
    PROVE  NameInv'
<1> USE DEF Goto, Respond
<1>0. TypeOK /\ HandlerInv
  BY DEF NameInv, BaseInv
<1>1. \A t \in Sessions \ {s} : ~Posting(t) /\ pc[t] # "gn_store"
  BY <1>0, OnlyCreator DEF gn_load, gn_store, add_principal
<1>2. CASE gn_load(s)
  <2> USE <1>2 DEF gn_load
  <2>1. GnInv'
    BY <1>0, <1>1 DEF NameInv, GnInv, Newest, Posting, TypeOK
  <2>2. RetiredIsOlder'
    BY DEF NameInv, RetiredIsOlder
  <2> QED BY <2>1, <2>2 DEF NameInv
<1>3. CASE gn_store(s)
  <2> USE <1>3 DEF gn_store
  <2>1. mine[s] = gn_ /\ gn_' = gn_ + 1 /\ gn_ \in Nat
    BY <1>0 DEF NameInv, GnInv, TypeOK
  <2>2. \A p \in principals_ : p.gn \in Nat
    BY <1>0 DEF TypeOK, Principals
  <2>3. \A n \in retired : n[2] \in Nat
    BY <1>0 DEF TypeOK, Names
  <2>4. GnInv'
    BY <1>0, <1>1, <2>1, <2>2, <2>3 DEF NameInv, GnInv, Newest, Posting, TypeOK
  <2>5. RetiredIsOlder'
    BY DEF NameInv, RetiredIsOlder
  <2> QED BY <2>4, <2>5 DEF NameInv
<1>4. CASE add_principal(s)
  <2> USE <1>4 DEF add_principal
  <2> DEFINE new == [id |-> req[s].id, gn |-> mine[s], speaker |-> PidOf[s]]
  <2>1. mine[s] < gn_ /\ Newest(mine[s])
    BY DEF NameInv, GnInv, Posting
  <2>2. principals_' = principals_ \cup {new}
    OBVIOUS
  <2>3. new.gn = mine[s] /\ new.id = req[s].id
    OBVIOUS
  <2>4. gn_ \in Nat /\ mine[s] \in Nat /\ \A p \in principals_ : p.gn \in Nat
    BY <1>0 DEF TypeOK, Principals
  <2> HIDE DEF new
  <2>5. GnInv'
    <3>1. Newest(gn_)'
      BY <2>1, <2>2, <2>3, <2>4 DEF NameInv, GnInv, Newest
    <3>2. \A t \in Sessions : pc'[t] # "gn_store" /\ ~Posting(t)'
      BY <1>0, <1>1 DEF Posting, TypeOK
    <3> QED BY <3>1, <3>2 DEF GnInv
  <2>6. RetiredIsOlder'
    BY <2>1, <2>2, <2>3 DEF NameInv, Newest, RetiredIsOlder
  <2> QED BY <2>5, <2>6 DEF NameInv
<1> QED BY <1>2, <1>3, <1>4

(* delete_principal's erase moves all names of an id. *)
LEMMA EraseNames ==
    ASSUME NameInv, BaseInv', NEW s \in Sessions, delete_erase(s)
    PROVE  NameInv'
<1> USE DEF Goto, delete_erase
<1>1. \A n \in retired' : n \in retired \/ \E p \in principals_ : n = <<p.id, p.gn>>
  BY DEF equal_range, principal_name
<1>2. retired \subseteq retired' /\ principals_' \subseteq principals_
  OBVIOUS
<1>3. GnInv'
  <2>1. \A gn : Newest(gn) => \A n \in retired' : n[2] < gn
    BY <1>1 DEF Newest
  <2>2. \A gn : Newest(gn) => Newest(gn)'
    BY <1>2, <2>1 DEF Newest
  <2> QED BY <1>2, <2>2 DEF NameInv, BaseInv, GnInv, Posting, TypeOK
<1>4. RetiredIsOlder'
  <2>1. \A p \in principals_' : p.id # req[s].id
    BY DEF equal_range
  <2>2. \A n \in retired' : n \in retired \/ n[1] = req[s].id
    BY DEF equal_range, principal_name
  <2> QED BY <1>2, <2>1, <2>2 DEF NameInv, RetiredIsOlder
<1> QED BY <1>3, <1>4 DEF NameInv

(* With a single creator, every step preserves what is known of names. *)
LEMMA NextNames ==
    ASSUME SingleCreator
    PROVE  NameInv /\ [Next]_vars => NameInv'
<1> SUFFICES ASSUME NameInv, [Next]_vars PROVE NameInv'
  OBVIOUS
<1>1. BaseInv'
  BY NextBase DEF NameInv
<1>2. ASSUME NEW s \in Sessions, Request(s) \/ Handler(s) PROVE NameInv'
  BY <1>1, <1>2, QuietNameSteps, CreateNames, EraseNames DEF Handler
<1>3. CASE UNCHANGED vars
  BY <1>1, <1>3 DEF vars, NameInv, GnInv, Newest, Posting, RetiredIsOlder
<1> QED BY <1>2, <1>3 DEF Next

(* A retired name belongs to no registered principal and to no create request. *)
LEMMA RetiredIsUnused ==
    ASSUME NameInv, NEW n \in retired
    PROVE  /\ \A p \in principals_ : principal_name(p) # n
           /\ \A t \in Sessions : Posting(t) => MyName(t) # n
<1>1. n[2] \in Nat /\ \A p \in principals_ : p.gn \in Nat
  BY DEF NameInv, BaseInv, TypeOK, Names, Principals
<1>2. \A t \in Sessions : mine[t] \in Nat
  BY DEF NameInv, BaseInv, TypeOK
<1>3. ASSUME NEW p \in principals_ PROVE principal_name(p) # n
  BY <1>1 DEF NameInv, RetiredIsOlder, principal_name
<1>4. ASSUME NEW t \in Sessions, Posting(t) PROVE MyName(t) # n
  BY <1>1, <1>2, <1>4 DEF NameInv, GnInv, Newest, MyName
<1> QED BY <1>3, <1>4

-------------------------------------------------------------------------------
(* The instances of the metadata service: one that is about to be registered is
   there, one that is being deleted or was deleted has been erased here. *)
LiveInv ==
    \A s \in Sessions :
        /\ pc[s] \in {"post_config", "add"} => MyName(s) \in live
        /\ pc[s] = "delete_instance" => MyName(s) \in retired
        /\ pc[s] = "idle" /\ req[s].cmd = "DELETE_PRINCIPAL" /\ answer[s] = "true"
              => MyName(s) \in retired \ live

IInv ==
    /\ NameInv
    /\ RegisteredIsLive
    /\ LiveInv

LEMMA InitIInv == Init => IInv
<1> SUFFICES ASSUME Init PROVE IInv
  OBVIOUS
<1>1. NameInv
  BY InitNames
<1>2. RegisteredIsLive /\ LiveInv
  BY DEF Init, RegisteredIsLive, LiveInv
<1> QED BY <1>1, <1>2 DEF IInv

(* A step that only moves one session along, to a step that the invariant does
   not constrain further. *)
LEMMA QuietIInv ==
    ASSUME IInv, NameInv', NEW s \in Sessions,
           UNCHANGED <<principals_, retired, live>>,
           \A t \in Sessions \ {s} : /\ pc'[t] = pc[t] /\ req'[t] = req[t]
                                     /\ mine'[t] = mine[t] /\ answer'[t] = answer[t],
           pc'[s] \in {"idle", "gn_load", "gn_store", "post_instance", "lock", "scan",
                       "erase", "get_local", "call"},
           pc'[s] = "idle" => answer'[s] # "true" \/ req'[s].cmd # "DELETE_PRINCIPAL"
    PROVE  IInv'
<1>1. RegisteredIsLive'
  BY DEF IInv, RegisteredIsLive, principal_name
<1>2. LiveInv'
  BY DEF IInv, LiveInv, MyName
<1> QED BY <1>1, <1>2 DEF IInv

(* dispatch, gn(), the lock and the scan, the queries and the plain calls. *)
LEMMA QuietSteps ==
    ASSUME IInv, NameInv', NEW s \in Sessions,
           \/ Request(s) \/ gn_load(s) \/ gn_store(s)
           \/ delete_lock(s) \/ delete_scan(s) \/ get_local_principal(s)
           \/ \E reply \in Replies : metadata_call(s, reply)
    PROVE  IInv'
<1> USE DEF Goto, Respond
<1>0. TypeOK /\ HandlerInv
  BY DEF IInv, NameInv, BaseInv
<1>1. CASE Request(s)
  <2>1. PICK cmd, id, complete : dispatch(s, cmd, id, complete)
    BY <1>1 DEF Request
  <2>2. FirstStep(cmd) \in {"gn_load", "lock", "get_local", "call"}
    BY DEF FirstStep
  <2> QED BY <1>0, <2>1, <2>2, QuietIInv DEF dispatch, TypeOK
<1>2. CASE delete_lock(s)
  BY <1>0, <1>2, QuietIInv DEF delete_lock, TypeOK
<1>3. CASE delete_scan(s)
  BY <1>0, <1>3, QuietIInv DEF delete_scan, TypeOK
<1>4. CASE get_local_principal(s)
  BY <1>0, <1>4, QuietIInv DEF get_local_principal, TypeOK
<1>5. CASE \E reply \in Replies : metadata_call(s, reply)
  BY <1>0, <1>5, QuietIInv DEF metadata_call, TypeOK, HandlerInv
<1>6. CASE gn_load(s)
  BY <1>0, <1>6, QuietIInv DEF gn_load, TypeOK
<1>7. CASE gn_store(s)
  BY <1>0, <1>7, QuietIInv DEF gn_store, TypeOK
<1> QED BY <1>1, <1>2, <1>3, <1>4, <1>5, <1>6, <1>7

(* The steps of create_principal that tell the service and register. *)
LEMMA CreateSteps ==
    ASSUME IInv, NameInv', NEW s \in Sessions,
           \/ add_principal(s)
           \/ \E reply \in Replies : post_instance(s, reply) \/ post_config(s, reply)
    PROVE  IInv'
<1> USE DEF Goto, Respond
<1>0. TypeOK /\ HandlerInv
  BY DEF IInv, NameInv, BaseInv
<1>1. req[s].cmd = "CREATE_PRINCIPAL"
  BY <1>0 DEF HandlerInv, add_principal, post_instance, post_config
<1>2. ASSUME NEW reply \in Replies, post_instance(s, reply) PROVE IInv'
  <2> USE <1>2 DEF post_instance
  <2>1. MyName(s) \notin retired
    BY RetiredIsUnused DEF Posting, IInv
  <2>2. identity_task(reply) = "true" => MayApply(reply) /\ ~MayIgnore(reply)
    BY DEF identity_task, json_task, MayApply, MayIgnore, Replies
  <2>3. RegisteredIsLive'
    BY DEF IInv, RegisteredIsLive, principal_name
  <2>4. /\ live \subseteq live' /\ live' \subseteq live \cup {MyName(s)}
        /\ pc'[s] = "post_config" => MyName(s) \in live'
        /\ pc'[s] \in {"post_config", "idle"}
    BY <1>0, <2>2 DEF TypeOK
  <2>5. ASSUME NEW t \in Sessions
        PROVE  /\ pc'[t] \in {"post_config", "add"} => MyName(t)' \in live'
               /\ pc'[t] = "delete_instance" => MyName(t)' \in retired'
               /\ pc'[t] = "idle" /\ req'[t].cmd = "DELETE_PRINCIPAL" /\ answer'[t] = "true"
                     => MyName(t)' \in retired' \ live'
    <3>1. CASE t = s
      BY <1>0, <1>1, <2>4, <3>1 DEF TypeOK, MyName
    <3>2. CASE t # s
      <4>1. pc'[t] = pc[t] /\ answer'[t] = answer[t] /\ MyName(t)' = MyName(t)
        BY <1>0, <3>2 DEF TypeOK, MyName
      <4> QED BY <2>1, <2>4, <4>1 DEF IInv, LiveInv
    <3> QED BY <3>1, <3>2
  <2> QED BY <2>3, <2>5 DEF IInv, LiveInv
<1>3. ASSUME NEW reply \in Replies, post_config(s, reply) PROVE IInv'
  <2> USE <1>3 DEF post_config
  <2>1. RegisteredIsLive'
    BY DEF IInv, RegisteredIsLive, principal_name
  <2>2. LiveInv'
    BY <1>0, <1>1 DEF IInv, LiveInv, MyName, TypeOK
  <2> QED BY <2>1, <2>2 DEF IInv
<1>4. CASE add_principal(s)
  <2> USE <1>4 DEF add_principal
  <2>1. MyName(s) \in live
    BY DEF IInv, LiveInv
  <2>2. \A p \in principals_' : p \in principals_ \/ principal_name(p) = MyName(s)
    BY DEF principal_name, MyName
  <2>3. RegisteredIsLive'
    BY <2>1, <2>2 DEF IInv, RegisteredIsLive, principal_name
  <2>4. LiveInv'
    BY <1>0, <1>1 DEF IInv, LiveInv, MyName, TypeOK
  <2> QED BY <2>3, <2>4 DEF IInv
<1> QED BY <1>2, <1>3, <1>4

(* The steps of delete_principal that take something away. *)
LEMMA DeleteSteps ==
    ASSUME IInv, NameInv', NEW s \in Sessions,
           delete_erase(s) \/ \E reply \in Replies : delete_instance(s, reply)
    PROVE  IInv'
<1> USE DEF Goto, Respond
<1>0. TypeOK
  BY DEF IInv, NameInv, BaseInv
<1>1. CASE delete_erase(s)
  <2> USE <1>1 DEF delete_erase
  <2>1. MyName(s) \in retired'
    BY DEF IInv, NameInv, BaseInv, LockInv, equal_range, principal_name, MyName
  <2>2. retired \subseteq retired' /\ principals_' \subseteq principals_
    OBVIOUS
  <2>3. RegisteredIsLive'
    BY <2>2 DEF IInv, RegisteredIsLive, principal_name
  <2>4. LiveInv'
    BY <1>0, <2>1, <2>2 DEF IInv, LiveInv, MyName, TypeOK
  <2> QED BY <2>3, <2>4 DEF IInv
<1>2. ASSUME NEW reply \in Replies, delete_instance(s, reply) PROVE IInv'
  <2> USE <1>2 DEF delete_instance
  <2>1. MyName(s) \in retired
    BY DEF IInv, LiveInv
  <2>2. status_of(json_task(reply)) = "true" => ~MayIgnore(reply)
    BY DEF status_of, json_task, MayIgnore, Replies
  <2>3. live' \subseteq live /\ live \subseteq live' \cup {MyName(s)}
    OBVIOUS
  <2>4. RegisteredIsLive'
    BY <2>1, <2>3, RetiredIsUnused DEF IInv, RegisteredIsLive, principal_name
  <2>5. ASSUME NEW t \in Sessions
        PROVE  /\ pc'[t] \in {"post_config", "add"} => MyName(t)' \in live'
               /\ pc'[t] = "delete_instance" => MyName(t)' \in retired'
               /\ pc'[t] = "idle" /\ req'[t].cmd = "DELETE_PRINCIPAL" /\ answer'[t] = "true"
                     => MyName(t)' \in retired' \ live'
    <3>1. CASE t = s
      <4>1. /\ pc'[t] = "idle" /\ answer'[t] = status_of(json_task(reply))
            /\ MyName(t)' = MyName(t)
        BY <1>0, <3>1 DEF TypeOK, MyName
      <4>2. ~MayIgnore(reply) => MyName(s) \notin live'
        OBVIOUS
      <4> QED BY <2>1, <2>2, <3>1, <4>1, <4>2
    <3>2. CASE t # s
      <4>1. pc'[t] = pc[t] /\ answer'[t] = answer[t] /\ MyName(t)' = MyName(t)
        BY <1>0, <3>2 DEF TypeOK, MyName
      <4>2. Posting(t) => MyName(t) # MyName(s)
        BY <2>1, RetiredIsUnused DEF IInv
      <4> QED BY <2>3, <4>1, <4>2 DEF IInv, LiveInv, Posting
    <3> QED BY <3>1, <3>2
  <2> QED BY <2>4, <2>5 DEF IInv, LiveInv
<1> QED BY <1>1, <1>2

(* With a single creator, every step preserves the whole invariant. *)
LEMMA NextIInv ==
    ASSUME SingleCreator
    PROVE  IInv /\ [Next]_vars => IInv'
<1> SUFFICES ASSUME IInv, [Next]_vars PROVE IInv'
  OBVIOUS
<1>1. NameInv'
  BY NextNames DEF IInv
<1>2. ASSUME NEW s \in Sessions, Request(s) \/ Handler(s) PROVE IInv'
  BY <1>1, <1>2, QuietSteps, CreateSteps, DeleteSteps DEF Handler
<1>3. CASE UNCHANGED vars
  BY <1>1, <1>3 DEF vars, IInv, RegisteredIsLive, principal_name, LiveInv, MyName
<1> QED BY <1>2, <1>3 DEF Next

LEMMA CreatorInvariant ==
    ASSUME SingleCreator
    PROVE  Spec => []IInv
<1>1. IInv /\ [Next]_vars => IInv'
  BY NextIInv
<1> QED BY <1>1, InitIInv, PTL DEF Spec

(* With a single creator, what delete_principal erased never comes back: the
   generations registered under an id are newer than the erased ones. *)
THEOREM RetiredTheorem ==
    ASSUME SingleCreator
    PROVE  Spec => []RetiredIsOlder
<1>1. IInv => RetiredIsOlder
  BY DEF IInv, NameInv
<1> QED BY <1>1, CreatorInvariant, PTL

(* With a single creator, every principal in principals_ is an instance of the
   metadata service, although create_principal and delete_principal call the
   service outside the lock. *)
THEOREM RegisteredTheorem ==
    ASSUME SingleCreator
    PROVE  Spec => []RegisteredIsLive
<1>1. IInv => RegisteredIsLive
  BY DEF IInv
<1> QED BY <1>1, CreatorInvariant, PTL

(* With a single creator, a deletion that was answered with status(true) is
   complete on both sides and stays so, whatever answers of the service were
   lost or bad. *)
THEOREM DeletionTheorem ==
    ASSUME SingleCreator
    PROVE  Spec => []DeletedIsGone
<1>1. IInv => DeletedIsGone
  BY RetiredIsUnused DEF IInv, LiveInv, DeletedIsGone
<1> QED BY <1>1, CreatorInvariant, PTL

-------------------------------------------------------------------------------
(* The registry that the clients see. *)
LEMMA RegistryInit == Init => Registry!Init
BY DEF Init, Registry!Init, registered_names

(* The step that shows as a registration: its name is newer than all of its id. *)
LEMMA AddRegisters ==
    ASSUME IInv, NEW s \in Sessions, add_principal(s)
    PROVE  \E name \in registered_names' : Registry!Register(name)
<1> DEFINE new == [id |-> req[s].id, gn |-> mine[s], speaker |-> PidOf[s]]
<1>1. principals_' = principals_ \cup {new} /\ retired' = retired
  BY DEF add_principal
<1>2. principal_name(new) = MyName(s) /\ MyName(s)[2] = mine[s]
  BY DEF principal_name, MyName
<1> HIDE DEF new
<1>3. registered_names' = registered_names \cup {MyName(s)}
  BY <1>1, <1>2 DEF registered_names, principal_name
<1>4. Newest(mine[s])
  BY DEF IInv, NameInv, GnInv, Posting, add_principal
<1>5. \A n \in retired \cup registered_names : n[2] < MyName(s)[2]
  BY <1>2, <1>4 DEF Newest, registered_names, principal_name
<1> QED BY <1>1, <1>3, <1>5 DEF Registry!Register

(* The step that shows as a removal: all generations of the id go. *)
LEMMA EraseUnregisters ==
    ASSUME IInv, NEW s \in Sessions, delete_erase(s)
    PROVE  Registry!Unregister(req[s].id)
<1>1. registered_names' = {n \in registered_names : n[1] # req[s].id}
  BY DEF delete_erase, registered_names, equal_range, principal_name
<1>2. retired' \cup registered_names' = retired \cup registered_names
  BY DEF delete_erase, registered_names, equal_range, principal_name
<1> QED BY <1>1, <1>2 DEF Registry!Unregister

LEMMA RegistryStep == IInv /\ [Next]_vars => [Registry!Next]_(Registry!vars)
<1> SUFFICES ASSUME IInv, [Next]_vars PROVE [Registry!Next]_(Registry!vars)
  OBVIOUS
<1>1. ASSUME UNCHANGED <<principals_, retired>> PROVE UNCHANGED Registry!vars
  BY <1>1 DEF Registry!vars, registered_names, principal_name
<1>2. ASSUME NEW s \in Sessions, Request(s) \/ Handler(s)
      PROVE  \/ UNCHANGED <<principals_, retired>>
             \/ add_principal(s) \/ delete_erase(s)
  BY <1>2 DEF Request, dispatch, Handler, gn_load, gn_store, delete_lock, delete_scan,
              get_local_principal, post_instance, post_config, delete_instance,
              metadata_call
<1>3. ASSUME NEW s \in Sessions PROVE req[s].id \in Ids
  BY <1>3 DEF IInv, NameInv, BaseInv, TypeOK
<1>4. CASE UNCHANGED vars
  BY <1>1, <1>4 DEF vars
<1>5. CASE Next
  BY <1>1, <1>2, <1>3, <1>5, AddRegisters, EraseUnregisters DEF Next, Registry!Next
<1> QED BY <1>4, <1>5

(* With a single creator, the manager implements PrincipalRegistry: create_principal
   shows as one registration under a newer generation, delete_principal as one
   removal of all generations, and nothing else shows. *)
THEOREM RegistryTheorem ==
    ASSUME SingleCreator
    PROVE  Spec => KeepsRegistry
<1>1. Init => Registry!Init
  BY RegistryInit
<1>2. IInv /\ [Next]_vars => [Registry!Next]_(Registry!vars)
  BY RegistryStep
<1> QED BY <1>1, <1>2, CreatorInvariant, PTL DEF Spec, KeepsRegistry, Registry!Spec
===============================================================================
