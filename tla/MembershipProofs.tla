-------------------------- MODULE MembershipProofs --------------------------
(***************************************************************************)
(* Proofs about Membership for every set of nodes and every bound: the     *)
(* registry holds an address once, and the recovery guard admits one       *)
(* failover of an address and is released by it.                           *)
(***************************************************************************)
EXTENDS Membership, FiniteSetTheorems, TLAPS

(* add_server keeps the addresses apart, whatever id it hands out and      *)
(* whoever holds that id.                                                  *)
LEMMA AddServerUnique ==
  ASSUME AddressesUnique, NEW n, AddServer(n)
  PROVE  AddressesUnique'
<1>1. CASE n \in Registered
  BY <1>1 DEF AddServer, AddressesUnique
<1>2. CASE n \notin Registered
  <2>1. servers' = Put(servers, next_id, n)
    BY <1>2 DEF AddServer
  <2>2. \A i \in DOMAIN servers : servers[i] # n
    BY <1>2 DEF Registered
  <2> QED
    BY <2>1, <2>2 DEF AddressesUnique, Put
<1> QED
  BY <1>1, <1>2

LEMMA NextAddressesUnique == AddressesUnique /\ [Next]_vars => AddressesUnique'
<1> SUFFICES ASSUME AddressesUnique, [Next]_vars
             PROVE  AddressesUnique'
  OBVIOUS
<1>1. CASE \E n \in Nodes : HandleAddServer(n)
  BY <1>1, AddServerUnique DEF HandleAddServer
<1>2. CASE FinishAdd
  BY <1>2, AddServerUnique DEF FinishAdd
<1>3. CASE \E t \in failover : RemoveServer(t)
  BY <1>3 DEF RemoveServer, AddressesUnique
<1>4. CASE UNCHANGED servers
  BY <1>4 DEF AddressesUnique
<1>5. CASE \E n \in Nodes : SelfRegister(n) \/ RecordHeartbeat(n) \/ Crash(n) \/ Start(n)
  BY <1>4, <1>5 DEF SelfRegister, RecordHeartbeat, Crash, Start
<1>6. CASE CheckHealth
  BY <1>4, <1>6 DEF CheckHealth
<1>7. CASE \E t \in failover : \/ EnterGuard(t) \/ VerifyConsensus(t)
                               \/ SendDeadSignal(t) \/ LeaveGuard(t)
  BY <1>4, <1>7 DEF EnterGuard, VerifyConsensus, SendDeadSignal, LeaveGuard
<1>8. CASE FinishRegister
  BY <1>4, <1>8 DEF FinishRegister
<1>9. CASE RestartHead
  BY <1>9, MembershipAssumption DEF RestartHead, ConfigServers, AddressesUnique
<1> QED
  BY <1>1, <1>2, <1>3, <1>4, <1>5, <1>6, <1>7, <1>8, <1>9 DEF Next, Failover, vars

(* Whatever registrations, repeated registrations and failovers interleave *)
(* and whatever ids they use, add_server leaves no address in the registry *)
(* twice.                                                                  *)
THEOREM RegistryHoldsAddressOnce == Spec => []AddressesUnique
<1>1. Init => AddressesUnique
  BY MembershipAssumption DEF Init, ConfigServers, AddressesUnique
<1> QED
  BY <1>1, NextAddressesUnique, PTL DEF Spec

-----------------------------------------------------------------------------
(* A failover thread is its place in on_server_unhealthy_callback, and the *)
(* id and the address it was started with.                                 *)
Threads(F) == \A t \in F : t = [pc |-> t.pc, id |-> t.id, ip |-> t.ip]

GuardInv == Threads(failover) /\ OneFailoverPerServer

(* A thread past the guard takes one more step inside it.                  *)
LEMMA StepInside ==
  ASSUME GuardInv, NEW t \in InFailover, NEW pc, pc # "start", GoTo(t, pc),
         UNCHANGED recovering
  PROVE  GuardInv'
<1> DEFINE u == [t EXCEPT !.pc = pc]
<1>1. /\ t \in failover
      /\ u = [pc |-> pc, id |-> t.id, ip |-> t.ip] /\ u.ip = t.ip /\ u.pc = pc
      /\ failover' = (failover \ {t}) \cup {u}
  BY DEF GuardInv, Threads, InFailover, GoTo
<1> HIDE DEF u
<1>2. Threads(failover')
  BY <1>1 DEF GuardInv, Threads
<1>3. InFailover' = (InFailover \ {t}) \cup {u}
  BY <1>1 DEF InFailover
<1>4. {v.ip : v \in InFailover'} = {v.ip : v \in InFailover}
  BY <1>1, <1>3
<1>5. \A v, w \in InFailover' : v.ip = w.ip => v = w
  BY <1>1, <1>3 DEF GuardInv, OneFailoverPerServer
<1> QED
  BY <1>2, <1>4, <1>5 DEF GuardInv, OneFailoverPerServer

(* A thread past the guard ends and releases it.                           *)
LEMMA StepOut ==
  ASSUME GuardInv, NEW t \in InFailover, End(t), recovering' = recovering \ {t.ip}
  PROVE  GuardInv'
<1>1. InFailover' = InFailover \ {t} /\ failover' \subseteq failover
  BY DEF InFailover, End
<1>2. Threads(failover')
  BY <1>1 DEF GuardInv, Threads
<1>3. \A v \in InFailover' : v.ip # t.ip
  BY <1>1 DEF GuardInv, OneFailoverPerServer
<1>4. recovering' = {v.ip : v \in InFailover'}
  BY <1>1, <1>3 DEF GuardInv, OneFailoverPerServer
<1> QED
  BY <1>1, <1>2, <1>4 DEF GuardInv, OneFailoverPerServer

(* A thread at the guard ends there, or enters when nobody is inside.      *)
LEMMA StepIn ==
  ASSUME GuardInv, NEW t \in failover, EnterGuard(t)
  PROVE  GuardInv'
<1>1. CASE t.ip \in recovering
  <2>1. failover' = failover \ {t} /\ recovering' = recovering /\ t.pc = "start"
    BY <1>1 DEF EnterGuard, End
  <2>2. InFailover' = InFailover
    BY <2>1 DEF InFailover
  <2> QED
    BY <2>1, <2>2 DEF GuardInv, Threads, OneFailoverPerServer
<1>2. CASE t.ip \notin recovering
  <2> DEFINE u == [t EXCEPT !.pc = "consensus"]
  <2>1. /\ t.pc = "start" /\ recovering' = recovering \cup {t.ip}
        /\ failover' = (failover \ {t}) \cup {u}
        /\ u = [pc |-> "consensus", id |-> t.id, ip |-> t.ip]
        /\ u.ip = t.ip /\ u.pc = "consensus"
    BY <1>2 DEF EnterGuard, GoTo, GuardInv, Threads
  <2> HIDE DEF u
  <2>2. InFailover' = InFailover \cup {u}
    BY <2>1 DEF InFailover
  <2>3. Threads(failover')
    BY <2>1 DEF GuardInv, Threads
  <2>4. \A v \in InFailover : v.ip # u.ip
    BY <1>2, <2>1 DEF GuardInv, OneFailoverPerServer
  <2>5. recovering' = {v.ip : v \in InFailover'}
    BY <2>1, <2>2 DEF GuardInv, OneFailoverPerServer
  <2>6. \A v, w \in InFailover' : v.ip = w.ip => v = w
    BY <2>2, <2>4 DEF GuardInv, OneFailoverPerServer
  <2> QED
    BY <2>3, <2>5, <2>6 DEF GuardInv, OneFailoverPerServer
<1> QED
  BY <1>1, <1>2

(* A round of health_check_thread starts threads, none of them inside.     *)
LEMMA RoundStartsOutside ==
  ASSUME GuardInv, CheckHealth
  PROVE  GuardInv'
<1>1. PICK T : failover' = failover \cup {[pc |-> "start", id |-> i, ip |-> health[i].ip] : i \in T}
  BY DEF CheckHealth
<1>2. Threads(failover') /\ InFailover' = InFailover /\ recovering' = recovering
  BY <1>1 DEF CheckHealth, GuardInv, Threads, InFailover
<1> QED
  BY <1>2 DEF GuardInv, OneFailoverPerServer

LEMMA NextGuardInv == GuardInv /\ [Next]_vars => GuardInv'
<1> SUFFICES ASSUME GuardInv, [Next]_vars PROVE GuardInv'
  OBVIOUS
<1>1. CASE UNCHANGED <<failover, recovering>>
  BY <1>1 DEF GuardInv, OneFailoverPerServer, InFailover
<1>2. CASE \E n \in Nodes : \/ SelfRegister(n) \/ HandleAddServer(n)
                            \/ RecordHeartbeat(n) \/ Crash(n) \/ Start(n)
  BY <1>1, <1>2 DEF SelfRegister, HandleAddServer, RecordHeartbeat, Crash, Start
<1>3. CASE FinishAdd \/ FinishRegister
  BY <1>1, <1>3 DEF FinishAdd, FinishRegister
<1>6. CASE RestartHead
  BY <1>6 DEF RestartHead, GuardInv, Threads, OneFailoverPerServer, InFailover
<1>4. CASE CheckHealth
  BY <1>4, RoundStartsOutside
<1>5. ASSUME NEW t \in failover, Failover(t) PROVE GuardInv'
  <2>1. CASE EnterGuard(t)
    BY <2>1, StepIn
  <2>2. CASE VerifyConsensus(t)
    BY <2>2, StepInside, StepOut DEF VerifyConsensus, InFailover
  <2>3. CASE SendDeadSignal(t)
    BY <2>3, StepInside DEF SendDeadSignal, InFailover
  <2>4. CASE RemoveServer(t)
    BY <2>4, StepInside DEF RemoveServer, InFailover
  <2>5. CASE LeaveGuard(t)
    BY <2>5, StepOut DEF LeaveGuard, InFailover
  <2> QED
    BY <1>5, <2>1, <2>2, <2>3, <2>4, <2>5 DEF Failover
<1> QED
  BY <1>1, <1>2, <1>3, <1>4, <1>5, <1>6 DEF Next, vars

(* However many health records of a server turn unhealthy, and in whatever *)
(* order their threads run, one failover of an address is past the guard   *)
(* of on_server_unhealthy_callback, and the guard is held by it alone.     *)
THEOREM FailoversExcludeEachOther == Spec => []OneFailoverPerServer
<1>1. Init => GuardInv
  BY DEF Init, GuardInv, Threads, OneFailoverPerServer, InFailover
<1>2. GuardInv => OneFailoverPerServer
  BY DEF GuardInv
<1> QED
  BY <1>1, <1>2, NextGuardInv, PTL DEF Spec

-----------------------------------------------------------------------------
(* The types.  The bound on ids leaves room for the configuration and for  *)
(* the ids the nodes are started with.                                     *)
IdsWithinBound == Len(Config) <= MaxId /\ \A n \in Nodes : ServerId[n] <= MaxId

Record == [ip : Nodes, is_healthy : BOOLEAN, missed : 0 .. MaxMissed, age : 0 .. Timeout + 1]
Records(H) == \A i \in DOMAIN H : i \in 1 .. MaxId /\ H[i] \in Record

Typed == TypeOK /\ Records(health)

LEMMA HealthyIsRecord == \A n \in Nodes : Healthy(n) \in Record
BY MembershipAssumption DEF Healthy, Record

LEMMA PutRecord ==
  ASSUME Records(health), NEW i \in 1 .. MaxId, NEW n \in Nodes
  PROVE  Records(Put(health, i, Healthy(n)))
<1> DEFINE h == Healthy(n)
<1>1. h \in Record
  BY HealthyIsRecord
<1> HIDE DEF h
<1>2. Records(Put(health, i, h))
  BY <1>1 DEF Records, Put
<1> QED
  BY <1>2 DEF h

LEMMA AgedIsRecord ==
  ASSUME NEW h \in Record
  PROVE  Aged(h) \in Record
<1> DEFINE age == IF h.age > Timeout THEN h.age ELSE h.age + 1
           missed == IF age > Timeout /\ h.missed < MaxMissed THEN h.missed + 1 ELSE h.missed
           ok == h.is_healthy /\ ~(age > Timeout /\ missed >= MaxMissed)
<1>1. age \in 0 .. Timeout + 1
  BY MembershipAssumption DEF Record
<1>2. missed \in 0 .. MaxMissed
  <2> HIDE DEF age
  <2> QED
    BY MembershipAssumption DEF Record
<1>3. ok \in BOOLEAN
  BY DEF Record
<1>4. Aged(h) = [h EXCEPT !.age = age, !.missed = missed, !.is_healthy = ok]
  BY DEF Aged, Record
<1> HIDE DEF age, missed, ok
<1> QED
  BY <1>1, <1>2, <1>3, <1>4 DEF Record

(* The tables run_head_server begins with.                                 *)
LEMMA ConfigTyped ==
  ASSUME IdsWithinBound
  PROVE  /\ DOMAIN ConfigServers \subseteq 1 .. MaxId
         /\ \A i \in DOMAIN ConfigServers : ConfigServers[i] \in Nodes
         /\ Len(Config) + 1 \in 1 .. MaxId + 1
         /\ Records(ConfigHealth)
<1>1. /\ Len(Config) \in Nat /\ MaxId \in Nat /\ Len(Config) <= MaxId
      /\ \A i \in 1 .. Len(Config) : Config[i] \in Nodes
      /\ \A n \in Nodes : ServerId[n] \in 1 .. MaxId
  BY MembershipAssumption DEF IdsWithinBound
<1>2. /\ DOMAIN ConfigServers \subseteq 1 .. MaxId
      /\ \A i \in DOMAIN ConfigServers : ConfigServers[i] \in Nodes
      /\ Len(Config) + 1 \in 1 .. MaxId + 1
  BY <1>1 DEF ConfigServers
<1>3. ASSUME NEW i \in DOMAIN ConfigHealth
      PROVE  i \in 1 .. MaxId /\ ConfigHealth[i] \in Record
  <2>1. PICK j \in 1 .. Len(Config) : i = ServerId[Config[j]]
    BY <1>3 DEF ConfigHealth
  <2>2. Config[j] \in Nodes /\ ServerId[Config[j]] = i
    BY <1>1, <2>1
  <2>3. (CHOOSE n \in Nodes : ServerId[n] = i) \in Nodes
    BY <2>2
  <2>4. ConfigHealth[i] = Healthy(CHOOSE n \in Nodes : ServerId[n] = i)
    BY <1>3 DEF ConfigHealth
  <2> QED
    BY <1>1, <2>2, <2>3, <2>4, HealthyIsRecord
<1> QED
  BY <1>2, <1>3 DEF Records

Request == [at : {"accept", "add", "record"}, node : Nodes \cup {Nobody}, id : 0 .. MaxId]

LEMMA RequestTyped == NoRequest \in Request
BY MembershipAssumption DEF NoRequest, Request

LEMMA InitTyped ==
  ASSUME IdsWithinBound, Init
  PROVE  Typed
<1>1. MaxRestarts \in Nat
  BY MembershipAssumption
<1>2. /\ DOMAIN servers \subseteq 1 .. MaxId /\ Registered \subseteq Nodes
      /\ next_id \in 1 .. MaxId + 1 /\ Records(health)
  BY ConfigTyped DEF Init, Registered
<1>3. registering \in Request
  BY RequestTyped DEF Init
<1>4. /\ failover = {} /\ recovering = {} /\ alive = Nodes
      /\ beaten = {} /\ restarts \in 0 .. MaxRestarts
  BY <1>1 DEF Init
<1>5. \A i \in DOMAIN health : i \in Nat /\ health[i] \in Record
  BY <1>2 DEF Records
<1> QED
  BY <1>2, <1>3, <1>4, <1>5 DEF Typed, TypeOK, Record, Request

(* What add_server does, for a node at hand.                               *)
LEMMA AddTyped ==
  ASSUME Typed, NEW n \in Nodes, next_id <= MaxId, AddServer(n)
  PROVE  /\ DOMAIN servers' \subseteq 1 .. MaxId /\ Registered' \subseteq Nodes
         /\ next_id' \in 1 .. MaxId + 1
         /\ IdOf(n) \in 1 .. MaxId
<1>1. next_id \in 1 .. MaxId /\ MaxId \in Nat /\ DOMAIN servers \subseteq 1 .. MaxId
  BY MembershipAssumption DEF Typed, TypeOK
<1>2. IdOf(n) \in 1 .. MaxId
  BY <1>1 DEF IdOf, Registered
<1>4. CASE n \in Registered
  BY <1>2, <1>4 DEF AddServer, Typed, TypeOK, Registered
<1>5. CASE n \notin Registered
  <2>1. servers' = Put(servers, next_id, n) /\ next_id' = next_id + 1
    BY <1>5 DEF AddServer
  <2>2. DOMAIN servers' \subseteq 1 .. MaxId /\ next_id' \in 1 .. MaxId + 1
    BY <1>1, <2>1 DEF Put
  <2>3. \A i \in DOMAIN servers' : servers'[i] \in Nodes
    BY <2>1 DEF Put, Typed, TypeOK, Registered
  <2> QED
    BY <1>2, <2>2, <2>3 DEF Registered
<1> QED
  BY <1>4, <1>5

(* The node and the id of a request under way: the part of its type that   *)
(* says what add_server and register_server are called with.               *)
RequestInv == /\ registering.at = "add" => registering.node \in Nodes
              /\ registering.at = "record" => registering.node \in Nodes /\ registering.id \in 1 .. MaxId

LEMMA RegistrationTyped ==
  ASSUME Typed, RequestInv,
         \/ FinishAdd \/ FinishRegister
         \/ \E n \in Nodes : SelfRegister(n) \/ HandleAddServer(n)
  PROVE  Typed' /\ RequestInv'
<1>1. ASSUME NEW n \in Nodes, next_id <= MaxId, AddServer(n),
             registering' = [at |-> "record", node |-> n, id |-> IdOf(n)],
             UNCHANGED <<health, failover, recovering, alive, beaten, restarts>>
      PROVE  Typed' /\ RequestInv'
  <2>1. /\ DOMAIN servers' \subseteq 1 .. MaxId /\ Registered' \subseteq Nodes
        /\ next_id' \in 1 .. MaxId + 1 /\ IdOf(n) \in 1 .. MaxId
    BY <1>1, AddTyped
  <2>2. /\ registering'.at = "record" /\ registering'.node = n /\ registering'.id = IdOf(n)
        /\ IdOf(n) \in 0 .. MaxId
    BY <1>1, <2>1
  <2>3. registering' \in Request
    BY <1>1, <2>2 DEF Request
  <2>4. RequestInv'
    BY <2>1, <2>2 DEF RequestInv
  <2> QED
    BY <1>1, <2>1, <2>3, <2>4 DEF Typed, TypeOK, Records, Record, Request
<1>2. CASE FinishAdd
  BY <1>1, <1>2 DEF FinishAdd, RequestInv
<1>3. ASSUME NEW n \in Nodes, HandleAddServer(n) PROVE Typed' /\ RequestInv'
  BY <1>1, <1>3 DEF HandleAddServer
<1>4. CASE FinishRegister
  <2>1. /\ registering.node \in Nodes /\ registering.id \in 1 .. MaxId
        /\ registering' = NoRequest
        /\ UNCHANGED <<servers, next_id, failover, recovering, alive, beaten, restarts>>
    BY <1>4 DEF FinishRegister, RequestInv
  <2>2. Records(health')
    BY <1>4, <2>1, PutRecord DEF FinishRegister, RegisterServer, Typed
  <2>3. registering' \in Request /\ RequestInv'
    BY <2>1, RequestTyped DEF RequestInv, NoRequest
  <2> QED
    BY <2>1, <2>2, <2>3, MembershipAssumption DEF Typed, TypeOK, Records, Record, Request, Registered
<1>5. ASSUME NEW n \in Nodes, SelfRegister(n) PROVE Typed' /\ RequestInv'
  <2>1. /\ next_id' = NextIdFor(n) /\ NextIdFor(n) <= MaxId
        /\ registering' = [at |-> "add", node |-> n, id |-> 0]
        /\ UNCHANGED <<servers, health, failover, recovering, alive, beaten, restarts>>
    BY <1>5 DEF SelfRegister
  <2>2. ServerId[n] \in Nat \ {0} /\ MaxId \in Nat
    BY MembershipAssumption
  <2>3. Count \in Nat
    <3>1. IsFiniteSet(DOMAIN servers)
      <4>1. IsFiniteSet(1 .. MaxId)
        BY <2>2, FS_Interval
      <4>2. DOMAIN servers \subseteq 1 .. MaxId
        BY DEF Typed, TypeOK
      <4> QED
        BY <4>1, <4>2, FS_Subset
    <3> QED
      BY <3>1, FS_CardinalityType DEF Count
  <2>4. next_id' \in 1 .. MaxId + 1
    BY <2>1, <2>2, <2>3 DEF NextIdFor, Max2
  <2>5. registering' \in Request
    BY <2>1, <2>2 DEF Request
  <2>6. RequestInv'
    BY <2>1 DEF RequestInv
  <2> QED
    BY <2>1, <2>4, <2>5, <2>6 DEF Typed, TypeOK, Records, Record, Registered, Request
<1> QED
  BY <1>2, <1>3, <1>4, <1>5

(* A thread keeps its id and its address on its way through the callback.  *)
LEMMA ThreadTyped ==
  ASSUME Typed, NEW t \in failover, NEW pc \in Pcs, GoTo(t, pc) \/ End(t)
  PROVE  failover' \subseteq [pc : Pcs, id : 1 .. MaxId, ip : Nodes]
<1>1. failover \subseteq [pc : Pcs, id : 1 .. MaxId, ip : Nodes]
  BY DEF Typed, TypeOK
<1>2. [t EXCEPT !.pc = pc] \in [pc : Pcs, id : 1 .. MaxId, ip : Nodes]
  BY <1>1
<1> QED
  BY <1>1, <1>2 DEF GoTo, End

LEMMA FailoverTyped ==
  ASSUME Typed, NEW t \in failover, Failover(t)
  PROVE  Typed'
<1>1. t.ip \in Nodes /\ t.id \in 1 .. MaxId
  BY DEF Typed, TypeOK
<1>2. failover' \subseteq [pc : Pcs, id : 1 .. MaxId, ip : Nodes]
  <2>1. End(t) \/ \E pc \in Pcs : GoTo(t, pc)
    BY DEF Failover, EnterGuard, VerifyConsensus, SendDeadSignal, RemoveServer, LeaveGuard, Pcs
  <2>2. "start" \in Pcs
    BY DEF Pcs
  <2> QED
    BY <2>1, <2>2, ThreadTyped
<1>3. recovering' \subseteq Nodes
  BY <1>1 DEF Failover, EnterGuard, VerifyConsensus, SendDeadSignal, RemoveServer, LeaveGuard,
              Typed, TypeOK
<1>4. UNCHANGED <<next_id, health, registering, beaten, restarts>>
  BY DEF Failover, EnterGuard, VerifyConsensus, SendDeadSignal, RemoveServer, LeaveGuard
<1>5. alive' \subseteq alive
  BY DEF Failover, EnterGuard, VerifyConsensus, SendDeadSignal, RemoveServer, LeaveGuard,
         EmergencyListener
<1>6. DOMAIN servers' \subseteq DOMAIN servers /\ \A i \in DOMAIN servers' : servers'[i] = servers[i]
  BY DEF Failover, EnterGuard, VerifyConsensus, SendDeadSignal, RemoveServer, LeaveGuard
<1>7. DOMAIN servers' \subseteq 1 .. MaxId /\ Registered' \subseteq Nodes
  BY <1>6 DEF Typed, TypeOK, Registered
<1> QED
  BY <1>2, <1>3, <1>4, <1>5, <1>7 DEF Typed, TypeOK

LEMMA NextTyped ==
  ASSUME IdsWithinBound, Typed, RequestInv, [Next]_vars
  PROVE  Typed' /\ RequestInv'
<1>1. ASSUME UNCHANGED <<servers, next_id, registering, recovering>>, Records(health'),
             failover' \subseteq [pc : Pcs, id : 1 .. MaxId, ip : Nodes],
             alive' \subseteq Nodes, beaten' \subseteq Nodes, restarts' \in 0 .. MaxRestarts
      PROVE  Typed' /\ RequestInv'
  <2>1. \A i \in DOMAIN health' : i \in Nat /\ health'[i] \in Record
    BY <1>1, MembershipAssumption DEF Records
  <2> QED
    BY <1>1, <2>1 DEF Typed, TypeOK, Registered, Record, RequestInv
<1>2. /\ Records(health) /\ failover \subseteq [pc : Pcs, id : 1 .. MaxId, ip : Nodes]
      /\ alive \subseteq Nodes /\ beaten \subseteq Nodes /\ restarts \in 0 .. MaxRestarts
      /\ MaxRestarts \in Nat
  BY MembershipAssumption DEF Typed, TypeOK
<1>3. ASSUME NEW n \in Nodes, RecordHeartbeat(n) PROVE Typed' /\ RequestInv'
  <2>1. ServerId[n] \in 1 .. MaxId
    BY MembershipAssumption DEF IdsWithinBound
  <2>2. Records(health')
    BY <1>2, <1>3, <2>1, PutRecord DEF RecordHeartbeat
  <2> QED
    BY <1>1, <1>2, <1>3, <2>2 DEF RecordHeartbeat
<1>4. ASSUME NEW n \in Nodes, Crash(n) \/ Start(n) PROVE Typed' /\ RequestInv'
  <2>1. restarts' \in 0 .. MaxRestarts
    BY <1>2, <1>4 DEF Crash, Start
  <2> QED
    BY <1>1, <1>2, <1>4, <2>1 DEF Crash, Start
<1>5. CASE CheckHealth
  <2>1. /\ health' = [i \in DOMAIN health |-> Aged(health[i])]
        /\ beaten' = {} /\ UNCHANGED <<servers, next_id, registering, recovering, alive, restarts>>
    BY <1>5 DEF CheckHealth
  <2>2. Records(health')
    BY <1>2, <2>1, AgedIsRecord DEF Records
  <2>3. PICK T \in SUBSET DOMAIN health :
          failover' = failover \cup {[pc |-> "start", id |-> i, ip |-> health[i].ip] : i \in T}
    BY <1>5 DEF CheckHealth
  <2>4. \A i \in T : [pc |-> "start", id |-> i, ip |-> health[i].ip]
                       \in [pc : Pcs, id : 1 .. MaxId, ip : Nodes]
    BY <1>2 DEF Records, Record, Pcs
  <2>5. failover' \subseteq [pc : Pcs, id : 1 .. MaxId, ip : Nodes]
    BY <1>2, <2>3, <2>4
  <2> QED
    BY <1>1, <1>2, <2>1, <2>2, <2>5
<1>6. CASE UNCHANGED vars
  BY <1>1, <1>2, <1>6 DEF vars
<1>7. CASE RestartHead
  <2>1. restarts' \in 0 .. MaxRestarts
    BY <1>2, <1>7 DEF RestartHead
  <2>2. /\ DOMAIN servers' \subseteq 1 .. MaxId /\ Registered' \subseteq Nodes
        /\ next_id' \in 1 .. MaxId + 1 /\ Records(health')
    BY <1>7, ConfigTyped DEF RestartHead, Registered
  <2>3. registering' \in Request /\ RequestInv'
    BY <1>7, RequestTyped DEF RestartHead, RequestInv, NoRequest
  <2>4. failover' = {} /\ recovering' = {} /\ beaten' = {} /\ alive' = alive
    BY <1>7 DEF RestartHead
  <2> QED
    BY <1>2, <2>1, <2>2, <2>3, <2>4, MembershipAssumption
       DEF Typed, TypeOK, Records, Record, Request
<1>8. ASSUME NEW t \in failover, Failover(t) PROVE Typed' /\ RequestInv'
  <2>1. UNCHANGED registering
    BY <1>8 DEF Failover, EnterGuard, VerifyConsensus, SendDeadSignal, RemoveServer, LeaveGuard
  <2> QED
    BY <1>8, <2>1, FailoverTyped DEF RequestInv
<1> QED
  BY <1>3, <1>4, <1>5, <1>6, <1>7, <1>8, RegistrationTyped DEF Next

(* However registrations, heartbeats, failovers and restarts interleave,   *)
(* the head server's tables stay well formed: an id that                   *)
(* handle_self_register or add_server hands out, and one a failover thread *)
(* was started with, is one the registry can hold.                         *)
THEOREM MembershipAlwaysTyped ==
  ASSUME IdsWithinBound
  PROVE  Spec => []TypeOK
<1>1. Init => Typed /\ RequestInv
  BY InitTyped DEF Init, NoRequest, RequestInv
<1>2. Typed /\ RequestInv /\ [Next]_vars => Typed' /\ RequestInv'
  BY NextTyped
<1>3. Typed => TypeOK
  BY DEF Typed
<1> QED
  BY <1>1, <1>2, <1>3, PTL DEF Spec
=============================================================================
