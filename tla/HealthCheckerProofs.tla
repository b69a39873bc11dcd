------------------------ MODULE HealthCheckerProofs ------------------------
(***************************************************************************)
(* Proofs about HealthChecker for every set of servers, timeout and number *)
(* of misses: a running server is not marked DEAD, a silent one is         *)
(* re-replicated once, and the counters add up to the status shown.        *)
(***************************************************************************)
EXTENDS HealthChecker, FiniteSetTheorems, TLAPS

(* What a record says of the rounds since its last heartbeat: the misses   *)
(* are those of the rounds from the timeout on, and a record is unhealthy  *)
(* only from the timeout on, so that the next round finds it too old.      *)
Consistent(h) ==
  /\ h \in ServerHealth
  /\ h.missed = 0 \/ h.missed <= h.age - Timeout + 1
  /\ ~h.is_healthy => h.age >= Timeout

(* A triggered re-replication belongs to an unhealthy record.              *)
Triggered(n) == \/ triggers[n] = 0
                \/ triggers[n] = 1 /\ n \in DOMAIN servers /\ ~servers[n].is_healthy

Inv ==
  /\ DOMAIN servers \subseteq Nodes
  /\ \A n \in DOMAIN servers : Consistent(servers[n])
  /\ triggers \in [Nodes -> Nat]
  /\ \A n \in Nodes : Triggered(n)

LEMMA HeardConsistent ==
  ASSUME NEW h \in ServerHealth
  PROVE  Consistent(Heard(h)) /\ Heard(h).is_healthy
<1>1. Heard(h) = [age |-> 0, missed |-> 0, is_healthy |-> TRUE]
  BY DEF Heard
<1>2. 0 \in 0 .. MaxAge /\ 0 \in 0 .. MaxMissed
  BY HealthAssumption DEF MaxAge
<1> QED
  BY <1>1, <1>2, HealthAssumption DEF Consistent, ServerHealth

(* Every round after the timeout finds a record too old, and none before.  *)
LEMMA TooOldTells ==
  ASSUME NEW age \in Nat, NEW late \in TooOld(age)
  PROVE  late \in BOOLEAN /\ (age > Timeout => late) /\ (late => age >= Timeout)
<1>0. Timeout \in Nat
  BY HealthAssumption
<1>1. CASE age > Timeout
  <2>1. late = TRUE
    BY <1>1 DEF TooOld
  <2>2. age >= Timeout
    BY <1>0, <1>1
  <2> QED
    BY <2>1, <2>2
<1>2. CASE age = Timeout
  <2>1. ~(age > Timeout) /\ age >= Timeout
    BY <1>0, <1>2
  <2>2. late \in BOOLEAN
    BY <1>2, <2>1 DEF TooOld
  <2> QED
    BY <2>1, <2>2
<1>3. CASE age < Timeout
  <2>1. ~(age > Timeout) /\ age # Timeout
    BY <1>0, <1>3
  <2>2. late = FALSE
    BY <2>1 DEF TooOld
  <2> QED
    BY <2>1, <2>2
<1> QED
  BY <1>0, <1>1, <1>2, <1>3

(* A round keeps a record consistent, marks it only when it was healthy,   *)
(* and never takes an unhealthy one back.                                  *)
LEMMA CheckedConsistent ==
  ASSUME NEW h, Consistent(h), NEW n, NEW late \in TooOld(h.age + 1)
  PROVE  /\ Consistent(Checked(h, n, late))
         /\ Checked(h, n, late).is_healthy <=> h.is_healthy /\ ~Marks(h, n, late)
         /\ Marks(h, n, late) => h.is_healthy
         /\ ~Recovers(h, late)
<1>1. /\ h.age \in 0 .. MaxAge /\ h.missed \in 0 .. MaxMissed /\ h.is_healthy \in BOOLEAN
      /\ Timeout \in Nat \ {0} /\ MaxMissed \in Nat \ {0} /\ MaxAge = Timeout + MaxMissed
      /\ h.missed = 0 \/ h.missed <= h.age - Timeout + 1
      /\ ~h.is_healthy => h.age >= Timeout
  BY HealthAssumption DEF Consistent, ServerHealth, MaxAge
<1>2. /\ late \in BOOLEAN
      /\ h.age + 1 > Timeout => late
      /\ late => h.age + 1 >= Timeout
  BY <1>1, TooOldTells
<1>3. ~Recovers(h, late)
  BY <1>1, <1>2 DEF Recovers
<1>4. Marks(h, n, late) => late /\ h.is_healthy
  BY DEF Marks
<1> DEFINE c == Checked(h, n, late)
<1>5. /\ c.age = AtMost(h.age + 1, MaxAge)
      /\ c.missed = IF late THEN AtMost(h.missed + 1, MaxMissed) ELSE h.missed
      /\ c.is_healthy = (h.is_healthy /\ ~Marks(h, n, late))
      /\ c = [age |-> c.age, missed |-> c.missed, is_healthy |-> c.is_healthy]
  BY <1>3 DEF Checked
<1>6. c.is_healthy \in BOOLEAN
  BY <1>1, <1>5
<1> HIDE DEF c
<1>7. /\ c.age \in 0 .. MaxAge /\ c.missed \in 0 .. MaxMissed
      /\ c.missed = 0 \/ c.missed <= c.age - Timeout + 1
  BY <1>1, <1>2, <1>5 DEF AtMost
<1>8. ~c.is_healthy => c.age >= Timeout
  <2>1. late \/ ~h.is_healthy => c.age >= Timeout
    BY <1>1, <1>2, <1>5 DEF AtMost
  <2> QED
    BY <1>1, <1>4, <1>5, <2>1
<1>9. c \in ServerHealth
  BY <1>5, <1>6, <1>7 DEF ServerHealth
<1> QED
  BY <1>3, <1>4, <1>5, <1>7, <1>8, <1>9 DEF Consistent, c

-----------------------------------------------------------------------------
LEMMA InitInv == Init => Inv
BY DEF Init, Inv, Triggered

LEMMA ReceiverInv ==
  ASSUME Inv, NEW n \in Nodes, ProcessHeartbeat(n)
  PROVE  Inv'
<1>1. RecordOf(n) \in ServerHealth
  BY HealthAssumption DEF Inv, Consistent, RecordOf, NewRecord, ServerHealth, MaxAge
<1>2. /\ DOMAIN servers' = DOMAIN servers \cup {n}
      /\ servers'[n] = Heard(RecordOf(n))
      /\ \A m \in DOMAIN servers \ {n} : servers'[m] = servers[m]
      /\ triggers' = [triggers EXCEPT ![n] = 0]
  BY DEF ProcessHeartbeat
<1>3. \A m \in DOMAIN servers' : Consistent(servers'[m])
  BY <1>1, <1>2, HeardConsistent DEF Inv
<1>4. \A m \in Nodes : Triggered(m)'
  BY <1>2 DEF Inv, Triggered
<1> QED
  BY <1>2, <1>3, <1>4 DEF Inv

LEMMA MonitorInv ==
  ASSUME Inv, HealthMonitor
  PROVE  Inv'
<1>1. PICK late \in [DOMAIN servers -> BOOLEAN] :
        /\ \A n \in DOMAIN servers : late[n] \in TooOld(servers[n].age + 1)
        /\ servers' = [n \in DOMAIN servers |-> Checked(servers[n], n, late[n])]
        /\ triggers' = [n \in Nodes |-> triggers[n] +
             IF n \in {m \in DOMAIN servers : Marks(servers[m], m, late[m])} THEN 1 ELSE 0]
  BY DEF HealthMonitor
<1>2. \A n \in DOMAIN servers :
        /\ Consistent(servers'[n])
        /\ servers'[n].is_healthy <=> servers[n].is_healthy /\ ~Marks(servers[n], n, late[n])
        /\ Marks(servers[n], n, late[n]) => servers[n].is_healthy
  BY <1>1, CheckedConsistent DEF Inv
<1>3. triggers' \in [Nodes -> Nat]
  BY <1>1 DEF Inv
<1>4. ASSUME NEW n \in Nodes PROVE Triggered(n)'
  <2>1. CASE n \in DOMAIN servers /\ Marks(servers[n], n, late[n])
    <3>1. triggers[n] = 0 /\ triggers'[n] = triggers[n] + 1
      BY <1>1, <1>2, <2>1 DEF Inv, Triggered
    <3> QED
      BY <1>1, <1>2, <2>1, <3>1 DEF Triggered
  <2>2. CASE ~(n \in DOMAIN servers /\ Marks(servers[n], n, late[n]))
    <3>1. triggers'[n] = triggers[n]
      BY <1>1, <2>2 DEF Inv
    <3> QED
      BY <1>1, <1>2, <2>2, <3>1 DEF Inv, Triggered
  <2> QED
    BY <2>1, <2>2
<1> QED
  BY <1>1, <1>2, <1>3, <1>4 DEF Inv

LEMMA NextInv == Inv /\ [Next]_vars => Inv'
<1> SUFFICES ASSUME Inv, [Next]_vars PROVE Inv'
  OBVIOUS
<1>1. CASE \E n \in Nodes : HeartbeatReceiver(n)
  BY <1>1, ReceiverInv DEF HeartbeatReceiver
<1>2. CASE HealthMonitor
  BY <1>2, MonitorInv
<1>3. CASE UNCHANGED <<servers, triggers>>
  BY <1>3 DEF Inv, Triggered
<1>4. CASE \E n \in Nodes : HeartbeatSender(n) \/ Lose(n) \/ Crash(n) \/ Start(n)
  BY <1>3, <1>4 DEF HeartbeatSender, Lose, Crash, Start, counters
<1> QED
  BY <1>1, <1>2, <1>3, <1>4 DEF Next, vars, counters

(* check_server_health never marks a running server DEAD, for every        *)
(* timeout and number of misses that exceed the longest gap between its    *)
(* heartbeats, and however the losses fall.                                *)
THEOREM RunningNeverMarked == Spec => RunningIsNotMarked
<1> DEFINE Kept == \A n \in alive \cap Healthy : servers'[n].is_healthy
<1>1. Inv /\ [Next]_vars => [Kept]_vars
  <2> SUFFICES ASSUME Inv, Next, NEW n \in alive \cap Healthy
               PROVE  servers'[n].is_healthy
    OBVIOUS
  <2>0. n \in DOMAIN servers /\ servers[n].is_healthy /\ Consistent(servers[n])
    BY DEF Healthy, Inv
  <2>1. CASE \E m \in Nodes : HeartbeatReceiver(m)
    <3>1. PICK m \in Nodes : ProcessHeartbeat(m)
      BY <2>1 DEF HeartbeatReceiver
    <3>2. n # m => servers'[n] = servers[n]
      BY <2>0, <3>1 DEF ProcessHeartbeat
    <3>3. n = m => servers'[n] = Heard(servers[n])
      BY <2>0, <3>1 DEF ProcessHeartbeat, RecordOf
    <3> QED
      BY <2>0, <3>2, <3>3, HeardConsistent DEF Consistent
  <2>2. CASE HealthMonitor
    <3>1. PICK late \in [DOMAIN servers -> BOOLEAN] :
            /\ late[n] \in TooOld(servers[n].age + 1)
            /\ servers'[n] = Checked(servers[n], n, late[n])
      BY <2>0, <2>2 DEF HealthMonitor
    <3>2. servers[n].age < MaxGap
      BY <2>0, <2>2 DEF HealthMonitor, RoundMayPass
    <3> DEFINE h == servers[n]
    <3>3. /\ h.age \in Nat /\ h.missed \in Nat
          /\ h.missed = 0 \/ h.missed <= h.age - Timeout + 1
      BY <2>0, HealthAssumption DEF Consistent, ServerHealth, MaxAge
    <3>4. late[n] => h.age + 1 >= Timeout
      <4>1. h.age + 1 \in Nat
        BY <3>3
      <4> QED
        BY <3>1, <4>1, TooOldTells, Zenon
    <3>5. ~(late[n] /\ h.missed + 1 >= MaxMissed)
      BY <3>2, <3>3, <3>4, HealthAssumption
    <3>6. ~Marks(h, n, late[n])
      BY <3>5 DEF Marks
    <3> QED
      BY <2>0, <3>1, <3>6, CheckedConsistent
  <2>3. CASE UNCHANGED servers
    BY <2>0, <2>3
  <2>4. CASE \E m \in Nodes : HeartbeatSender(m) \/ Lose(m) \/ Crash(m) \/ Start(m)
    BY <2>3, <2>4 DEF HeartbeatSender, Lose, Crash, Start
  <2> QED
    BY <2>1, <2>2, <2>4 DEF Next
<1>2. Spec => []Inv
  BY InitInv, NextInv, PTL DEF Spec
<1> QED
  BY <1>1, <1>2, PTL DEF Spec, RunningIsNotMarked

(* trigger_replication runs at most once for a server between two of its   *)
(* heartbeats, however many rounds it is silent.                           *)
THEOREM TriggeredOnce == Spec => []OneTriggerPerSilence
<1>1. Inv => OneTriggerPerSilence
  BY DEF Inv, Triggered, OneTriggerPerSilence
<1> QED
  BY <1>1, InitInv, NextInv, PTL DEF Spec

-----------------------------------------------------------------------------
(* The counters.  Finitely many servers were heard of, whatever Nodes is.  *)
Balanced == TypeOK /\ IsFiniteSet(DOMAIN servers) /\ StatusBalances

LEMMA HealthyFinite ==
  ASSUME Balanced
  PROVE  IsFiniteSet(Healthy) /\ Cardinality(Healthy) \in Nat
<1>1. Healthy \subseteq DOMAIN servers /\ IsFiniteSet(DOMAIN servers)
  BY DEF Healthy, Balanced
<1>2. IsFiniteSet(Healthy)
  BY <1>1, FS_Subset
<1> QED
  BY <1>2, FS_CardinalityType

LEMMA InitBalanced == Init => Balanced
<1> SUFFICES ASSUME Init PROVE Balanced
  OBVIOUS
<1>1. DOMAIN servers = {} /\ Healthy = {}
  BY DEF Init, Healthy
<1>2. IsFiniteSet({}) /\ Cardinality({}) = 0
  BY FS_EmptySet
<1>3. StatusBalances
  BY <1>1, <1>2, SMT DEF Init, StatusBalances
<1> QED
  BY <1>1, <1>2, <1>3, HealthAssumption DEF Init, Balanced, TypeOK

(* A heartbeat turns one record healthy and says so, or changes no status. *)
LEMMA ReceiverBalanced ==
  ASSUME Inv, Balanced, NEW n \in Nodes, HeartbeatReceiver(n)
  PROVE  Balanced'
<1>1. /\ UNCHANGED <<receiving, alive, crashes, servers_marked_unhealthy, servers_recovered>>
      /\ net' \subseteq net
      /\ online' = IF RecordOf(n).is_healthy THEN online ELSE online + 1
      /\ triggers' = [triggers EXCEPT ![n] = 0]
      /\ DOMAIN servers' = DOMAIN servers \cup {n}
      /\ servers'[n] = Heard(RecordOf(n)) /\ \A m \in DOMAIN servers \ {n} : servers'[m] = servers[m]
  BY DEF HeartbeatReceiver, ProcessHeartbeat
<1>2. RecordOf(n) \in ServerHealth
  BY HealthAssumption DEF Inv, Consistent, RecordOf, NewRecord, ServerHealth, MaxAge
<1>3. servers'[n] \in ServerHealth /\ servers'[n].is_healthy
  BY <1>1, <1>2, HeardConsistent DEF Consistent
<1>4. RecordOf(n).is_healthy <=> n \in Healthy
  BY DEF RecordOf, NewRecord, Healthy
<1>5. Healthy' = Healthy \cup {n}
  BY <1>1, <1>3 DEF Healthy
<1>6. IsFiniteSet(Healthy) /\ Cardinality(Healthy) \in Nat
  BY HealthyFinite
<1>7. Cardinality(Healthy') = IF n \in Healthy THEN Cardinality(Healthy) ELSE Cardinality(Healthy) + 1
  BY <1>5, <1>6, FS_AddElement
<1>8. /\ online \in Nat /\ servers_recovered \in Nat /\ servers_marked_unhealthy \in Nat
      /\ Cardinality(Healthy) = online + servers_recovered - servers_marked_unhealthy
  BY DEF Balanced, TypeOK, StatusBalances
<1>9. StatusBalances' /\ online' \in Nat
  BY <1>1, <1>4, <1>7, <1>8 DEF StatusBalances
<1>10. IsFiniteSet(DOMAIN servers')
  BY <1>1, FS_AddElement DEF Balanced
<1>11. triggers' \in [Nodes -> Nat]
  BY <1>1 DEF Balanced, TypeOK
<1>12. TypeOK'
  BY <1>1, <1>3, <1>9, <1>11 DEF Balanced, TypeOK
<1> QED
  BY <1>9, <1>10, <1>12 DEF Balanced

(* A round takes back exactly the records it counts as marked; no record   *)
(* recovers in a round, since one that was marked stays too old.           *)
LEMMA MonitorBalanced ==
  ASSUME Inv, Balanced, HealthMonitor
  PROVE  Balanced'
<1>1. PICK late \in [DOMAIN servers -> BOOLEAN] :
        LET marked == {n \in DOMAIN servers : Marks(servers[n], n, late[n])}
        IN /\ \A n \in DOMAIN servers : late[n] \in TooOld(servers[n].age + 1)
           /\ servers' = [n \in DOMAIN servers |-> Checked(servers[n], n, late[n])]
           /\ servers_marked_unhealthy' = servers_marked_unhealthy + Cardinality(marked)
           /\ servers_recovered' = servers_recovered
                + Cardinality({n \in DOMAIN servers : Recovers(servers[n], late[n])})
           /\ triggers' = [n \in Nodes |-> triggers[n] + IF n \in marked THEN 1 ELSE 0]
  BY DEF HealthMonitor
<1> DEFINE marked == {n \in DOMAIN servers : Marks(servers[n], n, late[n])}
           back == {n \in DOMAIN servers : Recovers(servers[n], late[n])}
<1>2. UNCHANGED <<receiving, alive, net, crashes, online>>
  BY DEF HealthMonitor
<1>3. \A n \in DOMAIN servers :
        /\ Consistent(servers'[n])
        /\ servers'[n].is_healthy <=> servers[n].is_healthy /\ ~Marks(servers[n], n, late[n])
        /\ Marks(servers[n], n, late[n]) => servers[n].is_healthy
        /\ ~Recovers(servers[n], late[n])
  BY <1>1, CheckedConsistent DEF Inv
<1>4. DOMAIN servers' = DOMAIN servers
  BY <1>1
<1>5. back = {} /\ marked \subseteq Healthy /\ Healthy' = Healthy \ marked
  BY <1>3, <1>4 DEF Healthy
<1>6. /\ servers_marked_unhealthy' = servers_marked_unhealthy + Cardinality(marked)
      /\ servers_recovered' = servers_recovered + Cardinality(back)
  BY <1>1
<1> HIDE DEF marked, back
<1>7. IsFiniteSet(Healthy) /\ Cardinality(Healthy) \in Nat
  BY HealthyFinite
<1>8. IsFiniteSet(marked) /\ Cardinality(marked) \in Nat
  BY <1>5, <1>7, FS_Subset, FS_CardinalityType
<1>9. Cardinality(Healthy') = Cardinality(Healthy) - Cardinality(marked)
  <2>1. Healthy \cap marked = marked
    BY <1>5
  <2> QED
    BY <1>5, <1>7, <2>1, FS_Difference
<1>10. Cardinality(back) = 0
  BY <1>5, FS_EmptySet
<1>11. /\ online \in Nat /\ servers_recovered \in Nat /\ servers_marked_unhealthy \in Nat
       /\ Cardinality(Healthy) = online + servers_recovered - servers_marked_unhealthy
  BY DEF Balanced, TypeOK, StatusBalances
<1>12. StatusBalances' /\ servers_marked_unhealthy' \in Nat /\ servers_recovered' \in Nat
  BY <1>2, <1>6, <1>8, <1>9, <1>10, <1>11 DEF StatusBalances
<1>13. triggers' \in [Nodes -> Nat]
  BY <1>1 DEF Balanced, TypeOK
<1>14. TypeOK'
  BY <1>2, <1>3, <1>4, <1>12, <1>13 DEF Balanced, TypeOK, Consistent
<1> QED
  BY <1>4, <1>12, <1>14 DEF Balanced

LEMMA NextBalanced == Inv /\ Balanced /\ [Next]_vars => Balanced'
<1> SUFFICES ASSUME Inv, Balanced, [Next]_vars PROVE Balanced'
  OBVIOUS
<1>1. CASE \E n \in Nodes : HeartbeatReceiver(n)
  BY <1>1, ReceiverBalanced
<1>2. CASE HealthMonitor
  BY <1>2, MonitorBalanced
<1>3. ASSUME UNCHANGED <<receiving, servers, counters>>, alive' \subseteq Nodes, net' \subseteq Nodes,
             crashes' \in 0 .. MaxCrashes
      PROVE  Balanced'
  BY <1>3 DEF Balanced, TypeOK, StatusBalances, Healthy, counters
<1>4. /\ alive \subseteq Nodes /\ net \subseteq Nodes /\ crashes \in 0 .. MaxCrashes
      /\ MaxCrashes \in Nat
  BY HealthAssumption DEF Balanced, TypeOK
<1>5. ASSUME NEW n \in Nodes, HeartbeatSender(n) \/ Lose(n) \/ Start(n) PROVE Balanced'
  BY <1>3, <1>4, <1>5 DEF HeartbeatSender, Lose, Start
<1>6. ASSUME NEW n \in Nodes, Crash(n) PROVE Balanced'
  <2>1. crashes' \in 0 .. MaxCrashes
    BY <1>4, <1>6 DEF Crash
  <2> QED
    BY <1>3, <1>4, <1>6, <2>1 DEF Crash
<1>7. CASE UNCHANGED vars
  BY <1>3, <1>4, <1>7 DEF vars
<1> QED
  BY <1>1, <1>2, <1>5, <1>6, <1>7 DEF Next

LEMMA AlwaysBalanced == Spec => []Balanced
<1>1. Init => Inv /\ Balanced
  BY InitInv, InitBalanced
<1>2. Inv /\ Balanced /\ [Next]_vars => (Inv /\ Balanced)'
  BY NextInv, NextBalanced
<1>3. Inv /\ Balanced => Balanced
  OBVIOUS
<1> QED
  BY <1>1, <1>2, <1>3, PTL DEF Spec

(* Every record stays one process_heartbeat and check_server_health can    *)
(* have written, and the counters never go below zero.                     *)
THEOREM CheckerAlwaysTyped == Spec => []TypeOK
<1>1. Balanced => TypeOK
  BY DEF Balanced
<1> QED
  BY <1>1, AlwaysBalanced, PTL

(* The counters of check_server_health and the "back online" messages of   *)
(* process_heartbeat always add up to the servers shown healthy, for every *)
(* set of servers, also when several are marked in one round.              *)
THEOREM StatusAlwaysBalances == Spec => []StatusBalances
<1>1. Balanced => StatusBalances
  BY DEF Balanced
<1> QED
  BY <1>1, AlwaysBalanced, PTL
=============================================================================
