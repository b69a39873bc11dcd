--------------------------- MODULE HealthChecker ---------------------------
(***************************************************************************)
(* The health checker daemon (health_checker.cpp): cluster servers send it *)
(* heartbeats over UDP, a monitor looks at every record once per round of  *)
(* 30 seconds, and a record that was silent for long enough is marked DEAD *)
(* once and its re-replication triggered.  The receiver and the monitor    *)
(* are coroutines of one thread; the thread of the web page only reads.    *)
(* stop() has no caller, so running stays true.                            *)
(*                                                                         *)
(* Time is counted in rounds.  Datagrams are lost, delayed past the end of *)
(* their sender, and leave at most MaxGap rounds of a running server       *)
(* without a heartbeat.                                                    *)
(***************************************************************************)
EXTENDS Integers, FiniteSets

CONSTANTS
  Nodes,      \* cluster servers, by the server_id of their heartbeats
  Timeout,    \* heartbeat_timeout_, in rounds
  MaxMissed,  \* max_missed_heartbeats_
  MaxGap,     \* most rounds in a row without a heartbeat of a running server
  MaxCrashes  \* bound: how often servers end

ASSUME HealthAssumption ==
  /\ Timeout \in Nat \ {0} /\ MaxMissed \in Nat \ {0}
  /\ MaxGap \in Nat /\ MaxGap <= Timeout + MaxMissed - 2
  /\ MaxCrashes \in Nat

VARIABLES
  receiving,  \* heartbeat_receiver has its port
  servers,    \* servers: the records of the servers heard of
  alive,      \* the servers whose process runs
  net,        \* senders of the datagrams on their way
  crashes,    \* how often a server ended
  servers_marked_unhealthy, servers_recovered,  \* the counters
  online,     \* history: how often "is back online" was said
  triggers    \* history: per server, re-replications since its last heartbeat

counters == <<servers_marked_unhealthy, servers_recovered, online, triggers>>
vars == <<receiving, servers, alive, net, crashes, counters>>

(* struct ServerHealth.  The age of last_heartbeat, in rounds, and the     *)
(* misses stop counting where nothing depends on them any more.            *)
MaxAge == Timeout + MaxMissed
ServerHealth == [age : 0 .. MaxAge, missed : 0 .. MaxMissed, is_healthy : BOOLEAN]
Healthy == {n \in DOMAIN servers : servers[n].is_healthy}

(* start: the head server may hold port 9000 already; then the receiver    *)
(* returns, and the monitor runs on without records.                       *)
Init ==
  /\ receiving \in BOOLEAN
  /\ servers = [n \in {} |-> 0]
  /\ alive \in SUBSET Nodes
  /\ net = {}
  /\ crashes = 0
  /\ servers_marked_unhealthy = 0 /\ servers_recovered = 0
  /\ online = 0
  /\ triggers = [n \in Nodes |-> 0]

-----------------------------------------------------------------------------
(* heartbeat_sender of a cluster server: one datagram after the other.     *)
HeartbeatSender(n) ==
  /\ n \in alive \ net
  /\ net' = net \cup {n}
  /\ UNCHANGED <<receiving, servers, alive, crashes, counters>>

Lose(n) ==
  /\ n \in net
  /\ net' = net \ {n}
  /\ UNCHANGED <<receiving, servers, alive, crashes, counters>>

(* A faulty variant: the misses before the heartbeat still count.          *)
HeardKeepsMisses(h) == [h EXCEPT !.age = 0, !.is_healthy = TRUE]

(* The record after a heartbeat.  operator[] makes a new one unhealthy.    *)
Heard(h) == [age |-> 0, missed |-> 0, is_healthy |-> TRUE]
NewRecord == [age |-> 0, missed |-> 0, is_healthy |-> FALSE]
RecordOf(n) == IF n \in DOMAIN servers THEN servers[n] ELSE NewRecord

(* A faulty variant: only a server heard of for the first time turns       *)
(* healthy.                                                                *)
ProcessHeartbeatNewOnly(n) ==
  /\ servers' = [m \in DOMAIN servers \cup {n} |->
                   IF m # n THEN servers[m]
                   ELSE IF n \in DOMAIN servers
                        THEN [Heard(servers[n]) EXCEPT !.is_healthy = servers[n].is_healthy]
                        ELSE Heard(NewRecord)]
  /\ online' = IF RecordOf(n).is_healthy THEN online ELSE online + 1
  /\ triggers' = [triggers EXCEPT ![n] = 0]
  /\ UNCHANGED <<servers_marked_unhealthy, servers_recovered>>

(* process_heartbeat                                                       *)
ProcessHeartbeat(n) ==
  /\ servers' = [m \in DOMAIN servers \cup {n} |->
                   IF m = n THEN Heard(RecordOf(n)) ELSE servers[m]]
  /\ online' = IF RecordOf(n).is_healthy THEN online ELSE online + 1
  /\ triggers' = [triggers EXCEPT ![n] = 0]
  /\ UNCHANGED <<servers_marked_unhealthy, servers_recovered>>

(* A faulty variant: the receiver returns after a datagram.                *)
HeartbeatReceiverOnce(n) ==
  /\ receiving
  /\ n \in net
  /\ net' = net \ {n}
  /\ ProcessHeartbeat(n)
  /\ receiving' = FALSE
  /\ UNCHANGED <<alive, crashes>>

(* heartbeat_receiver                                                      *)
HeartbeatReceiver(n) ==
  /\ receiving
  /\ n \in net
  /\ net' = net \ {n}
  /\ ProcessHeartbeat(n)
  /\ UNCHANGED <<receiving, alive, crashes>>

-----------------------------------------------------------------------------
AtMost(i, limit) == IF i > limit THEN limit ELSE i

(* time_since_last > heartbeat_timeout_, for a record that is age rounds   *)
(* old.  A round takes a little more than its 30 seconds, so that the      *)
(* round at the timeout itself may find the record too old.                *)
TooOld(age) == IF age > Timeout THEN {TRUE} ELSE IF age = Timeout THEN BOOLEAN ELSE {FALSE}

(* A faulty variant: the znode is never removed.                           *)
NodeStays(n) == TRUE

(* node_exists, asked of the client in the checker's own process, which    *)
(* has made no znode.                                                      *)
Znodes == {}
NodeExists(n) == <<"dfg", "cluster_servers", n>> \in Znodes

(* A faulty variant: a record is marked as long as it is silent.           *)
MarksAgain(h, n, late) == late /\ h.missed + 1 >= MaxMissed /\ ~NodeExists(n)

(* check_server_health of one record: marked DEAD, ...                     *)
Marks(h, n, late) == late /\ h.missed + 1 >= MaxMissed /\ h.is_healthy /\ ~NodeExists(n)

(* ... or found alive again by the monitor itself.                         *)
Recovers(h, late) == ~late /\ ~h.is_healthy /\ h.missed > 0

(* A faulty variant: a round in time takes a miss back.                    *)
CheckedForgives(h, n, late) ==
  [age |-> AtMost(h.age + 1, MaxAge),
   missed |-> IF late THEN AtMost(h.missed + 1, MaxMissed) ELSE h.missed - 1,
   is_healthy |-> h.is_healthy /\ ~Marks(h, n, late)]

Checked(h, n, late) ==
  [age |-> AtMost(h.age + 1, MaxAge),
   missed |-> IF late THEN AtMost(h.missed + 1, MaxMissed)
              ELSE IF Recovers(h, late) THEN 0 ELSE h.missed,
   is_healthy |-> (h.is_healthy \/ Recovers(h, late)) /\ ~Marks(h, n, late)]

(* The heartbeats of a running server come in time for another round.      *)
RoundMayPass == \A n \in alive \cap DOMAIN servers : servers[n].age < MaxGap

(* health_monitor: check_server_health of all records; trigger_replication *)
(* of a marked one counts and reads the metadata, and changes nothing.     *)
HealthMonitor ==
  /\ RoundMayPass
  /\ \E late \in [DOMAIN servers -> BOOLEAN] :
       LET marked == {n \in DOMAIN servers : Marks(servers[n], n, late[n])}
       IN /\ \A n \in DOMAIN servers : late[n] \in TooOld(servers[n].age + 1)
          /\ servers' = [n \in DOMAIN servers |-> Checked(servers[n], n, late[n])]
          /\ servers_marked_unhealthy' = servers_marked_unhealthy + Cardinality(marked)
          /\ servers_recovered' = servers_recovered
               + Cardinality({n \in DOMAIN servers : Recovers(servers[n], late[n])})
          /\ triggers' = [n \in Nodes |-> triggers[n] + IF n \in marked THEN 1 ELSE 0]
  /\ UNCHANGED <<receiving, alive, net, crashes, online>>

-----------------------------------------------------------------------------
(* A cluster server's process ends, or starts and beats at once.           *)
Crash(n) ==
  /\ n \in alive
  /\ crashes < MaxCrashes
  /\ alive' = alive \ {n}
  /\ crashes' = crashes + 1
  /\ UNCHANGED <<receiving, servers, net, counters>>

Start(n) ==
  /\ n \notin alive
  /\ alive' = alive \cup {n}
  /\ UNCHANGED <<receiving, servers, net, crashes, counters>>

Next == \/ \E n \in Nodes : \/ HeartbeatSender(n) \/ Lose(n) \/ HeartbeatReceiver(n)
                            \/ Crash(n) \/ Start(n)
        \/ HealthMonitor

Spec == Init /\ [][Next]_vars

(* The reactor keeps running both coroutines, running servers keep sending *)
(* and the network does not lose every datagram of a server.               *)
Fairness == /\ WF_vars(HealthMonitor)
            /\ \A n \in Nodes : /\ WF_vars(HeartbeatSender(n))
                                /\ SF_vars(HeartbeatReceiver(n))

FairSpec == Spec /\ Fairness

-----------------------------------------------------------------------------
(* Type invariant.                                                         *)
TypeOK ==
  /\ receiving \in BOOLEAN
  /\ DOMAIN servers \subseteq Nodes
  /\ \A n \in DOMAIN servers : servers[n] \in ServerHealth
  /\ alive \subseteq Nodes /\ net \subseteq Nodes
  /\ crashes \in 0 .. MaxCrashes
  /\ servers_marked_unhealthy \in Nat /\ servers_recovered \in Nat /\ online \in Nat
  /\ triggers \in [Nodes -> Nat]

(* check_server_health never marks a server DEAD whose process runs and    *)
(* whose heartbeats are missing for at most MaxGap rounds, however the     *)
(* losses fall and whichever rounds find its record too old.               *)
RunningIsNotMarked ==
  [][\A n \in alive \cap Healthy : servers'[n].is_healthy]_vars

(* However long a server stays silent, its re-replication is triggered at  *)
(* most once before it is heard of again (the "health.is_healthy" of the   *)
(* condition), also when a late datagram revives a server that has ended.  *)
OneTriggerPerSilence == \A n \in Nodes : triggers[n] <= 1

(* The counters and the "back online" messages add up to the status that   *)
(* the web page shows: every change of is_healthy is counted or announced  *)
(* exactly once.                                                           *)
StatusBalances ==
  Cardinality(Healthy) = online + servers_recovered - servers_marked_unhealthy

(* A server that ends for good is marked DEAD in the end and stays so,     *)
(* whatever datagrams of it are still on their way.                        *)
SilentIsMarked ==
  \A n \in Nodes : <>[](n \notin alive /\ n \in DOMAIN servers) => <>[](n \notin Healthy)

(* A server that keeps running is healthy in the end and stays so, if the  *)
(* receiver has its port.                                                  *)
BeatingIsHealthy ==
  \A n \in Nodes : (receiving /\ <>[](n \in alive)) => <>[](n \in Healthy)
=============================================================================
