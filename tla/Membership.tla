----------------------------- MODULE Membership -----------------------------
(***************************************************************************)
(* Who belongs to the grid: the head server's registry of cluster servers  *)
(* (server_registry.hpp), its health records (health_monitor.hpp), the     *)
(* registration requests of its control API (control_api.hpp), and the     *)
(* failover threads that declare a server dead (head_server.cpp), against  *)
(* cluster servers that send heartbeats, register themselves every few     *)
(* seconds (cluster_server.cpp), crash and come back.  The head server     *)
(* itself may be started anew by a restart request, and keeps nothing of   *)
(* this but its configuration.                                             *)
(*                                                                         *)
(* Time is counted in rounds of the health check thread.  Heartbeats reach *)
(* the head server between two rounds unless HeartbeatLoss.                *)
(***************************************************************************)
EXTENDS Integers, FiniteSets, Sequences

CONSTANTS
  Nodes,          \* cluster servers, named by their address
  ServerId,       \* --server-id of every node
  Config,         \* cluster_servers of the head's configuration, in order
  Timeout,        \* heartbeat_timeout_, in rounds
  MaxMissed,      \* max_missed_heartbeats_
  HeartbeatLoss,  \* whether heartbeats of a live node can be lost
  MaxRestarts,    \* bound: how often nodes come back and the head server is started anew
  MaxId           \* bound: ids the registry hands out

ASSUME MembershipAssumption ==
  /\ ServerId \in [Nodes -> Nat \ {0}]
  /\ Config \in Seq(Nodes)
  /\ \A i, j \in 1 .. Len(Config) : Config[i] = Config[j] => i = j
  /\ Timeout \in Nat /\ MaxMissed \in Nat \ {0}
  /\ MaxRestarts \in Nat /\ MaxId \in Nat
  /\ HeartbeatLoss \in BOOLEAN

VARIABLES
  servers,      \* ServerRegistry::servers_
  next_id,      \* ServerRegistry::next_id_
  health,       \* HealthMonitor::servers_
  registering,  \* the request the control API is serving, and how far it is
  failover,     \* threads in on_server_unhealthy_callback
  recovering,   \* g_recovering_servers
  alive,        \* the nodes whose process runs
  beaten,       \* without loss: the nodes heard of since the last round
  restarts      \* how often a node came back or the head server was started anew

vars == <<servers, next_id, health, registering, failover, recovering,
          alive, beaten, restarts>>

Nobody == "nobody"

Max2(a, b) == IF a >= b THEN a ELSE b
Put(f, k, v) == [i \in DOMAIN f \cup {k} |-> IF i = k THEN v ELSE f[i]]
Registered == {servers[i] : i \in DOMAIN servers}
Count == Cardinality(DOMAIN servers)

(* The control API is in accept.                                           *)
NoRequest == [at |-> "accept", node |-> Nobody, id |-> 0]

Healthy(n) == [ip |-> n, is_healthy |-> TRUE, missed |-> 0, age |-> 0]

(* run_head_server: config servers get the registry's ids in order, and    *)
(* health records under their configured ids.                              *)
ConfigServers == [i \in 1 .. Len(Config) |-> Config[i]]
ConfigHealth == [i \in {ServerId[Config[j]] : j \in 1 .. Len(Config)} |->
                   Healthy(CHOOSE n \in Nodes : ServerId[n] = i)]

Init ==
  /\ servers = ConfigServers
  /\ next_id = Len(Config) + 1
  /\ health = ConfigHealth
  /\ registering = NoRequest
  /\ failover = {}
  /\ recovering = {}
  /\ alive = Nodes
  /\ beaten = {}
  /\ restarts = 0

-----------------------------------------------------------------------------
(* A faulty variant: no look for the address.                              *)
AddServerAlways(n) == /\ servers' = Put(servers, next_id, n)
                      /\ next_id' = next_id + 1

(* ServerRegistry::add_server: an address is registered once; a new one    *)
(* takes the next id, whoever holds that id.                               *)
AddServer(n) ==
  IF n \in Registered THEN UNCHANGED <<servers, next_id>>
  ELSE /\ servers' = Put(servers, next_id, n)
       /\ next_id' = next_id + 1

(* The id add_server returns.                                              *)
IdOf(n) == IF n \in Registered THEN CHOOSE i \in DOMAIN servers : servers[i] = n
           ELSE next_id

(* HealthMonitor::register_server                                          *)
RegisterServer(i, n) ==
  health' = IF i \in DOMAIN health THEN health ELSE Put(health, i, Healthy(n))

(* liveness_monitor sends the registration of a running node, again and    *)
(* again; the control API serves one connection at a time.                 *)
LivenessMonitor(n) == n \in alive /\ registering.at = "accept"

(* handle_self_register sets the counter from the node's own id and the    *)
(* size of the registry, even for a node that is registered, ...           *)
NextIdFor(n) == Max2(ServerId[n] + 1, Count + 1)

SelfRegister(n) ==
  /\ LivenessMonitor(n)
  /\ NextIdFor(n) <= MaxId
  /\ next_id' = NextIdFor(n)
  /\ registering' = [at |-> "add", node |-> n, id |-> 0]
  /\ UNCHANGED <<servers, health, failover, recovering, alive, beaten, restarts>>

(* A faulty variant: a node with a health record is taken for registered.  *)
FinishAddUnlessKnown ==
  LET n == registering.node
  IN /\ registering.at = "add"
     /\ next_id <= MaxId
     /\ IF \E i \in DOMAIN health : health[i].ip = n THEN UNCHANGED <<servers, next_id>>
        ELSE AddServer(n)
     /\ registering' = [at |-> "record", node |-> n, id |-> IdOf(n)]
     /\ UNCHANGED <<health, failover, recovering, alive, beaten, restarts>>

(* ... adds the node under the registry's lock, ...                        *)
FinishAdd ==
  LET n == registering.node
  IN /\ registering.at = "add"
     /\ next_id <= MaxId
     /\ AddServer(n)
     /\ registering' = [at |-> "record", node |-> n, id |-> IdOf(n)]
     /\ UNCHANGED <<health, failover, recovering, alive, beaten, restarts>>

(* handle_add_server, on an operator's request for a node, begins here.    *)
HandleAddServer(n) ==
  /\ registering.at = "accept"
  /\ next_id <= MaxId
  /\ AddServer(n)
  /\ registering' = [at |-> "record", node |-> n, id |-> IdOf(n)]
  /\ UNCHANGED <<health, failover, recovering, alive, beaten, restarts>>

(* ... and then, in both handlers, its record under the monitor's lock.    *)
FinishRegister ==
  /\ registering.at = "record"
  /\ RegisterServer(registering.id, registering.node)
  /\ registering' = NoRequest
  /\ UNCHANGED <<servers, next_id, failover, recovering, alive, beaten, restarts>>

(* handle_restart_head and handle_restart_all: half a second later the     *)
(* process executes its program anew, whatever its threads are doing.      *)
RestartHead ==
  /\ restarts < MaxRestarts
  /\ restarts' = restarts + 1
  /\ servers' = ConfigServers /\ next_id' = Len(Config) + 1 /\ health' = ConfigHealth
  /\ registering' = NoRequest /\ failover' = {} /\ recovering' = {} /\ beaten' = {}
  /\ UNCHANGED alive

-----------------------------------------------------------------------------
(* heartbeat_sender: a node sends heartbeats as long as it runs.           *)
HeartbeatSender(n) == n \in alive

(* heartbeat_receiver_thread and record_heartbeat: the record is kept      *)
(* under the id the node sends.                                            *)
RecordHeartbeat(n) ==
  /\ HeartbeatSender(n)
  /\ health' = Put(health, ServerId[n], Healthy(n))
  /\ beaten' = IF HeartbeatLoss THEN beaten ELSE beaten \cup {n}
  /\ UNCHANGED <<servers, next_id, registering, failover, recovering, alive, restarts>>

(* A faulty variant: misses are not counted.                               *)
AgedUncounted(h) == [h EXCEPT !.age = IF @ > Timeout THEN @ ELSE @ + 1]

(* check_health of one record in a round: age and misses stop counting     *)
(* where nothing depends on them any more.                                 *)
Aged(h) ==
  LET age == IF h.age > Timeout THEN h.age ELSE h.age + 1
      missed == IF age > Timeout /\ h.missed < MaxMissed THEN h.missed + 1 ELSE h.missed
  IN [h EXCEPT !.age = age, !.missed = missed,
               !.is_healthy = @ /\ ~(age > Timeout /\ missed >= MaxMissed)]

(* health_check_thread: a thread for every record that turns unhealthy.    *)
CheckHealth ==
  LET turned == {i \in DOMAIN health : health[i].is_healthy /\ ~Aged(health[i]).is_healthy}
  IN /\ HeartbeatLoss \/ alive \subseteq beaten
     /\ health' = [i \in DOMAIN health |-> Aged(health[i])]
     /\ beaten' = {}
     /\ failover' = failover \cup {[pc |-> "start", id |-> i, ip |-> health[i].ip] : i \in turned}
     /\ UNCHANGED <<servers, next_id, registering, recovering, alive, restarts>>

-----------------------------------------------------------------------------
(* on_server_unhealthy_callback, by thread t.                              *)
Pcs == {"start", "consensus", "dead", "remove", "rereplicate"}
End(t) == failover' = failover \ {t}
GoTo(t, pc) == failover' = (failover \ {t}) \cup {[t EXCEPT !.pc = pc]}

(* A faulty variant: the guard is set without looking at it.               *)
EnterGuardUnchecked(t) ==
  /\ t.pc = "start"
  /\ GoTo(t, "consensus")
  /\ recovering' = recovering \cup {t.ip}
  /\ UNCHANGED <<servers, next_id, health, registering, alive, beaten, restarts>>

(* The recovery guard, on the address.                                     *)
EnterGuard(t) ==
  /\ t.pc = "start"
  /\ IF t.ip \in recovering
     THEN End(t) /\ UNCHANGED recovering
     ELSE GoTo(t, "consensus") /\ recovering' = recovering \cup {t.ip}
  /\ UNCHANGED <<servers, next_id, health, registering, alive, beaten, restarts>>

(* The znodes the head server can see.  zookeeper_client.cpp keeps them in *)
(* the memory of the process, so they are the ones run_head_server made.   *)
Znodes == {<<"dfg">>, <<"dfg", "head_servers">>, <<"dfg", "head_servers", "head">>}

ZnodeExists(i) == <<"dfg", "cluster_servers", i>> \in Znodes

(* A peer's answer to GET /api/v1/servers/cluster/<id>/health.  The id is  *)
(* at position 24 of the path; handle_request takes the text from 23 on,   *)
(* where stoi meets the slash, and answers 400: no peer ever says healthy. *)
IdPosition == 24
HealthPathStart == 23
PeerSaysHealthy(i) == HealthPathStart = IdPosition /\ i \in DOMAIN health

(* verify_cluster_server_dead_consensus                                    *)
VerifyConsensus(t) ==
  /\ t.pc = "consensus"
  /\ IF ZnodeExists(t.id) \/ PeerSaysHealthy(t.id)
     THEN End(t) /\ recovering' = recovering \ {t.ip}
     ELSE GoTo(t, "dead") /\ UNCHANGED recovering
  /\ UNCHANGED <<servers, next_id, health, registering, alive, beaten, restarts>>

(* emergency_listener: a live node that reads DEAD ends; it reads nothing  *)
(* from a connection it accepts before the bytes are there.                *)
EmergencyListener(n) == {alive, alive \ {n}}

(* send_dead_signal_to_cluster_server: three attempts, and "no answer"     *)
(* counts as dead.                                                         *)
SendDeadSignal(t) ==
  /\ t.pc = "dead"
  /\ GoTo(t, "remove")
  /\ alive' \in EmergencyListener(t.ip)
  /\ UNCHANGED <<servers, next_id, health, registering, recovering, beaten, restarts>>

(* A faulty variant: the entry is marked and kept.                         *)
RemoveServerMarks(t) ==
  /\ t.pc = "remove"
  /\ servers' = [i \in DOMAIN servers |-> IF i = t.id THEN Nobody ELSE servers[i]]
  /\ GoTo(t, "rereplicate")
  /\ UNCHANGED <<next_id, health, registering, recovering, alive, beaten, restarts>>

(* remove_server(server_id): the id of the health record.                  *)
RemoveServer(t) ==
  /\ t.pc = "remove"
  /\ servers' = [i \in DOMAIN servers \ {t.id} |-> servers[i]]
  /\ GoTo(t, "rereplicate")
  /\ UNCHANGED <<next_id, health, registering, recovering, alive, beaten, restarts>>

(* A faulty variant: the guard is not released.                            *)
LeaveGuardHeld(t) ==
  /\ t.pc = "rereplicate"
  /\ End(t)
  /\ UNCHANGED <<servers, next_id, health, registering, recovering, alive, beaten, restarts>>

(* rereplicate_dead_server_chunks changes metadata only (module Grid);     *)
(* then the guard is released.                                             *)
LeaveGuard(t) ==
  /\ t.pc = "rereplicate"
  /\ recovering' = recovering \ {t.ip}
  /\ End(t)
  /\ UNCHANGED <<servers, next_id, health, registering, alive, beaten, restarts>>

Failover(t) == \/ EnterGuard(t) \/ VerifyConsensus(t) \/ SendDeadSignal(t)
               \/ RemoveServer(t) \/ LeaveGuard(t)

-----------------------------------------------------------------------------
(* The node's process ends, or is started again.                           *)
Crash(n) ==
  /\ n \in alive
  /\ alive' = alive \ {n}
  /\ UNCHANGED <<servers, next_id, health, registering, failover, recovering, beaten, restarts>>

Start(n) ==
  /\ n \notin alive
  /\ restarts < MaxRestarts
  /\ alive' = alive \cup {n}
  /\ restarts' = restarts + 1
  /\ UNCHANGED <<servers, next_id, health, registering, failover, recovering, beaten>>

(* The threads past the recovery guard.                                    *)
InFailover == {t \in failover : t.pc # "start"}

Next == \/ \E n \in Nodes : \/ SelfRegister(n) \/ HandleAddServer(n)
                            \/ RecordHeartbeat(n) \/ Crash(n) \/ Start(n)
        \/ FinishAdd \/ FinishRegister \/ RestartHead
        \/ CheckHealth
        \/ \E t \in failover : Failover(t)

Spec == Init /\ [][Next]_vars

(* Where a failover waits in recv for an answer, without a time-out: for   *)
(* the vote of a peer head server, and for chunks and acknowledgements of  *)
(* cluster servers.  A peer that is there and does not answer keeps it.    *)
AwaitsAnswer(t) == t.pc \in {"consensus", "rereplicate"}

(* The threads of the head server run, and the heartbeats of live nodes    *)
(* keep arriving.  Whether a peer answers, and whether the control API,    *)
(* which waits in recv for every client in turn, comes to a node's         *)
(* request, is left open.                                                  *)
Fairness == /\ WF_vars(CheckHealth)
            /\ WF_vars(FinishAdd \/ FinishRegister)
            /\ \A n \in Nodes :
                 /\ WF_vars(\E t \in failover : t.ip = n /\ EnterGuard(t))
                 /\ WF_vars(\E t \in InFailover : t.ip = n /\ ~AwaitsAnswer(t) /\ Failover(t))
                 /\ WF_vars(n \notin beaten /\ RecordHeartbeat(n))

FairSpec == Spec /\ Fairness

-----------------------------------------------------------------------------
(* Type invariant.                                                         *)
TypeOK ==
  /\ DOMAIN servers \subseteq 1 .. MaxId /\ Registered \subseteq Nodes
  /\ next_id \in 1 .. MaxId + 1
  /\ \A i \in DOMAIN health :
       /\ i \in Nat
       /\ health[i] \in [ip : Nodes, is_healthy : BOOLEAN,
                         missed : 0 .. MaxMissed, age : 0 .. Timeout + 1]
  /\ registering \in [at : {"accept", "add", "record"}, node : Nodes \cup {Nobody},
                      id : 0 .. MaxId]
  /\ failover \subseteq [pc : Pcs, id : 1 .. MaxId, ip : Nodes]
  /\ recovering \subseteq Nodes
  /\ alive \subseteq Nodes /\ beaten \subseteq Nodes
  /\ restarts \in 0 .. MaxRestarts

(* However registrations, repeated registrations and removals interleave,  *)
(* no address is in the registry under two ids (add_server's check for     *)
(* duplicates).                                                            *)
AddressesUnique ==
  \A i, j \in DOMAIN servers : servers[i] = servers[j] => i = j

(* At most one failover of an address is past its guard, and the guard is  *)
(* held exactly by those failovers: no early return and no second thread   *)
(* leaves it locked ("Prevent duplicate concurrent failover").             *)
OneFailoverPerServer ==
  /\ recovering = {t.ip : t \in InFailover}
  /\ \A t, u \in InFailover : t.ip = u.ip => t = u

(* A node whose registrations the control API keeps serving is in the      *)
(* registry again and again, whatever failovers, restarts of the head      *)
(* server and other registrations do to its entry (liveness_monitor sends  *)
(* one every five seconds).                                                *)
LiveIsRegistered ==
  \A n \in Nodes : []<>(registering.node = n) => []<>(n \in Registered)

(* A node that ends for good is noticed: its own health record, once the   *)
(* head server has one, turns unhealthy and stays so.                      *)
SilentIsNoticed ==
  \A n \in Nodes :
    <>[](n \notin alive /\ ServerId[n] \in DOMAIN health)
      => <>[](~health[ServerId[n]].is_healthy)

(* Every failover comes to its end and lets go of its address, so that a   *)
(* later failure of the same server is handled again, unless it waits for  *)
(* good for somebody who does not answer; nothing else keeps the guard, a  *)
(* failover of another server that waits included.                         *)
FailoversEnd ==
  \A n \in Nodes : \/ []<>(n \notin recovering)
                   \/ <>[](\E t \in InFailover : t.ip = n /\ AwaitsAnswer(t))

(* What the documentation promises of the vote: DEAD goes only to a node   *)
(* that has really stopped.                                                *)
LiveIsNotKilled ==
  [][\A t \in failover : SendDeadSignal(t) => t.ip \notin alive]_vars
=============================================================================
