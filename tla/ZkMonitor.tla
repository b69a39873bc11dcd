----------------------------- MODULE ZkMonitor -----------------------------
(***************************************************************************)
(* The monitor of the head servers (zk_monitor.cpp).  Every few seconds    *)
(* its loop lists the znodes of the head servers, checks each server,      *)
(* elects a leader and writes the leader to its znodes.  Meanwhile the     *)
(* main thread registers head servers and the master API changes znodes.   *)
(* The znodes live in the monitor's own memory (zookeeper_client.cpp).     *)
(*                                                                         *)
(* Head servers are numbered in the order of their names.  Every round     *)
(* begins by forgetting all is_leader marks (discover_head_servers), so    *)
(* the branch of the election that keeps a healthy leader is never taken   *)
(* and is_leader is not modelled.  Neither are failure counts: the status  *)
(* they lead to is overwritten by every caller that reads it.  A write     *)
(* first asks whether the znode exists; what the master API does between   *)
(* the two has the effect of doing it after both.  Operators post znodes   *)
(* that are registrations of head servers.                                 *)
(***************************************************************************)
EXTENDS Integers, FiniteSetsExt

CONSTANTS
  Heads,       \* head servers
  Configured,  \* those run_zk_monitor registers
  UsageOf,     \* per server: the <<cpu_usage, memory_usage>> it may report
  MaxChanges   \* bound: requests of operators, stops and starts of servers

ASSUME ZkMonitorAssumption ==
  /\ Heads \subseteq Nat \ {0} /\ Configured \subseteq Heads
  /\ UsageOf \in [Heads -> SUBSET (Nat \X Nat)]
  /\ MaxChanges \in Nat

VARIABLES
  znodes,            \* HEAD_SERVERS_PATH/<server>: status and usage
  leader,            \* ZK_ROOT_PATH/leader
  pc,                \* where monitor_loop is
  head_servers,      \* the servers discovered in this round
  todo,              \* those the current loop has still to visit
  best,              \* best_candidate
  leader_server_id,  \* the leader the monitor reports
  unregistered,      \* configured servers the main thread has yet to register
  up,                \* the head servers that accept connections
  changes,           \* how much operators and servers have done
  answered,          \* history: the servers that took a connection this round
  led                \* history: leaders since they were last registered

zk == <<znodes, leader>>
env == <<unregistered, up, changes>>
loop == <<pc, head_servers, todo, best, leader_server_id, answered>>
vars == <<zk, env, loop, led>>

Nobody == 0
Put(f, k, v) == [i \in DOMAIN f \cup {k} |-> IF i = k THEN v ELSE f[i]]

Init ==
  /\ znodes = [h \in {} |-> 0] /\ leader = Nobody
  /\ pc = "sleep" /\ head_servers = [h \in {} |-> 0]
  /\ todo = {} /\ best = Nobody /\ leader_server_id = Nobody
  /\ unregistered = Configured /\ up \in SUBSET Heads /\ changes = 0
  /\ answered = {} /\ led = {}

-----------------------------------------------------------------------------
(* simulate_head_server_registration: a znode that is there stays as it is. *)
Registration(h) ==
  IF h \in DOMAIN znodes THEN UNCHANGED <<znodes, led>>
  ELSE /\ \E u \in UsageOf[h] : znodes' = Put(znodes, h, [status |-> "healthy", usage |-> u])
       /\ led' = led \ {h}

RegisterConfigured ==
  /\ unregistered # {}
  /\ Registration(Min(unregistered))
  /\ unregistered' = unregistered \ {Min(unregistered)}
  /\ UNCHANGED <<leader, up, changes, loop>>

Change == changes < MaxChanges /\ changes' = changes + 1

(* "register" of the interactive mode.                                     *)
RegisterCommand(h) ==
  /\ Change
  /\ Registration(h)
  /\ UNCHANGED <<leader, unregistered, up, loop>>

(* master_api_server: POST of a server's registration, DELETE.             *)
PostZnode(h) ==
  /\ Change
  /\ \E u \in UsageOf[h] : znodes' = Put(znodes, h, [status |-> "healthy", usage |-> u])
  /\ led' = led \ {h}
  /\ UNCHANGED <<leader, unregistered, up, loop>>

DeleteZnode(h) ==
  /\ Change
  /\ h \in DOMAIN znodes
  /\ znodes' = [i \in DOMAIN znodes \ {h} |-> znodes[i]]
  /\ UNCHANGED <<leader, unregistered, up, loop, led>>

DeleteLeader ==
  /\ Change
  /\ leader' = Nobody
  /\ UNCHANGED <<znodes, unregistered, up, loop, led>>

StopOrStart(h) ==
  /\ Change
  /\ up' \in {up \cup {h}, up \ {h}} \ {up}
  /\ UNCHANGED <<zk, unregistered, loop, led>>

-----------------------------------------------------------------------------
(* discover_head_servers: the names, then the data of each.                *)
ListChildren ==
  /\ pc = "sleep"
  /\ pc' = "read"
  /\ todo' = DOMAIN znodes
  /\ head_servers' = [h \in {} |-> 0]
  /\ answered' = {}
  /\ best' = Nobody
  /\ UNCHANGED <<zk, env, leader_server_id, led>>

(* The loops visit servers in order, and go on to pc2 after the last one.  *)
Visit(h, pc1, pc2, servers) ==
  /\ pc = pc1 /\ todo # {} /\ h = Min(todo)
  /\ head_servers' = servers
  /\ pc' = IF todo = {h} THEN pc2 ELSE pc1
  /\ todo' = IF todo = {h} THEN DOMAIN servers ELSE todo \ {h}

ReadServer(h) ==
  /\ Visit(h, "read", "check",
           IF h \in DOMAIN znodes THEN Put(head_servers, h, znodes[h]) ELSE head_servers)
  /\ UNCHANGED <<zk, env, best, leader_server_id, answered, led>>

(* Nothing was discovered: nothing is checked and nobody elected.          *)
NothingDiscovered ==
  /\ pc \in {"read", "check"} /\ todo = {}
  /\ pc' = "sleep"
  /\ UNCHANGED <<zk, env, head_servers, todo, best, leader_server_id, answered, led>>

(* A faulty variant: whatever was discovered lately is taken for healthy.  *)
CheckHealthRecent(h, ok) ==
  \/ ok /\ UNCHANGED answered
  \/ /\ ok = (h \in up)
     /\ answered' = IF ok THEN answered \cup {h} ELSE answered

(* check_head_server_health: a server discovered less than five seconds    *)
(* ago as "healthy" is healthy without being asked.  Slow checks of other  *)
(* servers may have taken longer; then, and for any other status, whether  *)
(* one of three attempts to connect succeeds decides.                      *)
CheckHeadServerHealth(h, ok) ==
  \/ head_servers[h].status = "healthy" /\ ok /\ UNCHANGED answered
  \/ /\ ok = (h \in up)
     /\ answered' = IF ok THEN answered \cup {h} ELSE answered

(* monitor_loop checks every server.                                       *)
CheckServer(h) ==
  /\ \E ok \in BOOLEAN :
       /\ pc = "check" /\ h \in todo
       /\ CheckHeadServerHealth(h, ok)
       /\ Visit(h, "check", "elect",
                [head_servers EXCEPT ![h].status = IF ok THEN "healthy" ELSE "unhealthy"])
  /\ UNCHANGED <<zk, env, best, leader_server_id, led>>

-----------------------------------------------------------------------------
(* perform_leader_election *)
Dominates(h, g) == LET a == head_servers[h].usage  b == head_servers[g].usage
                   IN a[1] < b[1] /\ a[2] < b[2]

(* A faulty variant: one lower figure is enough.                           *)
PreferredEither(h) ==
  \/ best = Nobody
  \/ head_servers[h].usage[1] < head_servers[best].usage[1]
  \/ head_servers[h].usage[2] < head_servers[best].usage[2]

Preferred(h) ==
  \/ best = Nobody
  \/ Dominates(h, best)
  \/ head_servers[h].usage = head_servers[best].usage /\ h < best

(* The search for the best candidate; a server that is not healthy gets    *)
(* another check.                                                          *)
ConsiderServer(h) ==
  /\ pc = "elect" /\ h \in todo
  /\ \E ok \in BOOLEAN :
       /\ IF head_servers[h].status = "healthy" THEN ok /\ UNCHANGED answered
          ELSE CheckHeadServerHealth(h, ok)
       /\ best' = IF ok /\ Preferred(h) THEN h ELSE best
  /\ Visit(h, "elect", "promote", head_servers)
  /\ UNCHANGED <<zk, env, leader_server_id, led>>

(* The best candidate, else the first server (consecutive_failures is 0    *)
(* for all of them), becomes the leader.                                   *)
Promote ==
  LET new == IF best # Nobody THEN best ELSE Min(DOMAIN head_servers)
  IN /\ pc = "promote"
     /\ leader_server_id' = new
     /\ leader' = new
     /\ head_servers' = [head_servers EXCEPT ![new].status =
                           IF best # Nobody THEN "healthy" ELSE "degraded"]
     /\ pc' = IF best # Nobody THEN "publish" ELSE "sleep"
     /\ UNCHANGED <<znodes, env, todo, best, answered, led>>

(* A faulty variant: the leader's znode keeps its status.                  *)
PublishLeaderOnly ==
  /\ pc = "publish"
  /\ pc' = "sleep"
  /\ led' = led \cup {best}
  /\ UNCHANGED <<zk, env, head_servers, todo, best, leader_server_id, answered>>

(* A faulty variant: the figures are left out, as they are on a demotion.  *)
PublishWithoutUsage ==
  /\ pc = "publish"
  /\ znodes' = Put(znodes, best, [status |-> "leader", usage |-> <<0, 0>>])
  /\ pc' = "sleep"
  /\ led' = led \cup {best}
  /\ UNCHANGED <<leader, env, head_servers, todo, best, leader_server_id, answered>>

(* A leader's own znode gets status=leader, and is made if it is gone.     *)
Publish ==
  /\ pc = "publish"
  /\ znodes' = Put(znodes, best, [status |-> "leader", usage |-> head_servers[best].usage])
  /\ pc' = "sleep"
  /\ led' = led \cup {best}
  /\ UNCHANGED <<leader, env, head_servers, todo, best, leader_server_id, answered>>

MonitorStep == \/ ListChildren \/ NothingDiscovered \/ Promote \/ Publish
               \/ \E h \in todo : ReadServer(h) \/ CheckServer(h) \/ ConsiderServer(h)

Next == \/ MonitorStep
        \/ RegisterConfigured
        \/ DeleteLeader
        \/ \E h \in Heads : \/ RegisterCommand(h) \/ PostZnode(h)
                            \/ DeleteZnode(h) \/ StopOrStart(h)

(* The monitor's loop and the main thread run; operators need not.         *)
Spec == Init /\ [][Next]_vars /\ WF_vars(MonitorStep) /\ WF_vars(RegisterConfigured)

-----------------------------------------------------------------------------
(* Type invariant.                                                         *)
TypeOK ==
  /\ DOMAIN znodes \subseteq Heads /\ DOMAIN head_servers \subseteq Heads
  /\ \A h \in DOMAIN znodes : /\ znodes[h].status \in {"healthy", "leader"}
                              /\ znodes[h].usage \in UsageOf[h]
  /\ \A h \in DOMAIN head_servers :
       head_servers[h].status \in {"healthy", "leader", "unhealthy", "degraded"}
  /\ {leader, best, leader_server_id} \subseteq Heads \cup {Nobody}
  /\ pc \in {"sleep", "read", "check", "elect", "promote", "publish"}
  /\ todo \subseteq Heads /\ unregistered \subseteq Configured /\ up \subseteq Heads
  /\ changes \in 0 .. MaxChanges

(* The scan of perform_leader_election, though its preference is no total  *)
(* order, never ends with a leader to which it would have preferred        *)
(* another server that it knew to be healthy.                              *)
ElectedIsUndominated ==
  pc = "publish" =>
    ~\E h \in DOMAIN head_servers :
       /\ head_servers[h].status = "healthy" \/ h \in answered
       /\ Dominates(h, best)

(* A server that has been leader since it was registered is elected again  *)
(* only in a round in which it took a connection: what its registration    *)
(* said of its health is believed once (status=leader in its znode).       *)
FormerLeaderIsChecked ==
  pc = "publish" => best \in answered \/ best \notin led

(* Once servers and operators have come to rest and some registered server *)
(* is up, the leader's znode and the monitor name none but servers that    *)
(* are up, whatever the figures: a server that is down is elected on the   *)
(* word of its registration once at most.  (Which of the servers that are  *)
(* up leads may change for good: a round that believes a server that is    *)
(* down can prefer another one than a round that asks it.)                 *)
LeaderComesUp ==
  <>[](up \cap DOMAIN znodes # {}) => <>[](leader \in up /\ leader_server_id = leader)
=============================================================================
