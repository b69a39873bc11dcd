-------------------------- MODULE ZkMonitorProofs --------------------------
(***************************************************************************)
(* What the election guarantees for every set of head servers, every load  *)
(* and any number of requests of operators.                                *)
(***************************************************************************)
EXTENDS ZkMonitor, NaturalsInduction, WellFoundedInduction, TLAPS

Server == [status : {"healthy", "leader", "unhealthy", "degraded"}, usage : Nat \X Nat]
Known == DOMAIN head_servers

Typed ==
  /\ DOMAIN znodes \subseteq Heads /\ \A h \in DOMAIN znodes : znodes[h] \in Server
  /\ head_servers = [h \in Known |-> head_servers[h]]
  /\ Known \subseteq Heads /\ \A h \in Known : head_servers[h] \in Server
  /\ best \in Known \cup {Nobody} \/ pc = "sleep"
  /\ pc \in {"sleep", "read", "check", "elect", "promote", "publish"}
  /\ unregistered \subseteq Heads

(* Who was elected since the last registration has it in its znode.        *)
LedIsMarked == \A h \in DOMAIN znodes : h \in led => znodes[h].status = "leader"

(* A healthy status is an answer of this round or a first registration.    *)
Trusted(h) == h \in answered \/ h \notin led
HealthyIsTrusted == \A h \in Known : head_servers[h].status = "healthy" => Trusted(h)

(* The candidate is as good as the healthy servers that were looked at.    *)
BestOf(S) == \A h \in S : head_servers[h].status = "healthy" \/ h \in answered =>
               best # Nobody /\ ~Dominates(h, best)

Round ==
  /\ pc = "read" => answered = {} /\ best = Nobody
  /\ pc = "check" => /\ best = Nobody /\ todo \subseteq Known /\ todo \cap answered = {}
                     /\ \A h \in answered : h \in Known /\ head_servers[h].status = "healthy"
  /\ pc = "elect" => /\ todo \subseteq Known /\ BestOf(Known \ todo)
                     /\ \A h \in todo \cap answered : head_servers[h].status = "healthy"
  /\ pc \in {"read", "check", "elect"} => HealthyIsTrusted
  /\ pc \in {"promote", "publish"} => BestOf(Known)
  /\ pc \in {"elect", "promote", "publish"} => best = Nobody \/ Trusted(best)
  /\ pc = "publish" => best # Nobody

Inv == Typed /\ LedIsMarked /\ Round

-----------------------------------------------------------------------------
LEMMA InitInv == Init => Inv
BY ZkMonitorAssumption DEF Init, Inv, Typed, Known, LedIsMarked, Round

(* Registrations, operators and servers: the loop's variables stay, and    *)
(* who is registered anew counts as never elected.                         *)
LEMMA OutsideInv ==
  ASSUME Inv, UNCHANGED loop, led' \subseteq led, unregistered' \subseteq unregistered,
         DOMAIN znodes' \subseteq Heads,
         \A h \in DOMAIN znodes' : /\ znodes'[h] \in Server
                                   /\ h \in led' => znodes'[h].status = "leader"
  PROVE  Inv'
<1>1. UNCHANGED <<pc, head_servers, todo, best, answered>>
  BY DEF loop
<1>2. Typed' /\ LedIsMarked'
  BY <1>1 DEF Inv, Typed, Known, LedIsMarked
<1>3. Round'
  BY <1>1 DEF Inv, Round, Known, BestOf, Dominates, HealthyIsTrusted, Trusted
<1> QED
  BY <1>2, <1>3 DEF Inv

LEMMA PutZnode ==
  ASSUME Inv, NEW h \in Heads, NEW z \in Server, NEW newled,
         znodes' = Put(znodes, h, z), led' = newled,
         newled \subseteq led \cup {h}, h \in newled => z.status = "leader"
  PROVE  /\ DOMAIN znodes' \subseteq Heads
         /\ \A i \in DOMAIN znodes' : /\ znodes'[i] \in Server
                                      /\ i \in led' => znodes'[i].status = "leader"
BY DEF Put, Inv, Typed, LedIsMarked

LEMMA RegistrationInv ==
  ASSUME Inv, NEW h \in Heads, UNCHANGED loop, unregistered' \subseteq unregistered,
         \/ Registration(h)
         \/ /\ \E u \in UsageOf[h] : znodes' = Put(znodes, h, [status |-> "healthy", usage |-> u])
            /\ led' = led \ {h}
  PROVE  Inv'
<1>1. CASE UNCHANGED <<znodes, led>>
  BY <1>1, OutsideInv DEF Inv, Typed, LedIsMarked
<1>2. CASE /\ \E u \in UsageOf[h] : znodes' = Put(znodes, h, [status |-> "healthy", usage |-> u])
           /\ led' = led \ {h}
  <2>1. PICK u \in UsageOf[h] : znodes' = Put(znodes, h, [status |-> "healthy", usage |-> u])
    BY <1>2
  <2>2. [status |-> "healthy", usage |-> u] \in Server
    BY ZkMonitorAssumption DEF Server
  <2> QED
    BY <1>2, <2>1, <2>2, PutZnode, OutsideInv
<1> QED
  BY <1>1, <1>2 DEF Registration

LEMMA MinIsMember ==
  ASSUME NEW S \in SUBSET Nat, S # {}
  PROVE  Min(S) \in S
<1> DEFINE Less == {ss \in Nat \X Nat : ss[1] < ss[2]}
<1>1. IsWellFoundedOn(Less, Nat)
  BY NatLessThanWellFounded DEF OpToRel
<1>2. PICK some \in S : TRUE
  OBVIOUS
<1>3. \E m \in S : \A n \in S : ~(<<n, m>> \in Less)
  <2> HIDE DEF Less
  <2> QED
    BY <1>1, <1>2, WFMin
<1>4. ASSUME NEW a \in Nat, NEW b \in Nat, ~(<<a, b>> \in Less)
      PROVE  b <= a
  BY <1>4
<1>5. \E m \in S : \A n \in S : m <= n
  <2> HIDE DEF Less
  <2> QED
    BY <1>3, <1>4
<1> QED
  BY <1>5 DEF Min

LEMMA EnvInv ==
  ASSUME Inv,
         \/ RegisterConfigured \/ DeleteLeader
         \/ \E h \in Heads : \/ RegisterCommand(h) \/ PostZnode(h)
                             \/ DeleteZnode(h) \/ StopOrStart(h)
  PROVE  Inv'
<1>1. CASE RegisterConfigured
  <2>1. Min(unregistered) \in Heads
    BY <1>1, MinIsMember, ZkMonitorAssumption DEF RegisterConfigured, Inv, Typed
  <2>2. /\ Registration(Min(unregistered)) /\ UNCHANGED loop
        /\ unregistered' \subseteq unregistered
    BY <1>1 DEF RegisterConfigured
  <2> QED
    BY <2>1, <2>2, RegistrationInv
<1>2. CASE \E h \in Heads : RegisterCommand(h) \/ PostZnode(h)
  BY <1>2, RegistrationInv DEF RegisterCommand, PostZnode
<1>3. CASE DeleteLeader \/ \E h \in Heads : DeleteZnode(h) \/ StopOrStart(h)
  <2>1. /\ UNCHANGED loop /\ led' \subseteq led /\ unregistered' \subseteq unregistered
        /\ DOMAIN znodes' \subseteq DOMAIN znodes
        /\ \A h \in DOMAIN znodes' : znodes'[h] = znodes[h]
    BY <1>3 DEF DeleteLeader, DeleteZnode, StopOrStart, zk
  <2> QED
    BY <2>1, OutsideInv DEF Inv, Typed, LedIsMarked
<1> QED
  BY <1>1, <1>2, <1>3

-----------------------------------------------------------------------------
(* The loop: listing, reading and checking.                                *)
LEMMA ListInv ==
  ASSUME Inv, ListChildren
  PROVE  Inv'
BY DEF ListChildren, Inv, Typed, Known, LedIsMarked, Round, HealthyIsTrusted, zk, env

LEMMA ReadInv ==
  ASSUME Inv, NEW h, ReadServer(h)
  PROVE  Inv'
<1>1. /\ UNCHANGED <<znodes, led, best, answered, unregistered>>
      /\ pc = "read" /\ pc' \in {"read", "check"}
      /\ pc' = "check" => todo' = Known'
  BY DEF ReadServer, Visit, zk, env, Known
<1>2. best = Nobody /\ answered = {}
  BY <1>1 DEF Inv, Round
<1>3. \/ head_servers' = head_servers
      \/ h \in DOMAIN znodes /\ head_servers' = Put(head_servers, h, znodes[h])
  BY DEF ReadServer, Visit
<1>4. Typed' /\ LedIsMarked'
  BY <1>1, <1>2, <1>3 DEF Inv, Typed, Known, LedIsMarked, Put
<1>5. HealthyIsTrusted'
  BY <1>1, <1>3 DEF Inv, Typed, Round, HealthyIsTrusted, Trusted, Known, Put, LedIsMarked
<1>6. Round'
  BY <1>1, <1>2, <1>5 DEF Round
<1> QED
  BY <1>4, <1>6 DEF Inv

LEMMA CheckInv ==
  ASSUME Inv, NEW h, CheckServer(h)
  PROVE  Inv'
<1>1. PICK ok \in BOOLEAN :
        /\ pc = "check" /\ h \in todo
        /\ CheckHeadServerHealth(h, ok)
        /\ Visit(h, "check", "elect",
                 [head_servers EXCEPT ![h].status = IF ok THEN "healthy" ELSE "unhealthy"])
  BY DEF CheckServer
<1>2. /\ UNCHANGED <<znodes, led, best, unregistered>>
      /\ pc' \in {"check", "elect"}
      /\ pc' = "elect" => todo' = Known' /\ todo = {h}
      /\ pc' = "check" => todo' = todo \ {h}
  BY <1>1 DEF CheckServer, Visit, zk, env, Known
<1>3. best = Nobody /\ todo \subseteq Known /\ h \in Known /\ h \notin answered
  BY <1>1 DEF Inv, Round
<1>4. /\ Known' = Known
      /\ head_servers'[h].status = (IF ok THEN "healthy" ELSE "unhealthy")
      /\ head_servers'[h] \in Server
      /\ head_servers' = [i \in Known |-> head_servers'[i]]
      /\ \A i \in Known \ {h} : head_servers'[i] = head_servers[i]
  BY <1>1, <1>3 DEF Visit, Inv, Typed, Known, Server
<1>5. /\ answered' = answered \/ (ok /\ answered' = answered \cup {h})
      /\ ok => head_servers[h].status = "healthy" \/ h \in answered'
  BY <1>1 DEF CheckHeadServerHealth
<1>6. Typed' /\ LedIsMarked'
  BY <1>2, <1>3, <1>4 DEF Inv, Typed, LedIsMarked
<1>7. HealthyIsTrusted /\ HealthyIsTrusted'
  BY <1>1, <1>2, <1>3, <1>4, <1>5 DEF Inv, Round, HealthyIsTrusted, Trusted
<1>8. \A i \in answered' : i \in Known' /\ head_servers'[i].status = "healthy"
  BY <1>1, <1>3, <1>4, <1>5 DEF Inv, Round
<1>9. Round'
  BY <1>1, <1>2, <1>3, <1>4, <1>5, <1>7, <1>8 DEF Inv, Round, BestOf
<1> QED
  BY <1>6, <1>9 DEF Inv

(* The election: domination is a strict order on the figures, so that a    *)
(* candidate that replaces another is not dominated either.                *)
LEMMA DominatesOrder ==
  ASSUME Typed, NEW g \in Known, NEW h \in Known, NEW i \in Known
  PROVE  /\ ~Dominates(h, h)
         /\ Dominates(g, h) /\ Dominates(h, i) => Dominates(g, i)
         /\ Dominates(g, h) /\ head_servers[h].usage = head_servers[i].usage => Dominates(g, i)
<1>1. \A j \in Known : /\ head_servers[j].usage[1] \in Nat
                       /\ head_servers[j].usage[2] \in Nat
  BY DEF Typed, Server
<1> QED
  BY <1>1 DEF Dominates

LEMMA ConsiderInv ==
  ASSUME Inv, NEW h, ConsiderServer(h)
  PROVE  Inv'
<1>1. PICK ok \in BOOLEAN :
        /\ IF head_servers[h].status = "healthy" THEN ok /\ UNCHANGED answered
           ELSE CheckHeadServerHealth(h, ok)
        /\ best' = IF ok /\ Preferred(h) THEN h ELSE best
  BY DEF ConsiderServer
<1>2. /\ pc = "elect" /\ h \in todo /\ UNCHANGED <<znodes, led, unregistered, head_servers>>
      /\ pc' \in {"elect", "promote"}
      /\ pc' = "promote" => todo = {h}
      /\ pc' = "elect" => todo' = todo \ {h}
  BY DEF ConsiderServer, Visit, zk, env
<1>3. /\ todo \subseteq Known /\ h \in Known /\ Known' = Known /\ Known \subseteq Nat \ {0}
      /\ best \in Known \cup {Nobody}
  BY <1>2, ZkMonitorAssumption DEF Inv, Round, Typed, Known
<1>4. /\ answered' = answered \/ (ok /\ answered' = answered \cup {h})
      /\ ok => head_servers[h].status = "healthy" \/ h \in answered'
      /\ ~ok => head_servers[h].status # "healthy" /\ h \notin answered'
  BY <1>1, <1>2 DEF CheckHeadServerHealth, Inv, Round
<1>5. Typed' /\ LedIsMarked'
  BY <1>1, <1>2, <1>3 DEF Inv, Typed, Known, LedIsMarked
<1>6. HealthyIsTrusted' /\ (best' = Nobody \/ Trusted(best)')
  BY <1>1, <1>2, <1>3, <1>4 DEF Inv, Round, HealthyIsTrusted, Trusted
<1>7. ASSUME NEW g \in (Known \ todo) \cup {h},
             head_servers[g].status = "healthy" \/ g \in answered'
      PROVE  best' # Nobody /\ ~Dominates(g, best')
  <2>1. CASE g = h
    <3>1. ok
      BY <1>4, <1>7, <2>1
    <3>2. CASE Preferred(h)
      BY <1>1, <1>3, <2>1, <3>1, <3>2, DominatesOrder DEF Inv, Nobody
    <3>3. CASE ~Preferred(h)
      BY <1>1, <2>1, <3>3 DEF Preferred
    <3> QED
      BY <3>2, <3>3
  <2>2. CASE g # h
    <3>1. g \in Known \ todo /\ best # Nobody /\ best \in Known /\ ~Dominates(g, best)
      BY <1>2, <1>3, <1>4, <1>7, <2>2 DEF Inv, Round, BestOf
    <3>2. CASE best' = best
      BY <3>1, <3>2
    <3>3. CASE best' # best
      <4>1. best' = h /\ Preferred(h)
        BY <1>1, <3>3
      <4>2. Dominates(h, best) \/ head_servers[h].usage = head_servers[best].usage
        BY <3>1, <4>1 DEF Preferred
      <4> QED
        BY <1>3, <3>1, <4>1, <4>2, DominatesOrder DEF Inv, Nobody
    <3> QED
      BY <3>2, <3>3
  <2> QED
    BY <2>1, <2>2
<1>8. \A g : Dominates(g, best)' = Dominates(g, best')
  BY <1>2 DEF Dominates
<1>9. /\ pc' = "elect" => BestOf(Known \ todo)'
      /\ pc' = "promote" => BestOf(Known)'
  BY <1>2, <1>3, <1>7, <1>8 DEF BestOf
<1>10. \A i \in (todo \ {h}) \cap answered' : head_servers[i].status = "healthy"
  BY <1>2, <1>4 DEF Inv, Round
<1>11. Round'
  BY <1>2, <1>3, <1>6, <1>9, <1>10 DEF Round
<1> QED
  BY <1>5, <1>11 DEF Inv

LEMMA PromoteInv ==
  ASSUME Inv, Promote
  PROVE  Inv'
<1> DEFINE new == IF best # Nobody THEN best ELSE Min(Known)
           status == IF best # Nobody THEN "healthy" ELSE "degraded"
<1>1. /\ pc = "promote" /\ pc' = (IF best # Nobody THEN "publish" ELSE "sleep")
      /\ head_servers' = [head_servers EXCEPT ![new].status = status]
      /\ UNCHANGED <<znodes, unregistered, best, answered, led>>
  BY DEF Promote, env, Known
<1>2. /\ Known' = Known /\ head_servers' = [i \in Known |-> head_servers'[i]]
      /\ \A i \in Known : /\ head_servers'[i] \in Server
                          /\ head_servers'[i].usage = head_servers[i].usage
                          /\ i # new => head_servers'[i] = head_servers[i]
  <2>1. status \in {"healthy", "degraded"}
    OBVIOUS
  <2> HIDE DEF new, status
  <2>2. /\ head_servers = [i \in Known |-> head_servers[i]]
        /\ \A i \in Known : head_servers[i] \in Server
    BY DEF Inv, Typed
  <2>3. Known' = Known /\ head_servers' = [i \in Known |-> head_servers'[i]]
    BY <1>1, <2>2 DEF Known
  <2>4. ASSUME NEW i \in Known, i # new PROVE head_servers'[i] = head_servers[i]
    BY <1>1, <2>2, <2>4 DEF Known
  <2>5. ASSUME new \in Known
        PROVE  head_servers'[new] = [head_servers[new] EXCEPT !.status = status]
    BY <1>1, <2>2, <2>5 DEF Known
  <2>6. ASSUME NEW r \in Server
        PROVE  /\ [r EXCEPT !.status = status] \in Server
               /\ [r EXCEPT !.status = status].usage = r.usage
    BY <2>1 DEF Server
  <2> QED
    BY <2>2, <2>3, <2>4, <2>5, <2>6
<1>3. Typed' /\ LedIsMarked'
  BY <1>1, <1>2 DEF Inv, Typed, LedIsMarked
<1>4. ASSUME best # Nobody
      PROVE  BestOf(Known)' /\ Trusted(best)'
  <2>1. best \in Known /\ new = best /\ ~Dominates(best, best)
    BY <1>1, <1>4, DominatesOrder DEF Inv, Typed
  <2>2. \A g \in Known : Dominates(g, best)' = Dominates(g, best)
    BY <1>1, <1>2, <2>1 DEF Dominates
  <2>3. BestOf(Known)'
    BY <1>1, <1>2, <1>4, <2>1, <2>2 DEF Inv, Round, BestOf
  <2> QED
    BY <1>1, <1>4, <2>3 DEF Inv, Round, Trusted
<1>5. Round'
  BY <1>1, <1>4 DEF Round
<1> QED
  BY <1>3, <1>5 DEF Inv

LEMMA PublishInv ==
  ASSUME Inv, Publish
  PROVE  Inv'
<1> DEFINE z == [status |-> "leader", usage |-> head_servers[best].usage]
<1>1. /\ pc = "publish" /\ pc' = "sleep" /\ znodes' = Put(znodes, best, z)
      /\ led' = led \cup {best} /\ UNCHANGED <<head_servers, unregistered, best>>
  BY DEF Publish, env
<1>2. best \in Heads /\ z \in Server
  BY <1>1 DEF Inv, Typed, Round, Server
<1>3. /\ DOMAIN znodes' \subseteq Heads
      /\ \A i \in DOMAIN znodes' : /\ znodes'[i] \in Server
                                   /\ i \in led' => znodes'[i].status = "leader"
  BY <1>1, <1>2, PutZnode
<1> QED
  BY <1>1, <1>3 DEF Inv, Typed, Known, LedIsMarked, Round

LEMMA NextInv == Inv /\ [Next]_vars => Inv'
<1> SUFFICES ASSUME Inv, [Next]_vars PROVE Inv'
  OBVIOUS
<1>1. CASE UNCHANGED vars
  BY <1>1, OutsideInv DEF vars, zk, env, Inv, Typed, LedIsMarked
<1>2. CASE NothingDiscovered
  BY <1>2 DEF NothingDiscovered, zk, env, Inv, Typed, Known, LedIsMarked, Round
<1>3. CASE MonitorStep
  BY <1>2, <1>3, ListInv, ReadInv, CheckInv, ConsiderInv, PromoteInv, PublishInv DEF MonitorStep
<1> QED
  BY <1>1, <1>3, EnvInv DEF Next

-----------------------------------------------------------------------------
(* For every set of head servers and every load they report, whatever      *)
(* operators and servers do during the round: perform_leader_election      *)
(* passes over no healthy server that has both figures lower.              *)
THEOREM ElectedAlwaysUndominated == Spec => []ElectedIsUndominated
<1>1. Inv => ElectedIsUndominated
  BY DEF Inv, Round, BestOf, Known, ElectedIsUndominated
<1> QED
  BY <1>1, InitInv, NextInv, PTL DEF Spec

(* For every set of head servers, whatever operators and servers do: a     *)
(* server that was leader since its registration is elected again only in  *)
(* a round in which it took a connection.                                  *)
THEOREM FormerLeaderAlwaysChecked == Spec => []FormerLeaderIsChecked
<1>1. Inv => FormerLeaderIsChecked
  BY DEF Inv, Round, Trusted, FormerLeaderIsChecked
<1> QED
  BY <1>1, InitInv, NextInv, PTL DEF Spec

-----------------------------------------------------------------------------
(* The figures: a znode and a discovered server carry usage that the       *)
(* server reports, and an election has somebody to elect.                  *)
Figures ==
  /\ TypeOK
  /\ \A h \in Known : /\ head_servers[h].usage \in UsageOf[h]
                      /\ pc = "read" => head_servers[h].status \in {"healthy", "leader"}
  /\ pc \in {"elect", "promote"} => Known # {}

LEMMA InitFigures == Init => Figures
BY ZkMonitorAssumption DEF Init, Figures, TypeOK, Known

(* Steps of the main thread, of operators and of servers.                  *)
LEMMA OutsideFigures ==
  ASSUME Figures, UNCHANGED loop, leader' \in {leader, Nobody},
         unregistered' \subseteq unregistered, up' \subseteq Heads, changes' \in 0 .. MaxChanges,
         DOMAIN znodes' \subseteq Heads,
         \A h \in DOMAIN znodes' : /\ znodes'[h].status \in {"healthy", "leader"}
                                   /\ znodes'[h].usage \in UsageOf[h]
  PROVE  Figures'
BY DEF Figures, TypeOK, Known, loop

LEMMA RegistrationFigures ==
  ASSUME Figures, NEW h \in Heads,
         \/ Registration(h)
         \/ \E u \in UsageOf[h] : znodes' = Put(znodes, h, [status |-> "healthy", usage |-> u])
  PROVE  /\ DOMAIN znodes' \subseteq Heads
         /\ \A i \in DOMAIN znodes' : /\ znodes'[i].status \in {"healthy", "leader"}
                                      /\ znodes'[i].usage \in UsageOf[i]
BY DEF Registration, Put, Figures, TypeOK

LEMMA EnvFigures ==
  ASSUME Figures,
         \/ RegisterConfigured \/ DeleteLeader
         \/ \E h \in Heads : \/ RegisterCommand(h) \/ PostZnode(h)
                             \/ DeleteZnode(h) \/ StopOrStart(h)
  PROVE  Figures'
<1>1. /\ unregistered \subseteq Heads /\ up \subseteq Heads /\ changes \in 0 .. MaxChanges
      /\ MaxChanges \in Nat /\ unregistered \subseteq Nat
  BY ZkMonitorAssumption DEF Figures, TypeOK
<1>2. Change => changes' \in 0 .. MaxChanges
  BY <1>1 DEF Change
<1>3. CASE RegisterConfigured
  <2>1. Min(unregistered) \in Heads
    BY <1>1, <1>3, MinIsMember DEF RegisterConfigured
  <2>2. /\ Registration(Min(unregistered)) /\ UNCHANGED <<leader, up, changes, loop>>
        /\ unregistered' \subseteq unregistered
    BY <1>3 DEF RegisterConfigured
  <2> QED
    BY <1>1, <2>1, <2>2, RegistrationFigures, OutsideFigures
<1>4. ASSUME NEW h \in Heads, RegisterCommand(h) \/ PostZnode(h)
      PROVE  Figures'
  <2>1. /\ DOMAIN znodes' \subseteq Heads
        /\ \A i \in DOMAIN znodes' : /\ znodes'[i].status \in {"healthy", "leader"}
                                     /\ znodes'[i].usage \in UsageOf[i]
    BY <1>4, RegistrationFigures DEF RegisterCommand, PostZnode
  <2>2. Change /\ UNCHANGED <<leader, unregistered, up, loop>>
    BY <1>4 DEF RegisterCommand, PostZnode
  <2> QED
    BY <1>1, <1>2, <2>1, <2>2, OutsideFigures
<1>5. CASE DeleteLeader \/ \E h \in Heads : DeleteZnode(h) \/ StopOrStart(h)
  <2>1. /\ Change /\ UNCHANGED <<unregistered, loop>> /\ leader' \in {leader, Nobody}
        /\ DOMAIN znodes' \subseteq DOMAIN znodes /\ up' \subseteq Heads
        /\ \A h \in DOMAIN znodes' : znodes'[h] = znodes[h]
    BY <1>1, <1>5 DEF DeleteLeader, DeleteZnode, StopOrStart, zk
  <2> QED
    BY <1>2, <2>1, OutsideFigures DEF Figures, TypeOK
<1> QED
  BY <1>3, <1>4, <1>5

(* Steps of the loop but the last: who is known, and what is known of them.*)
LEMMA LoopFigures ==
  ASSUME Figures, UNCHANGED <<zk, env, leader_server_id>>,
         Known' \subseteq Heads, todo' \subseteq Heads, best' \in Heads \cup {Nobody},
         pc' \in {"sleep", "read", "check", "elect", "promote", "publish"},
         pc' \in {"elect", "promote"} => Known' # {},
         \A h \in Known' :
           /\ head_servers'[h].usage \in UsageOf[h]
           /\ head_servers'[h].status \in {"healthy", "leader", "unhealthy", "degraded"}
           /\ pc' = "read" => head_servers'[h].status \in {"healthy", "leader"}
  PROVE  Figures'
BY DEF Figures, TypeOK, Known, zk, env

LEMMA VisitFigures ==
  ASSUME Inv, Figures, NEW h \in todo, ReadServer(h) \/ CheckServer(h) \/ ConsiderServer(h)
  PROVE  Figures'
<1>1. /\ UNCHANGED <<zk, env, leader_server_id>> /\ h \in Heads /\ todo \subseteq Heads
      /\ best \in Heads \cup {Nobody} /\ Known \subseteq Heads
  BY DEF ReadServer, CheckServer, ConsiderServer, Figures, TypeOK, Known
<1>2. CASE ReadServer(h)
  <2>1. /\ \/ head_servers' = head_servers
           \/ h \in DOMAIN znodes /\ head_servers' = Put(head_servers, h, znodes[h])
        /\ pc = "read" /\ pc' \in {"read", "check"} /\ best' = best
        /\ todo' \subseteq todo \cup Known'
    BY <1>2 DEF ReadServer, Visit, Known
  <2>2. /\ Known' \subseteq Heads
        /\ \A i \in Known' : /\ head_servers'[i].usage \in UsageOf[i]
                             /\ head_servers'[i].status \in {"healthy", "leader"}
    BY <1>1, <2>1 DEF Put, Known, Figures, TypeOK
  <2>3. todo' \subseteq Heads
    BY <1>1, <2>1, <2>2
  <2> QED
    BY <1>1, <2>1, <2>2, <2>3, LoopFigures
<1>3. CASE CheckServer(h)
  <2>1. PICK ok \in BOOLEAN :
          /\ pc = "check"
          /\ Visit(h, "check", "elect",
                   [head_servers EXCEPT ![h].status = IF ok THEN "healthy" ELSE "unhealthy"])
    BY <1>3 DEF CheckServer
  <2>2. h \in Known
    BY <2>1 DEF Inv, Round
  <2>3. /\ Known' = Known
        /\ head_servers'[h].status = (IF ok THEN "healthy" ELSE "unhealthy")
        /\ head_servers'[h].usage = head_servers[h].usage
        /\ \A i \in Known \ {h} : head_servers'[i] = head_servers[i]
    BY <2>1, <2>2 DEF Visit, Inv, Typed, Known, Server
  <2>4. pc' \in {"check", "elect"} /\ todo' \subseteq Heads /\ best' = best
    BY <1>1, <1>3, <2>1, <2>3 DEF Visit, CheckServer, Known
  <2>5. \A i \in Known : /\ head_servers'[i].usage \in UsageOf[i]
                         /\ head_servers'[i].status \in {"healthy", "leader", "unhealthy", "degraded"}
    BY <2>3 DEF Figures, TypeOK, Known
  <2> QED
    BY <1>1, <2>2, <2>3, <2>4, <2>5, LoopFigures
<1>4. CASE ConsiderServer(h)
  <2>1. /\ pc = "elect" /\ pc' \in {"elect", "promote"} /\ head_servers' = head_servers
        /\ best' \in {h, best} /\ todo' \subseteq todo \cup Known
    BY <1>4 DEF ConsiderServer, Visit, Known
  <2>2. Known' = Known /\ Known # {} /\ todo' \subseteq Heads
    BY <1>1, <2>1 DEF Known, Figures
  <2>3. \A i \in Known : /\ head_servers'[i].usage \in UsageOf[i]
                         /\ head_servers'[i].status \in {"healthy", "leader", "unhealthy", "degraded"}
    BY <2>1 DEF Figures, TypeOK, Known
  <2> QED
    BY <1>1, <2>1, <2>2, <2>3, LoopFigures
<1> QED
  BY <1>2, <1>3, <1>4

(* The leader is one of the servers discovered in this round.              *)
LEMMA PromoteFigures ==
  ASSUME Inv, Figures, Promote
  PROVE  Figures'
<1> DEFINE new == IF best # Nobody THEN best ELSE Min(Known)
           status == IF best # Nobody THEN "healthy" ELSE "degraded"
<1>1. /\ pc = "promote" /\ pc' \in {"publish", "sleep"}
      /\ leader_server_id' = new /\ leader' = new
      /\ head_servers' = [head_servers EXCEPT ![new].status = status]
      /\ UNCHANGED <<znodes, env, todo, best>>
  BY DEF Promote, Known
<1>2. Known # {} /\ Known \subseteq Heads /\ Known \subseteq Nat
  BY <1>1, ZkMonitorAssumption DEF Figures, TypeOK, Known
<1>3. new \in Known
  BY <1>1, <1>2, MinIsMember DEF Inv, Typed
<1>4. status \in {"healthy", "degraded"}
  OBVIOUS
<1> HIDE DEF new, status
<1>5. /\ Known' = Known
      /\ head_servers'[new].status = status
      /\ head_servers'[new].usage = head_servers[new].usage
      /\ \A i \in Known \ {new} : head_servers'[i] = head_servers[i]
  BY <1>1, <1>3 DEF Inv, Typed, Known, Server
<1>6. \A i \in Known : /\ head_servers'[i].usage \in UsageOf[i]
                       /\ head_servers'[i].status \in {"healthy", "leader", "unhealthy", "degraded"}
  BY <1>4, <1>5 DEF Figures, TypeOK, Known
<1>7. TypeOK'
  BY <1>1, <1>2, <1>3, <1>5, <1>6 DEF Figures, TypeOK, Known, env
<1> QED
  BY <1>1, <1>5, <1>6, <1>7 DEF Figures

LEMMA PublishFigures ==
  ASSUME Inv, Figures, Publish
  PROVE  Figures'
<1> DEFINE z == [status |-> "leader", usage |-> head_servers[best].usage]
<1>1. /\ pc = "publish" /\ pc' = "sleep" /\ znodes' = Put(znodes, best, z)
      /\ UNCHANGED <<leader, env, head_servers, todo, best, leader_server_id>>
  BY DEF Publish
<1>2. best \in Known /\ best \in Heads
  BY <1>1 DEF Inv, Typed, Round
<1>3. z.status = "leader" /\ z.usage \in UsageOf[best]
  BY <1>2 DEF Figures
<1> HIDE DEF z
<1>4. /\ DOMAIN znodes' \subseteq Heads
      /\ \A h \in DOMAIN znodes' : /\ znodes'[h].status \in {"healthy", "leader"}
                                   /\ znodes'[h].usage \in UsageOf[h]
  BY <1>1, <1>2, <1>3 DEF Put, Figures, TypeOK
<1> QED
  BY <1>1, <1>4 DEF Figures, TypeOK, Known, env

LEMMA NextFigures == Inv /\ Figures /\ [Next]_vars => Figures'
<1> SUFFICES ASSUME Inv, Figures, [Next]_vars PROVE Figures'
  OBVIOUS
<1>1. CASE UNCHANGED vars
  BY <1>1 DEF vars, zk, env, loop, Figures, TypeOK, Known
<1>2. CASE NothingDiscovered
  BY <1>2 DEF NothingDiscovered, zk, env, Figures, TypeOK, Known
<1>3. CASE ListChildren
  BY <1>3 DEF ListChildren, zk, env, Figures, TypeOK, Known
<1>4. CASE MonitorStep
  BY <1>2, <1>3, <1>4, VisitFigures, PromoteFigures, PublishFigures DEF MonitorStep
<1> QED
  BY <1>1, <1>4, EnvFigures DEF Next

(* Whatever operators delete or post during a round, the monitor elects,   *)
(* reports and publishes only head servers, and never writes figures to a  *)
(* znode that its server did not report (perform_leader_election).         *)
THEOREM MonitorAlwaysTyped == Spec => []TypeOK
<1>1. Init => Inv /\ Figures
  BY InitInv, InitFigures
<1>2. Inv /\ Figures /\ [Next]_vars => (Inv /\ Figures)'
  BY NextInv, NextFigures
<1>3. Figures => TypeOK
  BY DEF Figures
<1> QED
  BY <1>1, <1>2, <1>3, PTL DEF Spec
=============================================================================
