--------------------------- MODULE ReactorProofs ---------------------------
(***************************************************************************)
(* What the event loop guarantees for every number of connections, pieces, *)
(* descriptors and events per batch, until epoll_ctl fails for want of     *)
(* memory.                                                                 *)
(***************************************************************************)
EXTENDS Reactor, FiniteSetTheorems, NaturalsInduction, WellFoundedInduction, TLAPS

(* Most leaves are first-order and left to Zenon; the others name SMT.     *)
USE Zenon

(* The stack: nobody is on it twice.                                       *)
Elems(s) == {s[i] : i \in 1 .. Len(s)}
IsStack(s) == /\ s \in Seq(Coroutines)
              /\ \A i, j \in 1 .. Len(s) : s[i] = s[j] => i = j
OnStack == Elems(stack)

(* Where a coroutine of each kind can be.                                  *)
Places ==
  /\ DOMAIN pc = Coroutines
  /\ pc[Acceptor] = "accept"
  /\ pc[Beater] \in {"send", "slept", "ended"}
  /\ \A c \in Conns :
       /\ pc[Handler(c)] \in {"none", "read", "await", "retrieve", "relay", "send", "close", "ended"}
       /\ pc[Poller(c)] \in {"none", "poll", "slept", "return", "ended"}

(* A poller that has not done its work holds the handle of its handler; a  *)
(* handler that is about to spawn one has none yet.                        *)
Holds(c) == pc[Poller(c)] \in {"poll", "slept"}
Held ==
  \A c \in Conns :
    /\ Holds(c) => pc[Handler(c)] \in {"await", "retrieve"} /\ Handler(c) \notin OnStack
    /\ pc[Handler(c)] \in {"none", "read"} => pc[Poller(c)] = "none"
    /\ pc[Handler(c)] \in {"await", "retrieve"} /\ Handler(c) \in OnStack => pc[Poller(c)] = "none"

Clients ==
  /\ DOMAIN client = Conns
  /\ \A c \in Conns : /\ DOMAIN client[c] = {"at", "tosend", "unread", "answer", "room"}
                      /\ client[c].at \in {"away", "queued"} => pc[Handler(c)] = "none"

(* Every descriptor belongs to one coroutine, and who needs one has one.   *)
Object(co) == IF co[1] \in {"accept", "conn"} THEN Socket(co) ELSE Timer(co)
Owns(co) == \/ pc[co] \in {"accept", "slept", "read", "await", "retrieve", "relay", "close"}
            \/ pc[co] = "send" /\ co # Beater
Descriptors ==
  /\ DOMAIN open \subseteq 1 .. MaxFds
  /\ \A fd \in DOMAIN open : /\ open[fd].of \in Coroutines /\ Owns(open[fd].of)
                             /\ open[fd] = Object(open[fd].of)
  /\ \A co \in Coroutines : Owns(co) => \E fd \in DOMAIN open : open[fd].of = co
  /\ \A a, b \in DOMAIN open : open[a].of = open[b].of => a = b

(* A descriptor in fds_ has its owner as its one waiter, which has left    *)
(* the thread at a place where it waits for that edge.                     *)
Reading(co) == [rd |-> {co}, wr |-> {}, mask |-> {"IN"}]
Writing(co) == [rd |-> {}, wr |-> {co}, mask |-> {"OUT"}]
Waiters ==
  /\ DOMAIN epoll = DOMAIN fds_ /\ DOMAIN fds_ \subseteq DOMAIN open
  /\ \A fd \in DOMAIN fds_ :
       /\ epoll[fd] = fds_[fd].mask
       /\ open[fd].of \notin OnStack
       /\ \/ fds_[fd] = Reading(open[fd].of) /\ pc[open[fd].of] \in {"read", "accept", "slept"}
          \/ fds_[fd] = Writing(open[fd].of) /\ pc[open[fd].of] = "send"

(* What is left of a batch is about descriptors that are waited for still, *)
(* one event each.                                                         *)
Batch ==
  /\ \A e \in events : e.fd \in DOMAIN fds_ /\ e.object = open[e.fd]
  /\ \A d, e \in events : d.fd = e.fd => d = e

Counted == /\ OnStack \subseteq Live
           /\ IsFiniteSet(Live) /\ active_tasks_ = Cardinality(Live)

Inv == /\ IsStack(stack) /\ Places /\ Held /\ Clients
       /\ Descriptors /\ Waiters /\ Batch /\ Counted

(* Nobody is forgotten, as long as there are descriptors for the timers.   *)
Waits(co) == \E fd \in DOMAIN fds_ : open[fd].of = co
GoesOn == \A co \in Live : \/ co \in OnStack \/ Waits(co)
                           \/ \E c \in Conns : co = Handler(c) /\ Holds(c)

-----------------------------------------------------------------------------
(* The coroutines and their objects.                                       *)
LEMMA Kinds ==
  /\ Acceptor \in Coroutines /\ Beater \in Coroutines /\ Acceptor # Beater
  /\ \A c \in Conns : /\ Handler(c) \in Coroutines /\ Poller(c) \in Coroutines
                      /\ Handler(c) \notin {Acceptor, Beater} /\ Poller(c) \notin {Acceptor, Beater}
  /\ \A c, d \in Conns : /\ Handler(c) # Poller(d)
                         /\ Handler(c) = Handler(d) => c = d
                         /\ Poller(c) = Poller(d) => c = d
  /\ \A co \in Coroutines : co \in {Acceptor, Beater}
                            \/ \E c \in Conns : co \in {Handler(c), Poller(c)}
BY DEF Coroutines, Acceptor, Beater, Handler, Poller

LEMMA Objects ==
  /\ Object(Acceptor) = Socket(Acceptor) /\ Object(Beater) = Timer(Beater)
  /\ \A c : Object(Handler(c)) = Socket(Handler(c)) /\ Object(Poller(c)) = Timer(Poller(c))
  /\ \A co : Socket(co).of = co /\ Timer(co).of = co /\ Object(co).of = co
  /\ \A co : Object(co) \in {Socket(co), Timer(co)}
BY DEF Object, Socket, Timer, Acceptor, Beater, Handler, Poller

LEMMA KindNames ==
  /\ Acceptor[1] = "accept" /\ Beater[1] = "beat"
  /\ \A c : Handler(c)[1] = "conn" /\ Poller(c)[1] = "poll"
BY DEF Acceptor, Beater, Handler, Poller

(* Leaving the thread, and being resumed on it.                            *)
LEMMA Pop ==
  ASSUME NEW s, IsStack(s), s # <<>>
  PROVE  /\ IsStack(Tail(s)) /\ Head(s) \in Coroutines
         /\ Head(s) \in Elems(s) /\ Elems(Tail(s)) = Elems(s) \ {Head(s)}
<1>1. /\ s \in Seq(Coroutines) /\ Len(s) \in Nat \ {0} /\ 1 \in 1 .. Len(s)
      /\ Head(s) = s[1] /\ Tail(s) \in Seq(Coroutines)
      /\ Len(Tail(s)) = Len(s) - 1
      /\ \A i \in 1 .. Len(Tail(s)) : i + 1 \in 1 .. Len(s) /\ Tail(s)[i] = s[i + 1]
  BY SMT DEF IsStack
<1>2. IsStack(Tail(s))
  BY <1>1, SMT DEF IsStack
<1>3. Head(s) \in Elems(s) /\ Head(s) \in Coroutines
  BY <1>1, SMT DEF Elems
<1>4. ASSUME NEW co \in Elems(Tail(s)) PROVE co \in Elems(s) \ {Head(s)}
  <2>1. PICK i \in 1 .. Len(Tail(s)) : co = Tail(s)[i]
    BY DEF Elems
  <2>2. i + 1 \in 1 .. Len(s) /\ i + 1 # 1 /\ co = s[i + 1]
    BY <1>1, <2>1, SMT
  <2> QED
    BY <1>1, <2>2 DEF IsStack, Elems
<1>5. ASSUME NEW co \in Elems(s), co # Head(s) PROVE co \in Elems(Tail(s))
  <2>1. PICK i \in 1 .. Len(s) : co = s[i]
    BY DEF Elems
  <2>2. i # 1 /\ i - 1 \in 1 .. Len(Tail(s)) /\ (i - 1) + 1 = i
    BY <1>1, <1>5, <2>1, SMT
  <2>3. Tail(s)[i - 1] = s[i]
    BY <1>1, <2>2
  <2> QED
    BY <2>1, <2>2, <2>3 DEF Elems
<1> QED
  BY <1>2, <1>3, <1>4, <1>5

LEMMA Push ==
  ASSUME NEW s, IsStack(s), NEW co \in Coroutines, co \notin Elems(s)
  PROVE  IsStack(<<co>> \o s) /\ Elems(<<co>> \o s) = Elems(s) \cup {co}
<1> DEFINE t == <<co>> \o s
<1>1. /\ s \in Seq(Coroutines) /\ Len(s) \in Nat /\ t \in Seq(Coroutines)
      /\ Len(t) = Len(s) + 1 /\ t[1] = co
      /\ \A i \in 1 .. Len(t) : i # 1 => i - 1 \in 1 .. Len(s) /\ t[i] = s[i - 1]
      /\ \A i \in 1 .. Len(s) : i + 1 \in 1 .. Len(t) /\ t[i + 1] = s[i]
  BY SMT DEF IsStack
<1> HIDE DEF t
<1>2. \A i \in 1 .. Len(t) : i # 1 => t[i] # co
  BY <1>1 DEF Elems
<1>3. ASSUME NEW i \in 1 .. Len(t), NEW j \in 1 .. Len(t), t[i] = t[j] PROVE i = j
  <2>1. CASE i = 1 \/ j = 1
    BY <1>1, <1>2, <1>3, <2>1
  <2>2. CASE i # 1 /\ j # 1
    <3>1. s[i - 1] = s[j - 1] /\ i - 1 \in 1 .. Len(s) /\ j - 1 \in 1 .. Len(s)
      BY <1>1, <1>3, <2>2
    <3>2. i - 1 = j - 1
      BY <3>1 DEF IsStack
    <3> QED
      BY <3>2, SMT
  <2> QED
    BY <2>1, <2>2
<1>4. IsStack(t)
  BY <1>1, <1>3 DEF IsStack
<1>5. \A x \in Elems(t) : x \in Elems(s) \cup {co}
  BY <1>1, SMT DEF Elems
<1>6. \A x \in Elems(s) : x \in Elems(t)
  BY <1>1, SMT DEF Elems
<1>7. co \in Elems(t)
  <2>1. 1 \in 1 .. Len(t)
    BY <1>1, SMT
  <2> QED
    BY <1>1, <2>1 DEF Elems
<1> QED
  BY <1>4, <1>5, <1>6, <1>7 DEF t

LEMMA EmptyStack == IsStack(<<>>) /\ Elems(<<>>) = {}
BY SMT DEF IsStack, Elems

(* The waiters of one descriptor are resumed: there is at most one.        *)
LEMMA ResumeNone ==
  ASSUME NEW q \in Injection(1 .. Cardinality({}), {})
  PROVE  q = <<>>
<1>1. Cardinality({}) = 0
  BY FS_EmptySet
<1> QED
  BY <1>1, SMT DEF Injection

LEMMA ResumeOne ==
  ASSUME NEW co, NEW q \in Injection(1 .. Cardinality({co}), {co})
  PROVE  q = <<co>>
<1>1. Cardinality({co}) = 1
  BY FS_Singleton
<1> QED
  BY <1>1, SMT DEF Injection

-----------------------------------------------------------------------------
(* Descriptors: the owner's, a new one, and the tables that name them.     *)
LEMMA FdOfOwner ==
  ASSUME Descriptors, NEW co \in Coroutines, Owns(co)
  PROVE  /\ FdOf(Object(co)) \in DOMAIN open /\ open[FdOf(Object(co))] = Object(co)
         /\ \A fd \in DOMAIN open : open[fd].of = co => fd = FdOf(Object(co))
<1>1. \E fd \in DOMAIN open : open[fd] = Object(co)
  BY SMT DEF Descriptors
<1>2. FdOf(Object(co)) \in DOMAIN open /\ open[FdOf(Object(co))] = Object(co)
  BY <1>1 DEF FdOf
<1>3. open[FdOf(Object(co))].of = co
  BY <1>2, Objects
<1> QED
  BY <1>2, <1>3 DEF Descriptors

LEMMA NewFdIsFree ==
  ASSUME Free # {}
  PROVE  NewFd \in 1 .. MaxFds /\ NewFd \notin DOMAIN open
<1> DEFINE Less == {ss \in Nat \X Nat : ss[1] < ss[2]}
<1>1. IsWellFoundedOn(Less, Nat)
  BY NatLessThanWellFounded DEF OpToRel
<1>2. Free \subseteq Nat
  BY ReactorAssumption, SMT DEF Free
<1>3. \E m \in Free : \A n \in Free : ~(<<n, m>> \in Less)
  <2> HIDE DEF Less
  <2> QED
    BY <1>1, <1>2, WFMin
<1>4. ASSUME NEW a \in Nat, NEW b \in Nat, ~(<<a, b>> \in Less)
      PROVE  b <= a
  BY <1>4, SMT
<1> HIDE DEF Less
<1>5. \E m \in Free : \A n \in Free : m <= n
  BY <1>2, <1>3, <1>4
<1>6. NewFd \in Free
  BY <1>5 DEF NewFd, Min
<1> QED
  BY <1>6 DEF Free

LEMMA Tables ==
  ASSUME NEW f, NEW k, NEW v
  PROVE  /\ DOMAIN Put(f, k, v) = DOMAIN f \cup {k}
         /\ \A i \in DOMAIN f \cup {k} : Put(f, k, v)[i] = IF i = k THEN v ELSE f[i]
         /\ DOMAIN Drop(f, k) = DOMAIN f \ {k}
         /\ \A i \in DOMAIN f \ {k} : Drop(f, k)[i] = f[i]
BY DEF Put, Drop

(* add_waiter on a descriptor nobody waits for only fails for want of      *)
(* memory.                                                                 *)
LEMMA AddWaiterDone ==
  ASSUME Waiters, NEW co, NEW fd, fd \notin DOMAIN fds_, NEW edge \in {"IN", "OUT"}, NEW at,
         AddWaiter(co, fd, edge, at), "epoll" \notin failed'
  PROVE  /\ fds_' = Put(fds_, fd, IF edge = "IN" THEN Reading(co) ELSE Writing(co))
         /\ epoll' = Put(epoll, fd, {edge})
         /\ Suspend(co, at)
<1>1. fd \notin DOMAIN epoll
  BY DEF Waiters
<1>2. [rd |-> {}, wr |-> {}, mask |-> {}].mask = {}
  BY SMT
<1>3. /\ fds_' = Put(fds_, fd, [rd |-> IF edge = "IN" THEN {} \cup {co} ELSE {},
                               wr |-> IF edge = "OUT" THEN {} \cup {co} ELSE {},
                               mask |-> {} \cup {edge}])
      /\ epoll' = Put(epoll, fd, {} \cup {edge}) /\ Suspend(co, at)
  BY <1>1, <1>2, SMT DEF AddWaiter
<1>4. {} \cup {edge} = {edge} /\ {} \cup {co} = {co}
  OBVIOUS
<1>5. CASE edge = "IN"
  BY <1>3, <1>4, <1>5, SMT DEF Reading
<1>6. CASE edge = "OUT"
  BY <1>3, <1>4, <1>6, SMT DEF Writing
<1> QED
  BY <1>5, <1>6

(* Who runs is on the stack and waits for nothing.                         *)
LEMMA RunningFacts ==
  ASSUME Inv, NEW co, Running(co)
  PROVE  /\ co \in Coroutines /\ co \in OnStack /\ co \in Live
         /\ IsStack(Tail(stack)) /\ Elems(Tail(stack)) = OnStack \ {co}
         /\ Owns(co) => FdOf(Object(co)) \notin DOMAIN fds_
<1>1. stack # <<>> /\ co = Head(stack) /\ IsStack(stack)
  BY DEF Running, Inv
<1>2. /\ co \in Coroutines /\ co \in OnStack
      /\ IsStack(Tail(stack)) /\ Elems(Tail(stack)) = OnStack \ {co}
  BY <1>1, Pop DEF OnStack
<1>3. co \in Live
  BY <1>2 DEF Inv, Counted
<1>4. ASSUME Owns(co) PROVE FdOf(Object(co)) \notin DOMAIN fds_
  <2>1. open[FdOf(Object(co))].of = co
    BY <1>2, <1>4, FdOfOwner, Objects DEF Inv
  <2> QED
    BY <1>2, <2>1 DEF Inv, Waiters
<1> QED
  BY <1>2, <1>3, <1>4

-----------------------------------------------------------------------------
LEMMA InitInv == Init => Inv
<1> SUFFICES ASSUME Init PROVE Inv
  OBVIOUS
<1>1. /\ DOMAIN pc = Coroutines /\ pc[Beater] = "send" /\ pc[Acceptor] = "accept"
      /\ \A c \in Conns : pc[Handler(c)] = "none" /\ pc[Poller(c)] = "none"
  BY Kinds DEF Init
<1>2. IsStack(stack) /\ OnStack = {Beater, Acceptor}
  <2>1. stack = <<Beater>> \o (<<Acceptor>> \o <<>>)
    BY SMT DEF Init
  <2>2. IsStack(<<Acceptor>> \o <<>>) /\ Elems(<<Acceptor>> \o <<>>) = {} \cup {Acceptor}
    BY EmptyStack, Push, Kinds
  <2> DEFINE below == <<Acceptor>> \o <<>>
  <2>3. Beater \notin Elems(below) /\ IsStack(below) /\ Elems(below) = {Acceptor}
    BY <2>2, Kinds
  <2> HIDE DEF below
  <2>4. IsStack(<<Beater>> \o below) /\ Elems(<<Beater>> \o below) = {Acceptor} \cup {Beater}
    BY <2>3, Push, Kinds
  <2> QED
    BY <2>1, <2>4 DEF OnStack, below
<1>3. Places /\ Held
  BY <1>1 DEF Places, Held, Holds
<1>4. Clients
  BY <1>1 DEF Init, Clients
<1>5. /\ open = [fd \in {1} |-> Socket(Acceptor)] /\ fds_ = [fd \in {} |-> 0]
      /\ epoll = [fd \in {} |-> {}] /\ events = {}
  BY DEF Init
<1>6. Descriptors
  <2>1. \A co \in Coroutines : Owns(co) <=> co = Acceptor
    BY <1>1, Kinds DEF Owns
  <2>2. DOMAIN open = {1} /\ open[1] = Socket(Acceptor) /\ 1 \in 1 .. MaxFds
    BY <1>5, ReactorAssumption, SMT
  <2> QED
    BY <2>1, <2>2, Kinds, Objects DEF Descriptors
<1>7. Waiters /\ Batch
  BY <1>5 DEF Waiters, Batch
<1>8. Live = {Acceptor, Beater}
  BY <1>1, Kinds, SMT DEF Live
<1>9. IsFiniteSet(Live) /\ Cardinality(Live) = 2
  <2>1. IsFiniteSet({Acceptor}) /\ Cardinality({Acceptor}) = 1
    BY FS_Singleton
  <2>2. {Acceptor, Beater} = {Acceptor} \cup {Beater} /\ Beater \notin {Acceptor}
    BY Kinds
  <2> QED
    BY <1>8, <2>1, <2>2, FS_AddElement, SMT
<1>10. Counted
  BY <1>2, <1>8, <1>9 DEF Counted, Init
<1> QED
  BY <1>2, <1>3, <1>4, <1>6, <1>7, <1>10 DEF Inv

(* Steps of the world, which change neither the thread nor its tables.     *)
LEMMA WorldInv ==
  ASSUME Inv, UNCHANGED <<open, epoll, events, fds_, active_tasks_, stack, pc>>, Clients'
  PROVE  Inv'
<1>1. Live' = Live /\ OnStack' = OnStack
  BY DEF Live, OnStack
<1>2. Descriptors' /\ Waiters' /\ Batch'
  BY <1>1 DEF Inv, Descriptors, Owns, Waiters, Batch
<1>3. IsStack(stack)' /\ Places' /\ Held' /\ Counted'
  BY <1>1 DEF Inv, IsStack, Places, Held, Holds, Counted
<1> QED
  BY <1>2, <1>3 DEF Inv

LEMMA EpollWaitInv ==
  ASSUME Inv, EpollWait
  PROVE  Inv'
<1>1. /\ events = {} /\ UNCHANGED <<open, epoll, fds_, active_tasks_, stack, pc, client>>
      /\ \E batch \in SUBSET DOMAIN epoll :
           events' = {[fd |-> fd, flags |-> Flags(fd), object |-> open[fd]] : fd \in batch}
  BY DEF EpollWait, kernel
<1>2. Batch'
  BY <1>1, SMT DEF Inv, Waiters, Batch
<1>3. Live' = Live /\ OnStack' = OnStack
  BY <1>1 DEF Live, OnStack
<1>4. Descriptors' /\ Waiters' /\ Clients'
  BY <1>1, <1>3 DEF Inv, Descriptors, Owns, Waiters, Clients
<1>5. IsStack(stack)' /\ Places' /\ Held' /\ Counted'
  BY <1>1, <1>3 DEF Inv, IsStack, Places, Held, Holds, Counted
<1> QED
  BY <1>2, <1>4, <1>5 DEF Inv

-----------------------------------------------------------------------------
(* The ways a step moves one coroutine.  A handler goes on to another      *)
(* place.                                                                  *)
LEMMA Going ==
  ASSUME Inv, NEW c \in Conns, Running(Handler(c)), NEW at, GoTo(Handler(c), at),
         \/ pc[Handler(c)] = "read" /\ at \in {"read", "await", "retrieve", "close"}
         \/ pc[Handler(c)] \in {"await", "retrieve", "relay", "send"} /\ at \in {"relay", "send", "close"},
         pc[Handler(c)] \in {"await", "retrieve"} => pc[Poller(c)] = "none",
         UNCHANGED <<open, epoll, events, fds_>>, Clients'
  PROVE  Inv' /\ (GoesOn => GoesOn')
<1> DEFINE h == Handler(c)
<1>1. /\ DOMAIN pc = Coroutines /\ h \in Coroutines /\ h \in OnStack /\ h \in Live
  BY RunningFacts DEF Inv, Places
<1>2. /\ DOMAIN pc' = Coroutines /\ pc'[h] = at
      /\ \A co \in Coroutines : co # h => pc'[co] = pc[co]
      /\ stack' = stack /\ active_tasks_' = active_tasks_
  BY <1>1 DEF GoTo
<1>3. OnStack' = OnStack /\ IsStack(stack)'
  BY <1>2 DEF OnStack, Inv, IsStack
<1>4. Live' = Live
  BY <1>1, <1>2 DEF Live
<1>5. \A co \in Coroutines : Owns(co)' = Owns(co)
  BY <1>1, <1>2, Kinds DEF Owns
<1>6. Places'
  BY <1>2, Kinds DEF Inv, Places
<1>7. /\ \A d \in Conns : pc'[Poller(d)] = pc[Poller(d)] /\ (Holds(d)' <=> Holds(d))
      /\ \A d \in Conns : d # c => pc'[Handler(d)] = pc[Handler(d)]
  BY <1>2, Kinds DEF Holds
<1>8. Held'
  <2>1. ~Holds(c)
    BY <1>1 DEF Inv, Held
  <2>2. pc[h] = "read" => pc[Poller(c)] = "none"
    BY DEF Inv, Held
  <2> QED
    BY <1>1, <1>2, <1>3, <1>7, <2>1, <2>2 DEF Inv, Held
<1>9. Descriptors'
  BY <1>2, <1>5 DEF Inv, Descriptors
<1>10. Waiters'
  <2>1. \A fd \in DOMAIN fds_ : open[fd].of # h /\ open[fd].of \in Coroutines
    BY <1>1 DEF Inv, Waiters, Descriptors
  <2> QED
    BY <1>2, <1>3, <2>1 DEF Inv, Waiters
<1>11. Batch' /\ Counted'
  BY <1>2, <1>3, <1>4 DEF Inv, Batch, Counted
<1>12. GoesOn => GoesOn'
  BY <1>3, <1>4, <1>7 DEF GoesOn, Waits
<1> QED
  BY <1>3, <1>6, <1>8, <1>9, <1>10, <1>11, <1>12 DEF Inv

(* Whoever waits on a descriptor it has leaves the thread where it is.     *)
LEMMA Waiting ==
  ASSUME Inv, NEW co, Running(co), NEW edge \in {"IN", "OUT"}, Owns(co),
         edge = "IN" => pc[co] \in {"read", "accept"}, edge = "OUT" => pc[co] = "send",
         AddWaiter(co, FdOf(Object(co)), edge, pc[co]), "epoll" \notin failed',
         \A c \in Conns : ~(co = Handler(c) /\ pc[co] \in {"await", "retrieve"}),
         UNCHANGED <<open, events, client>>
  PROVE  Inv' /\ (GoesOn => GoesOn')
<1> DEFINE fd == FdOf(Object(co))
<1>1. /\ co \in Coroutines /\ co \in OnStack /\ co \in Live
      /\ IsStack(Tail(stack)) /\ Elems(Tail(stack)) = OnStack \ {co} /\ fd \notin DOMAIN fds_
  BY RunningFacts
<1>2. /\ fd \in DOMAIN open /\ open[fd] = Object(co) /\ open[fd].of = co
      /\ \A g \in DOMAIN open : open[g].of = co => g = fd
  BY <1>1, FdOfOwner, Objects DEF Inv
<1>3. /\ fds_' = Put(fds_, fd, IF edge = "IN" THEN Reading(co) ELSE Writing(co))
      /\ epoll' = Put(epoll, fd, {edge}) /\ Suspend(co, pc[co])
  BY <1>1, AddWaiterDone DEF Inv
<1> HIDE DEF fd
<1> DEFINE w == IF edge = "IN" THEN Reading(co) ELSE Writing(co)
<1>4. /\ DOMAIN fds_' = DOMAIN fds_ \cup {fd} /\ DOMAIN epoll' = DOMAIN epoll \cup {fd}
      /\ \A g \in DOMAIN fds_ : g # fd => fds_'[g] = fds_[g]
      /\ \A g \in DOMAIN epoll : g # fd => epoll'[g] = epoll[g]
      /\ fds_'[fd] = w /\ epoll'[fd] = {edge}
  <2> HIDE DEF w
  <2>1. fds_' = Put(fds_, fd, w) /\ epoll' = Put(epoll, fd, {edge})
    BY <1>3 DEF w
  <2> QED
    BY <2>1 DEF Put
<1>5. DOMAIN pc' = Coroutines /\ \A x \in Coroutines : pc'[x] = pc[x]
  BY <1>1, <1>3 DEF Suspend, Inv, Places
<1>6. stack' = Tail(stack) /\ active_tasks_' = active_tasks_
  BY <1>3 DEF Suspend
<1>7. OnStack' = OnStack \ {co} /\ IsStack(stack)'
  BY <1>1, <1>6 DEF OnStack
<1>8. Live' = Live /\ \A c \in Conns : Holds(c)' <=> Holds(c)
  BY <1>5, Kinds DEF Live, Holds
<1>9. Places' /\ Clients' /\ Descriptors'
  BY <1>5, Kinds, SMT DEF Inv, Places, Clients, Descriptors, Owns
<1>10. Held'
  BY <1>5, <1>7, <1>8, Kinds DEF Inv, Held
<1>11. Waiters'
  <2>1. DOMAIN epoll' = DOMAIN fds_' /\ DOMAIN fds_' \subseteq DOMAIN open'
    BY <1>2, <1>4 DEF Inv, Waiters
  <2>2. ASSUME NEW g \in DOMAIN fds_, g # fd
        PROVE  /\ epoll'[g] = fds_'[g].mask /\ open'[g].of \notin OnStack'
               /\ \/ fds_'[g] = Reading(open'[g].of) /\ pc'[open'[g].of] \in {"read", "accept", "slept"}
                  \/ fds_'[g] = Writing(open'[g].of) /\ pc'[open'[g].of] = "send"
    BY <1>4, <1>5, <1>7, <2>2 DEF Inv, Waiters, Descriptors
  <2>3. /\ epoll'[fd] = fds_'[fd].mask /\ open'[fd].of \notin OnStack'
        /\ \/ fds_'[fd] = Reading(open'[fd].of) /\ pc'[open'[fd].of] \in {"read", "accept", "slept"}
           \/ fds_'[fd] = Writing(open'[fd].of) /\ pc'[open'[fd].of] = "send"
    BY <1>1, <1>2, <1>4, <1>5, <1>7, SMT DEF Reading, Writing
  <2> QED
    BY <1>4, <2>1, <2>2, <2>3 DEF Waiters
<1>12. Batch' /\ Counted'
  BY <1>4, <1>6, <1>7, <1>8 DEF Inv, Batch, Counted
<1>13. ASSUME GoesOn PROVE GoesOn'
  <2>1. Waits(co)' /\ \A x \in Coroutines : Waits(x) => Waits(x)'
    BY <1>2, <1>4 DEF Waits
  <2>2. Live \subseteq Coroutines
    BY DEF Live
  <2> QED
    BY <1>7, <1>8, <1>13, <2>1, <2>2 DEF GoesOn
<1> QED
  BY <1>7, <1>9, <1>10, <1>11, <1>12, <1>13 DEF Inv

(* A coroutine that sleeps gets a timer of its own, and waits for it.      *)
LEMMA Sleeping ==
  ASSUME Inv, NEW co, Running(co), Free # {}, SleepFor(co), UNCHANGED <<events, client>>,
         "epoll" \notin failed',
         \/ co = Beater /\ pc[co] = "send"
         \/ \E c \in Conns : co = Poller(c) /\ pc[co] = "poll"
  PROVE  Inv' /\ (GoesOn => GoesOn')
<1>0. PICK fd : fd = NewFd
  OBVIOUS
<1>1. /\ co \in Coroutines /\ co \in OnStack /\ co \in Live
      /\ IsStack(Tail(stack)) /\ Elems(Tail(stack)) = OnStack \ {co}
  BY RunningFacts
<1>2. fd \in 1 .. MaxFds /\ fd \notin DOMAIN open /\ fd \notin DOMAIN fds_ /\ fd \notin DOMAIN epoll
  BY <1>0, NewFdIsFree DEF Inv, Waiters
<1>3. open' = Put(open, fd, Timer(co)) /\ AddWaiter(co, fd, "IN", "slept")
  BY <1>0 DEF SleepFor
<1>4. /\ fds_' = Put(fds_, fd, Reading(co)) /\ epoll' = Put(epoll, fd, {"IN"})
      /\ Suspend(co, "slept")
  BY <1>2, <1>3, AddWaiterDone DEF Inv
<1>5. /\ DOMAIN fds_' = DOMAIN fds_ \cup {fd} /\ DOMAIN epoll' = DOMAIN epoll \cup {fd}
      /\ \A g \in DOMAIN fds_ : fds_'[g] = fds_[g]
      /\ \A g \in DOMAIN epoll : epoll'[g] = epoll[g]
      /\ fds_'[fd] = Reading(co) /\ epoll'[fd] = {"IN"}
  BY <1>2, <1>4 DEF Put
<1>6. /\ DOMAIN open' = DOMAIN open \cup {fd} /\ \A g \in DOMAIN open : open'[g] = open[g]
      /\ open'[fd] = Object(co) /\ open'[fd].of = co
  <2>1. Object(co) = Timer(co) /\ Timer(co).of = co
    BY Objects
  <2> QED
    BY <1>2, <1>3, <2>1 DEF Put
<1>7. /\ DOMAIN pc' = Coroutines /\ pc'[co] = "slept"
      /\ \A x \in Coroutines : x # co => pc'[x] = pc[x]
      /\ stack' = Tail(stack) /\ active_tasks_' = active_tasks_
  BY <1>1, <1>4 DEF Suspend, Inv, Places
<1>8. OnStack' = OnStack \ {co} /\ IsStack(stack)'
  BY <1>1, <1>7 DEF OnStack
<1>9. /\ \A c \in Conns : (Holds(c)' <=> Holds(c)) /\ pc'[Handler(c)] = pc[Handler(c)]
      /\ \A c \in Conns : pc[Poller(c)] = "none" => pc'[Poller(c)] = "none"
  BY <1>7, Kinds DEF Holds
<1>10. Live' = Live
  BY <1>1, <1>7 DEF Live
<1>11. Places' /\ Clients'
  BY <1>7, <1>9, Kinds, SMT DEF Inv, Places, Clients
<1>12. Held'
  BY <1>8, <1>9 DEF Inv, Held
<1>13. ~Owns(co) /\ Owns(co)' /\ \A x \in Coroutines : x # co => (Owns(x)' <=> Owns(x))
  BY <1>7, Kinds DEF Owns
<1>14. Descriptors'
  <2>1. DOMAIN open' \subseteq 1 .. MaxFds
    BY <1>2, <1>6 DEF Inv, Descriptors
  <2>2. \A g \in DOMAIN open : open[g].of # co /\ open[g].of \in Coroutines
    BY <1>13, SMT DEF Inv, Descriptors
  <2>3. \A g \in DOMAIN open' : /\ open'[g].of \in Coroutines /\ Owns(open[g].of)'
                                /\ open'[g] = Object(open'[g].of)
    <3>1. ASSUME NEW g \in DOMAIN open
          PROVE  /\ open'[g].of \in Coroutines /\ Owns(open[g].of)'
                 /\ open'[g] = Object(open'[g].of)
      <4>1. open'[g] = open[g] /\ open[g].of \in Coroutines /\ open[g].of # co /\ Owns(open[g].of)
        BY <1>6, <2>2 DEF Inv, Descriptors
      <4>2. Owns(open[g].of)'
        BY <1>7, <4>1, Kinds DEF Owns
      <4> QED
        BY <4>1, <4>2 DEF Inv, Descriptors
    <3>2. Owns(open[fd].of)'
      BY <1>6, <1>7 DEF Owns
    <3> QED
      BY <1>1, <1>6, <3>1, <3>2
  <2>4. \A x \in Coroutines : Owns(x)' => \E g \in DOMAIN open' : open'[g].of = x
    BY <1>6, <1>13, SMT DEF Inv, Descriptors
  <2>5. \A a, b \in DOMAIN open' : open'[a].of = open'[b].of => a = b
    BY <1>6, <2>2, SMT DEF Inv, Descriptors
  <2> QED
    BY <2>1, <2>3, <2>4, <2>5 DEF Descriptors
<1>15. Waiters'
  <2>1. DOMAIN epoll' = DOMAIN fds_' /\ DOMAIN fds_' \subseteq DOMAIN open'
    BY <1>5, <1>6 DEF Inv, Waiters
  <2>2. ASSUME NEW g \in DOMAIN fds_
        PROVE  /\ epoll'[g] = fds_'[g].mask /\ open'[g].of \notin OnStack'
               /\ \/ fds_'[g] = Reading(open'[g].of) /\ pc'[open'[g].of] \in {"read", "accept", "slept"}
                  \/ fds_'[g] = Writing(open'[g].of) /\ pc'[open'[g].of] = "send"
    <3>1. g \in DOMAIN open /\ g \in DOMAIN epoll /\ open[g].of \notin OnStack
      BY DEF Inv, Waiters
    <3>2. open[g].of # co /\ open[g].of \in Coroutines
      BY <1>1, <3>1 DEF Inv, Descriptors
    <3> QED
      BY <1>5, <1>6, <1>7, <1>8, <3>1, <3>2, SMT DEF Inv, Waiters
  <2>3. /\ epoll'[fd] = fds_'[fd].mask /\ open'[fd].of \notin OnStack'
        /\ fds_'[fd] = Reading(open'[fd].of) /\ pc'[open'[fd].of] = "slept"
    BY <1>5, <1>6, <1>7, <1>8, SMT DEF Reading
  <2> QED
    BY <1>5, <2>1, <2>2, <2>3 DEF Waiters
<1>16. Batch'
  BY <1>5, <1>6, SMT DEF Inv, Batch, Waiters
<1>17. Counted'
  BY <1>7, <1>8, <1>10 DEF Inv, Counted
<1>18. ASSUME GoesOn PROVE GoesOn'
  <2>1. Waits(co)' /\ \A x \in Coroutines : Waits(x) => Waits(x)'
    BY <1>5, <1>6 DEF Waits, Inv, Waiters
  <2>2. Live \subseteq Coroutines
    BY DEF Live
  <2> QED
    BY <1>8, <1>9, <1>10, <1>18, <2>1, <2>2 DEF GoesOn
<1> QED
  BY <1>8, <1>11, <1>12, <1>14, <1>15, <1>16, <1>17, <1>18 DEF Inv

(* A coroutine that ends is counted no more.                               *)
LEMMA Finishing ==
  ASSUME Inv, NEW co, Running(co), Finish(co)
  PROVE  /\ IsStack(stack)' /\ OnStack' = OnStack \ {co}
         /\ DOMAIN pc' = Coroutines /\ pc'[co] = "ended"
         /\ \A x \in Coroutines : x # co => pc'[x] = pc[x]
         /\ Live' = Live \ {co} /\ Counted'
<1>1. /\ co \in Coroutines /\ co \in OnStack /\ co \in Live
      /\ IsStack(Tail(stack)) /\ Elems(Tail(stack)) = OnStack \ {co}
  BY RunningFacts
<1>2. /\ DOMAIN pc' = Coroutines /\ pc'[co] = "ended"
      /\ \A x \in Coroutines : x # co => pc'[x] = pc[x]
      /\ stack' = Tail(stack) /\ active_tasks_' = active_tasks_ - 1
  BY <1>1 DEF Finish, Inv, Places
<1>3. OnStack' = OnStack \ {co} /\ IsStack(stack)'
  BY <1>1, <1>2 DEF OnStack
<1>4. Live' = Live \ {co}
  BY <1>1, <1>2 DEF Live
<1>5. IsFiniteSet(Live \ {co}) /\ Cardinality(Live \ {co}) = Cardinality(Live) - 1
  BY <1>1, FS_RemoveElement DEF Inv, Counted
<1>6. Counted'
  BY <1>2, <1>3, <1>4, <1>5 DEF Inv, Counted
<1> QED
  BY <1>2, <1>3, <1>4, <1>6

(* The places of the others, when one coroutine ends.                      *)
LEMMA FinishingPlaces ==
  ASSUME Inv, NEW co \in Coroutines, co # Acceptor, pc[co] \notin {"none", "read", "await", "retrieve"},
         DOMAIN pc' = Coroutines, pc'[co] = "ended",
         \A x \in Coroutines : x # co => pc'[x] = pc[x],
         OnStack' = OnStack \ {co}, UNCHANGED client
  PROVE  Places' /\ Held' /\ Clients'
<1>1. \A c \in Conns : /\ pc'[Handler(c)] = IF co = Handler(c) THEN "ended" ELSE pc[Handler(c)]
                       /\ pc'[Poller(c)] = IF co = Poller(c) THEN "ended" ELSE pc[Poller(c)]
  BY Kinds
<1>2. Places'
  BY <1>1, Kinds DEF Inv, Places
<1>3. Held'
  BY <1>1 DEF Inv, Held, Holds
<1>4. Clients'
  BY <1>1 DEF Inv, Clients
<1> QED
  BY <1>2, <1>3, <1>4

(* A coroutine that has no descriptor ends.                                *)
LEMMA Ending ==
  ASSUME Inv, NEW co, Running(co), Finish(co), ~Owns(co), co # Acceptor,
         UNCHANGED <<open, epoll, events, fds_, client>>
  PROVE  Inv' /\ (pc[co] # "poll" => (GoesOn => GoesOn'))
<1>1. co \in Coroutines /\ co \in OnStack /\ co \in Live
  BY RunningFacts
<1>2. /\ IsStack(stack)' /\ OnStack' = OnStack \ {co}
      /\ DOMAIN pc' = Coroutines /\ pc'[co] = "ended"
      /\ \A x \in Coroutines : x # co => pc'[x] = pc[x]
      /\ Live' = Live \ {co} /\ Counted'
  BY Finishing
<1>3. pc[co] \notin {"none", "read", "await", "retrieve", "slept"}
  BY <1>1 DEF Owns, Live
<1>4. Places' /\ Held' /\ Clients'
  BY <1>1, <1>2, <1>3, FinishingPlaces
<1>5. /\ ~Owns(co)' /\ \A x \in Coroutines : x # co => (Owns(x)' <=> Owns(x))
      /\ \A fd \in DOMAIN open : open[fd].of # co /\ open[fd].of \in Coroutines
  BY <1>2 DEF Owns, Inv, Descriptors
<1>6. Descriptors'
  <2>1. \A fd \in DOMAIN open : Owns(open[fd].of)'
    BY <1>2, <1>5 DEF Inv, Descriptors, Owns
  <2> QED
    BY <1>5, <2>1 DEF Inv, Descriptors
<1>7. Waiters'
  BY <1>2, <1>5 DEF Inv, Waiters
<1>8. Batch'
  BY DEF Inv, Batch
<1>9. ASSUME GoesOn, pc[co] # "poll" PROVE GoesOn'
  <2>1. \A c \in Conns : Holds(c) => Holds(c)'
    BY <1>2, <1>3, <1>9, Kinds DEF Holds
  <2>2. \A x \in Coroutines : Waits(x)' <=> Waits(x)
    BY DEF Waits
  <2> QED
    BY <1>2, <1>9, <2>1, <2>2 DEF GoesOn, Live
<1> QED
  BY <1>2, <1>4, <1>6, <1>7, <1>8, <1>9 DEF Inv

(* Who runs closes its descriptor: nobody waits for it, so that the kernel *)
(* forgets nothing that fds_ still holds.                                  *)
LEMMA Closing ==
  ASSUME Inv, NEW co, Running(co), Owns(co), Close(FdOf(Object(co))),
         \A x \in Coroutines : x # co => pc'[x] = pc[x], ~Owns(co)',
         OnStack' \subseteq OnStack, UNCHANGED <<fds_, events>>
  PROVE  /\ Descriptors' /\ Waiters' /\ Batch'
         /\ \A x \in Coroutines : Waits(x) => Waits(x)'
<1>0. PICK fd : fd = FdOf(Object(co))
  OBVIOUS
<1>1. co \in Coroutines /\ co \in OnStack /\ fd \notin DOMAIN fds_ /\ fd \notin DOMAIN epoll
  BY <1>0, RunningFacts DEF Inv, Waiters
<1>2. /\ fd \in DOMAIN open /\ open[fd].of = co
      /\ \A g \in DOMAIN open : open[g].of = co => g = fd
  BY <1>0, <1>1, FdOfOwner, Objects DEF Inv
<1>3. /\ DOMAIN open' = DOMAIN open \ {fd} /\ DOMAIN epoll' = DOMAIN epoll
      /\ \A g \in DOMAIN open : g # fd => open'[g] = open[g]
      /\ \A g \in DOMAIN epoll : epoll'[g] = epoll[g]
  BY <1>0, <1>1 DEF Close, Drop
<1>4. ASSUME NEW g \in DOMAIN open, g # fd
      PROVE  open'[g] = open[g] /\ open[g].of \in Coroutines /\ open[g].of # co /\ Owns(open[g].of)'
  <2>1. open'[g] = open[g] /\ open[g].of \in Coroutines /\ open[g].of # co /\ Owns(open[g].of)
    BY <1>2, <1>3, <1>4 DEF Inv, Descriptors
  <2> QED
    BY <2>1 DEF Owns
<1>5. Descriptors'
  <2>1. \A g \in DOMAIN open' : /\ open'[g].of \in Coroutines /\ Owns(open[g].of)'
                                /\ open'[g] = Object(open'[g].of)
    BY <1>3, <1>4 DEF Inv, Descriptors
  <2>2. \A x \in Coroutines : Owns(x)' => x # co /\ Owns(x)
    BY SMT DEF Owns
  <2>3. \A x \in Coroutines : Owns(x)' => \E g \in DOMAIN open' : open'[g].of = x
    BY <1>2, <1>3, <2>2, SMT DEF Inv, Descriptors
  <2>4. \A a, b \in DOMAIN open' : open'[a].of = open'[b].of => a = b
    BY <1>3 DEF Inv, Descriptors
  <2> QED
    BY <1>3, <2>1, <2>3, <2>4 DEF Inv, Descriptors
<1>6. \A g \in DOMAIN fds_ : g \in DOMAIN open /\ g # fd /\ g \in DOMAIN epoll
  BY <1>1 DEF Inv, Waiters
<1>7. Waiters'
  BY <1>3, <1>4, <1>6, SMT DEF Inv, Waiters
<1>8. Batch'
  BY <1>3, <1>6 DEF Inv, Batch
<1>9. \A x \in Coroutines : Waits(x) => Waits(x)'
  BY <1>3, <1>6 DEF Waits
<1> QED
  BY <1>5, <1>7, <1>8, <1>9

LEMMA WakeInv ==
  ASSUME Inv, NEW co, NEW at, Wake(co, at),
         \/ co = Beater /\ at = "send"
         \/ \E c \in Conns : co = Poller(c) /\ at = "poll"
  PROVE  Inv' /\ (GoesOn => GoesOn')
<1>1. /\ co \in Coroutines /\ co \in OnStack /\ co \in Live /\ DOMAIN pc = Coroutines
  BY RunningFacts DEF Wake, Inv, Places
<1>2. /\ Running(co) /\ pc[co] = "slept" /\ Close(FdOf(Object(co)))
      /\ DOMAIN pc' = Coroutines /\ pc'[co] = at
      /\ \A x \in Coroutines : x # co => pc'[x] = pc[x]
      /\ UNCHANGED <<stack, active_tasks_, events, fds_, client>>
  BY <1>1, Objects DEF Wake, GoTo
<1>3. Owns(co) /\ ~Owns(co)'
  BY <1>2, Kinds DEF Owns
<1>4. OnStack' = OnStack /\ IsStack(stack)'
  BY <1>2 DEF OnStack, Inv
<1>5. /\ Descriptors' /\ Waiters' /\ Batch'
      /\ \A x \in Coroutines : Waits(x) => Waits(x)'
  BY <1>2, <1>3, <1>4, Closing
<1>6. Live' = Live
  BY <1>1, <1>2 DEF Live
<1>7. /\ \A c \in Conns : (Holds(c)' <=> Holds(c)) /\ pc'[Handler(c)] = pc[Handler(c)]
      /\ \A c \in Conns : pc[Poller(c)] = "none" => pc'[Poller(c)] = "none"
  BY <1>2, Kinds DEF Holds
<1>8. Places' /\ Clients'
  BY <1>2, <1>7, Kinds, SMT DEF Inv, Places, Clients
<1>9. Held' /\ Counted'
  BY <1>2, <1>4, <1>6, <1>7 DEF Inv, Held, Counted
<1>10. ASSUME GoesOn PROVE GoesOn'
  BY <1>4, <1>5, <1>6, <1>7, <1>10 DEF GoesOn, Live
<1> QED
  BY <1>4, <1>5, <1>8, <1>9, <1>10 DEF Inv

LEMMA CloseConnectionInv ==
  ASSUME Inv, NEW c \in Conns, CloseConnection(c)
  PROVE  Inv' /\ (GoesOn => GoesOn')
<1> DEFINE h == Handler(c)
<1>1. /\ Running(h) /\ pc[h] = "close" /\ Close(FdOf(Object(h))) /\ Finish(h)
      /\ UNCHANGED <<events, fds_, client>>
  BY Objects DEF CloseConnection
<1>2. h \in Coroutines /\ h # Acceptor
  BY Kinds
<1>3. /\ IsStack(stack)' /\ OnStack' = OnStack \ {h}
      /\ DOMAIN pc' = Coroutines /\ pc'[h] = "ended"
      /\ \A x \in Coroutines : x # h => pc'[x] = pc[x]
      /\ Live' = Live \ {h} /\ Counted'
  BY <1>1, Finishing
<1>4. Owns(h) /\ ~Owns(h)'
  BY <1>1, <1>3 DEF Owns
<1>5. /\ Descriptors' /\ Waiters' /\ Batch'
      /\ \A x \in Coroutines : Waits(x) => Waits(x)'
  BY <1>1, <1>3, <1>4, Closing
<1>6. Places' /\ Held' /\ Clients'
  BY <1>1, <1>2, <1>3, FinishingPlaces
<1>7. ASSUME GoesOn PROVE GoesOn'
  <2>1. \A d \in Conns : Holds(d) => Holds(d)'
    BY <1>3, Kinds DEF Holds
  <2> QED
    BY <1>3, <1>5, <1>7, <2>1 DEF GoesOn, Live
<1> QED
  BY <1>3, <1>5, <1>6, <1>7 DEF Inv

(* Reactor::spawn, of a coroutine that has not run, on top of a stack.     *)
LEMMA Spawning ==
  ASSUME Inv, NEW child \in Coroutines, NEW start, NEW below, Spawn(child, start, below),
         pc[child] = "none", start \notin {"none", "ended"},
         IsStack(below), Elems(below) \subseteq OnStack
  PROVE  /\ IsStack(stack)' /\ OnStack' = Elems(below) \cup {child}
         /\ DOMAIN pc' = Coroutines /\ pc'[child] = start
         /\ \A x \in Coroutines : x # child => pc'[x] = pc[x]
         /\ Live' = Live \cup {child} /\ Counted'
<1>1. child \notin Live /\ child \notin Elems(below)
  BY DEF Live, Inv, Counted
<1>2. /\ DOMAIN pc' = Coroutines /\ pc'[child] = start
      /\ \A x \in Coroutines : x # child => pc'[x] = pc[x]
      /\ stack' = <<child>> \o below /\ active_tasks_' = active_tasks_ + 1
  BY DEF Spawn, Inv, Places
<1>3. OnStack' = Elems(below) \cup {child} /\ IsStack(stack)'
  BY <1>1, <1>2, Push DEF OnStack
<1>4. Live' = Live \cup {child}
  BY <1>2 DEF Live
<1>5. IsFiniteSet(Live \cup {child}) /\ Cardinality(Live \cup {child}) = Cardinality(Live) + 1
  BY <1>1, FS_AddElement DEF Inv, Counted
<1>6. Counted'
  BY <1>2, <1>3, <1>4, <1>5 DEF Inv, Counted
<1> QED
  BY <1>2, <1>3, <1>4, <1>6

LEMMA AcceptInv ==
  ASSUME Inv, NEW c \in Conns, Accept(c)
  PROVE  Inv' /\ (GoesOn => GoesOn')
<1> DEFINE h == Handler(c)
<1>0. PICK fd : fd = NewFd
  OBVIOUS
<1>1. /\ h \in Coroutines /\ pc[h] = "none" /\ pc[Poller(c)] = "none"
      /\ client' = [client EXCEPT ![c].at = "connected"] /\ UNCHANGED <<epoll, events, fds_>>
  BY Kinds DEF Accept, Inv, Clients, Held
<1>2. fd \in 1 .. MaxFds /\ fd \notin DOMAIN open /\ fd \notin DOMAIN fds_
  BY <1>0, NewFdIsFree DEF Accept, Inv, Waiters
<1>3. /\ DOMAIN open' = DOMAIN open \cup {fd} /\ \A g \in DOMAIN open : open'[g] = open[g]
      /\ open'[fd] = Object(h) /\ open'[fd].of = h
  <2>1. Object(h) = Socket(h) /\ Socket(h).of = h
    BY Objects
  <2> QED
    BY <1>0, <1>2, <2>1 DEF Accept, Put
<1>4. /\ IsStack(stack)' /\ OnStack' = OnStack \cup {h}
      /\ DOMAIN pc' = Coroutines /\ pc'[h] = "read"
      /\ \A x \in Coroutines : x # h => pc'[x] = pc[x]
      /\ Live' = Live \cup {h} /\ Counted'
  <2>1. Spawn(h, "read", stack) /\ IsStack(stack) /\ Elems(stack) = OnStack
    BY DEF Accept, Inv, OnStack
  <2> QED
    BY <1>1, <2>1, Spawning
<1>5. /\ \A d \in Conns : pc'[Poller(d)] = pc[Poller(d)] /\ (Holds(d)' <=> Holds(d))
      /\ \A d \in Conns : d # c => pc'[Handler(d)] = pc[Handler(d)] /\ Handler(d) # h
  BY <1>4, Kinds DEF Holds
<1>6. Places' /\ Held'
  BY <1>1, <1>4, <1>5, Kinds DEF Inv, Places, Held, Holds
<1>7. Clients'
  <2>1. /\ DOMAIN client' = Conns /\ client'[c].at = "connected"
        /\ DOMAIN client'[c] = DOMAIN client[c] /\ \A d \in Conns : d # c => client'[d] = client[d]
    BY <1>1 DEF Inv, Clients
  <2> QED
    BY <1>5, <2>1 DEF Inv, Clients
<1>8. ~Owns(h) /\ Owns(h)' /\ \A x \in Coroutines : x # h => (Owns(x)' <=> Owns(x))
  BY <1>1, <1>4 DEF Owns
<1>9. \A g \in DOMAIN open : open[g].of # h /\ open[g].of \in Coroutines
  BY <1>8 DEF Inv, Descriptors
<1>10. Descriptors'
  <2>1. ASSUME NEW g \in DOMAIN open'
        PROVE  open'[g].of \in Coroutines /\ Owns(open[g].of)' /\ open'[g] = Object(open'[g].of)
    <3>1. CASE g = fd
      BY <1>1, <1>3, <1>4, <3>1 DEF Owns
    <3>2. CASE g \in DOMAIN open
      <4>1. open'[g] = open[g] /\ Owns(open[g].of) /\ open[g].of \in Coroutines /\ open[g].of # h
        BY <1>3, <1>9, <3>2 DEF Inv, Descriptors
      <4>2. Owns(open[g].of)'
        BY <1>4, <4>1 DEF Owns
      <4> QED
        BY <3>2, <4>1, <4>2 DEF Inv, Descriptors
    <3> QED
      BY <1>3, <3>1, <3>2
  <2>2. \A x \in Coroutines : Owns(x)' => \E g \in DOMAIN open' : open'[g].of = x
    BY <1>3, <1>8, SMT DEF Inv, Descriptors
  <2>3. \A a, b \in DOMAIN open' : open'[a].of = open'[b].of => a = b
    BY <1>3, <1>9 DEF Inv, Descriptors
  <2> QED
    BY <1>2, <1>3, <2>1, <2>2, <2>3 DEF Inv, Descriptors
<1>11. Waiters' /\ Batch'
  <2>1. \A g \in DOMAIN fds_ : g \in DOMAIN open
    BY DEF Inv, Waiters
  <2> QED
    BY <1>1, <1>3, <1>4, <1>9, <2>1, SMT DEF Inv, Waiters, Batch
<1>12. ASSUME GoesOn PROVE GoesOn'
  <2>1. \A x \in Coroutines : Waits(x) => Waits(x)'
    BY <1>1, <1>3 DEF Waits, Inv, Waiters
  <2> QED
    BY <1>4, <1>5, <1>12, <2>1 DEF GoesOn, Live
<1> QED
  BY <1>4, <1>6, <1>7, <1>10, <1>11, <1>12 DEF Inv

LEMMA AwaitFutureInv ==
  ASSUME Inv, NEW c \in Conns, AwaitFuture(c)
  PROVE  Inv' /\ (GoesOn => GoesOn')
<1> DEFINE h == Handler(c)
           p == Poller(c)
<1>1. /\ Running(h) /\ pc[h] \in {"await", "retrieve"} /\ UNCHANGED <<open, epoll, events, fds_, client>>
      /\ h \in Coroutines /\ p \in Coroutines /\ h # p /\ h \in OnStack
      /\ IsStack(Tail(stack)) /\ Elems(Tail(stack)) = OnStack \ {h}
  BY RunningFacts, Kinds DEF AwaitFuture, kernel
<1>2. pc[p] = "none"
  BY <1>1 DEF Inv, Held
<1>3. CASE future[c] = "ready"
  <2>1. PICK at \in {"relay", "send"} : GoTo(h, at)
    BY <1>3 DEF AwaitFuture, Results
  <2>2. DOMAIN pc' = Coroutines /\ pc'[h] = at /\ \A x \in Coroutines : x # h => pc'[x] = pc[x]
    BY <1>1, <2>1 DEF GoTo, Inv, Places
  <2>3. Clients'
    BY <1>1, <2>2, Kinds DEF Inv, Clients
  <2> QED
    BY <1>1, <1>2, <2>1, <2>3, Going
<1>4. CASE future[c] # "ready"
  <2>1. Spawn(p, "poll", Tail(stack))
    BY <1>4 DEF AwaitFuture
  <2>2. /\ IsStack(stack)' /\ OnStack' = (OnStack \ {h}) \cup {p}
        /\ DOMAIN pc' = Coroutines /\ pc'[p] = "poll"
        /\ \A x \in Coroutines : x # p => pc'[x] = pc[x]
        /\ Live' = Live \cup {p} /\ Counted'
    BY <1>1, <1>2, <2>1, Spawning, SMT
  <2>3. /\ \A d \in Conns : pc'[Handler(d)] = pc[Handler(d)] /\ Handler(d) # p
        /\ \A d \in Conns : d # c => pc'[Poller(d)] = pc[Poller(d)] /\ Handler(d) # h
    BY <2>2, Kinds
  <2>4. Places' /\ Clients'
    <3>1. Places'
      BY <2>2, <2>3, Kinds DEF Inv, Places
    <3>2. Clients'
      BY <1>1, <2>3 DEF Inv, Clients
    <3> QED
      BY <3>1, <3>2
  <2>5. Held'
    BY <1>1, <2>2, <2>3 DEF Inv, Held, Holds
  <2>6. /\ \A x \in Coroutines : Owns(x)' <=> Owns(x)
        /\ \A fd \in DOMAIN open : open[fd].of # p /\ open[fd].of \in Coroutines
    <3>1. ~Owns(p)
      BY <1>2 DEF Owns
    <3>2. ~Owns(p)'
      BY <2>2 DEF Owns
    <3> QED
      BY <2>2, <3>1, <3>2 DEF Owns, Inv, Descriptors
  <2>7. Descriptors'
    <3>1. \A fd \in DOMAIN open : Owns(open[fd].of)'
      BY <1>1, <2>2, <2>6 DEF Inv, Descriptors, Owns
    <3> QED
      BY <1>1, <2>6, <3>1 DEF Inv, Descriptors
  <2>8. Waiters' /\ Batch'
    <3>1. Waiters'
      BY <1>1, <2>2, <2>6 DEF Inv, Waiters
    <3>2. Batch'
      BY <1>1 DEF Inv, Batch
    <3> QED
      BY <3>1, <3>2
  <2>9. ASSUME GoesOn PROVE GoesOn'
    <3>1. Holds(c)' /\ \A d \in Conns : Holds(d) => Holds(d)'
      BY <2>2, <2>3 DEF Holds
    <3>2. \A x : Waits(x)' <=> Waits(x)
      BY <1>1 DEF Waits
    <3> QED
      BY <2>2, <2>9, <3>1, <3>2 DEF GoesOn
  <2> QED
    BY <2>2, <2>4, <2>5, <2>7, <2>8, <2>9 DEF Inv
<1> QED
  BY <1>3, <1>4

(* poll_future_awaiter resumes the handler on top of the poller.           *)
LEMMA ResumeInv ==
  ASSUME Inv, NEW c \in Conns, PollFuture(c), future[c] = "ready"
  PROVE  Inv' /\ (GoesOn => GoesOn')
<1> DEFINE h == Handler(c)
           p == Poller(c)
<1>1. /\ Running(p) /\ pc[p] = "poll" /\ h \in Coroutines /\ p \in Coroutines /\ h # p
      /\ UNCHANGED <<open, epoll, events, fds_, client, active_tasks_>>
      /\ stack' = <<h>> \o stack
      /\ \E at \in {"relay", "send"} : pc' = [pc EXCEPT ![p] = "return", ![h] = at]
  BY Kinds DEF PollFuture, kernel, Results
<1>2. /\ p \in OnStack /\ pc[h] \in {"await", "retrieve"} /\ h \notin OnStack /\ h \in Live /\ p \in Live
  BY <1>1, RunningFacts DEF Inv, Held, Holds, Live
<1>3. /\ DOMAIN pc' = Coroutines /\ pc'[p] = "return" /\ pc'[h] \in {"relay", "send"}
      /\ \A x \in Coroutines : x \notin {h, p} => pc'[x] = pc[x]
  BY <1>1 DEF Inv, Places
<1>4. IsStack(stack)' /\ OnStack' = OnStack \cup {h}
  BY <1>1, <1>2, Push DEF Inv, OnStack
<1>5. Live' = Live
  BY <1>1, <1>2, <1>3 DEF Live
<1>6. \A d \in Conns : d # c => /\ pc'[Poller(d)] = pc[Poller(d)] /\ (Holds(d)' <=> Holds(d))
                                /\ pc'[Handler(d)] = pc[Handler(d)] /\ Handler(d) # h
  BY <1>3, Kinds DEF Holds
<1>7. Places' /\ Clients'
  <2>1. Places'
    BY <1>3, <1>6, Kinds DEF Inv, Places
  <2>2. Clients'
    BY <1>1, <1>2, <1>6 DEF Inv, Clients
  <2> QED
    BY <2>1, <2>2
<1>8. Held'
  BY <1>3, <1>4, <1>6 DEF Inv, Held, Holds
<1>9. /\ \A x \in Coroutines : Owns(x)' <=> Owns(x)
      /\ \A fd \in DOMAIN open : open[fd].of # p /\ open[fd].of \in Coroutines
  <2>1. ~Owns(p) /\ ~Owns(p)' /\ Owns(h) /\ Owns(h)'
    BY <1>1, <1>2, <1>3, Kinds DEF Owns
  <2> QED
    BY <1>3, <2>1 DEF Owns, Inv, Descriptors
<1>10. Descriptors'
  <2>1. \A fd \in DOMAIN open : Owns(open[fd].of)'
    <3> TAKE fd \in DOMAIN open
    <3>1. PICK x \in Coroutines : x = open[fd].of /\ Owns(x)
      BY DEF Inv, Descriptors
    <3>2. Owns(x)'
      BY <1>9, <3>1
    <3> QED
      BY <1>1, <3>1, <3>2 DEF Owns
  <2> QED
    BY <1>1, <1>9, <2>1 DEF Inv, Descriptors
<1>11. Waiters'
  <2>1. \A fd \in DOMAIN fds_ : open[fd].of \in Coroutines \ {h, p}
    BY <1>2, <1>9 DEF Inv, Waiters
  <2> QED
    BY <1>1, <1>3, <1>4, <2>1 DEF Inv, Waiters
<1>12. Batch' /\ Counted'
  BY <1>1, <1>2, <1>4, <1>5 DEF Inv, Batch, Counted
<1>13. ASSUME GoesOn PROVE GoesOn'
  <2>1. \A x : Waits(x)' <=> Waits(x)
    BY <1>1 DEF Waits
  <2> QED
    BY <1>4, <1>5, <1>6, <1>13, <2>1 DEF GoesOn
<1> QED
  BY <1>4, <1>7, <1>8, <1>10, <1>11, <1>12, <1>13 DEF Inv

(* The thread is idle and an event comes: nothing happens when it is not   *)
(* the one its waiter waits for, and otherwise the waiter is resumed.      *)
LEMMA Taking ==
  ASSUME Inv, NEW e \in events, Dispatch(e)
  PROVE  \/ UNCHANGED <<fds_, epoll, stack>>
         \/ fds_' = Drop(fds_, e.fd) /\ epoll' = Drop(epoll, e.fd) /\ stack' = <<open[e.fd].of>>
<1> DEFINE edges == IF "HUP" \in e.flags THEN {"IN", "OUT"} ELSE e.flags
           fd == e.fd
           o == open[fd].of
<1>1. /\ stack = <<>> /\ TakeWaiters(fd, edges) /\ stack' \in Injection(1 .. Cardinality(Taken(fd, edges)), Taken(fd, edges))
      /\ fd \in DOMAIN fds_
      /\ fds_[fd] = Reading(o) \/ fds_[fd] = Writing(o)
  BY DEF Dispatch, Inv, Batch, Waiters
<1> HIDE DEF edges, fd, o
<1>2. /\ Reading(o).rd = {o} /\ Reading(o).wr = {} /\ Reading(o).mask = {"IN"}
      /\ Writing(o).rd = {} /\ Writing(o).wr = {o} /\ Writing(o).mask = {"OUT"}
  BY DEF Reading, Writing
<1>3. CASE /\ ~(fds_[fd] = Reading(o) /\ "IN" \in edges)
           /\ ~(fds_[fd] = Writing(o) /\ "OUT" \in edges)
  <2>1. Taken(fd, edges) = {}
    BY <1>1, <1>2, <1>3 DEF Taken
  <2>2. UNCHANGED <<fds_, epoll>>
    BY <1>1, <1>2, <1>3 DEF TakeWaiters
  <2> QED
    BY <1>1, <2>1, <2>2, ResumeNone
<1>4. CASE fds_[fd] = Reading(o) /\ "IN" \in edges
  <2>1. Taken(fd, edges) = {o}
    BY <1>1, <1>2, <1>4 DEF Taken
  <2>2. fds_' = Drop(fds_, fd) /\ epoll' = Drop(epoll, fd)
    BY <1>1, <1>2, <1>4 DEF TakeWaiters
  <2> QED
    BY <1>1, <2>1, <2>2, ResumeOne DEF fd, o
<1>5. CASE fds_[fd] = Writing(o) /\ "OUT" \in edges
  <2>1. Taken(fd, edges) = {o}
    BY <1>1, <1>2, <1>5 DEF Taken
  <2>2. fds_' = Drop(fds_, fd) /\ epoll' = Drop(epoll, fd)
    BY <1>1, <1>2, <1>5 DEF TakeWaiters
  <2> QED
    BY <1>1, <2>1, <2>2, ResumeOne DEF fd, o
<1> QED
  BY <1>3, <1>4, <1>5

LEMMA DispatchInv ==
  ASSUME Inv, NEW e \in events, Dispatch(e)
  PROVE  Inv' /\ (GoesOn => GoesOn')
<1>1. /\ stack = <<>> /\ events' = events \ {e}
      /\ UNCHANGED <<open, active_tasks_, pc, client>>
  BY DEF Dispatch
<1>2. Places' /\ Clients' /\ Descriptors' /\ Live' = Live /\ \A c \in Conns : Holds(c)' <=> Holds(c)
  BY <1>1 DEF Inv, Places, Clients, Descriptors, Owns, Live, Holds
<1>3. OnStack = {}
  BY <1>1, EmptyStack DEF OnStack
<1>4. CASE UNCHANGED <<fds_, epoll, stack>>
  <2>1. OnStack' = OnStack /\ IsStack(stack)'
    BY <1>4 DEF OnStack, Inv
  <2>2. Held' /\ Waiters' /\ Batch' /\ Counted'
    <3>1. Held' /\ Counted'
      BY <1>1, <1>2, <2>1 DEF Inv, Held, Holds, Counted
    <3>2. Waiters'
      BY <1>1, <1>4, <2>1 DEF Inv, Waiters
    <3>3. Batch'
      BY <1>1, <1>4 DEF Inv, Batch
    <3> QED
      BY <3>1, <3>2, <3>3
  <2>3. GoesOn => GoesOn'
    BY <1>1, <1>2, <1>4, <2>1 DEF GoesOn, Waits
  <2> QED
    BY <1>2, <2>1, <2>2, <2>3 DEF Inv
<1>5. CASE fds_' = Drop(fds_, e.fd) /\ epoll' = Drop(epoll, e.fd) /\ stack' = <<open[e.fd].of>>
  <2>0. PICK fd, o : fd = e.fd /\ o = open[e.fd].of
    OBVIOUS
  <2>1. /\ fd \in DOMAIN fds_ /\ fd \in DOMAIN open /\ o \in Coroutines
        /\ pc[o] \in {"read", "accept", "slept", "send"}
    BY <2>0 DEF Inv, Batch, Waiters, Descriptors
  <2>2. IsStack(stack)' /\ OnStack' = {o}
    <3>1. <<o>> = <<o>> \o <<>>
      BY SMT
    <3>2. IsStack(<<o>> \o <<>>) /\ Elems(<<o>> \o <<>>) = {} \cup {o}
      BY <2>1, EmptyStack, Push
    <3> QED
      BY <1>5, <2>0, <3>1, <3>2 DEF OnStack
  <2>3. Held'
    BY <1>1, <2>1, <2>2 DEF Inv, Held, Holds
  <2>4. /\ DOMAIN fds_' = DOMAIN fds_ \ {fd} /\ DOMAIN epoll' = DOMAIN epoll \ {fd}
        /\ \A g \in DOMAIN fds_ : g # fd => fds_'[g] = fds_[g]
        /\ \A g \in DOMAIN epoll : g # fd => epoll'[g] = epoll[g]
    BY <1>5, <2>0 DEF Drop
  <2>5. \A g \in DOMAIN open : g # fd => open[g].of # o
    BY <2>0, <2>1 DEF Inv, Descriptors
  <2>6. Waiters'
    BY <1>1, <2>2, <2>4, <2>5 DEF Inv, Waiters
  <2>7. Batch'
    BY <1>1, <2>0, <2>4 DEF Inv, Batch
  <2>8. Counted'
    BY <1>1, <1>2, <2>1, <2>2 DEF Inv, Counted, Live
  <2>9. ASSUME GoesOn PROVE GoesOn'
    <3>1. \A x : Waits(x) /\ x # o => Waits(x)'
      BY <1>1, <2>0, <2>4 DEF Waits
    <3> QED
      BY <1>2, <1>3, <2>2, <2>9, <3>1 DEF GoesOn
  <2> QED
    BY <1>2, <2>2, <2>3, <2>6, <2>7, <2>8, <2>9 DEF Inv
<1> QED
  BY <1>4, <1>5, Taking

-----------------------------------------------------------------------------
(* The steps that choose among these moves.                                *)
LEMMA AcceptWaitsInv ==
  ASSUME Inv, AcceptWaits, "epoll" \notin failed'
  PROVE  Inv' /\ (GoesOn => GoesOn')
<1>1. /\ pc[Acceptor] = "accept" /\ Running(Acceptor) /\ UNCHANGED <<open, events, client>>
      /\ AddWaiter(Acceptor, FdOf(Object(Acceptor)), "IN", pc[Acceptor])
  BY Objects DEF AcceptWaits, Inv, Places
<1>2. Owns(Acceptor) /\ \A c \in Conns : Acceptor # Handler(c)
  BY <1>1, Kinds DEF Owns
<1> QED
  BY <1>1, <1>2, Waiting

LEMMA ReadInv ==
  ASSUME Inv, NEW c \in Conns, Read(c), "epoll" \notin failed'
  PROVE  Inv' /\ (GoesOn => GoesOn')
<1> DEFINE h == Handler(c)
<1>1. /\ Running(h) /\ pc[h] = "read" /\ UNCHANGED events /\ h[1] = "conn" /\ h \in Coroutines
      /\ DOMAIN pc = Coroutines
  BY KindNames, Kinds DEF Read, Inv, Places
<1>2. ASSUME NEW at, at # "none", GoTo(h, at), UNCHANGED client
                \/ client' = [client EXCEPT ![c].unread = @ - 1]
      PROVE  Clients'
  <2>1. /\ pc'[h] = at /\ \A d \in Conns : d # c => pc'[Handler(d)] = pc[Handler(d)]
    BY <1>1, <1>2, Kinds DEF GoTo
  <2>2. /\ DOMAIN client' = Conns
        /\ \A d \in Conns : DOMAIN client'[d] = DOMAIN client[d] /\ client'[d].at = client[d].at
    BY <1>2, SMT DEF Inv, Clients
  <2> QED
    BY <1>1, <2>1, <2>2 DEF Inv, Clients
<1>3. CASE client[c].unread > 0
  <2>1. /\ client' = [client EXCEPT ![c].unread = @ - 1] /\ UNCHANGED <<open, epoll, fds_>>
        /\ \E at \in {"read", "await", "retrieve", "close"} : GoTo(h, at)
    BY <1>3 DEF Read, kernel
  <2>2. PICK at \in {"read", "await", "retrieve", "close"} : GoTo(h, at)
    BY <2>1
  <2>3. Clients'
    BY <1>2, <2>1, <2>2
  <2> QED
    BY <1>1, <2>1, <2>2, <2>3, Going
<1>4. CASE ~(client[c].unread > 0) /\ client[c].at \in {"closed", "reset"}
  <2>1. GoTo(h, "close") /\ UNCHANGED <<open, epoll, fds_, client>>
    BY <1>1, <1>4 DEF Read, Throw
  <2>2. Clients'
    BY <1>2, <2>1
  <2> QED
    BY <1>1, <2>1, <2>2, Going
<1>5. CASE ~(client[c].unread > 0) /\ client[c].at \notin {"closed", "reset"}
  <2>1. AddWaiter(h, FdOf(Object(h)), "IN", pc[h]) /\ UNCHANGED <<open, client>>
    BY <1>1, <1>5, Objects DEF Read
  <2>2. Owns(h)
    BY <1>1 DEF Owns
  <2> QED
    BY <1>1, <2>1, <2>2, Waiting
<1> QED
  BY <1>3, <1>4, <1>5

LEMMA SendInv ==
  ASSUME Inv, NEW c \in Conns, Send(c), "epoll" \notin failed'
  PROVE  Inv' /\ (GoesOn => GoesOn')
<1> DEFINE h == Handler(c)
<1>1. /\ Running(h) /\ pc[h] = "send" /\ UNCHANGED <<open, events>> /\ h[1] = "conn"
      /\ h \in Coroutines /\ DOMAIN pc = Coroutines
  BY KindNames, Kinds DEF Send, Inv, Places
<1>2. ASSUME NEW at, at # "none", GoTo(h, at), DOMAIN client' = Conns,
             \A d \in Conns : DOMAIN client'[d] = DOMAIN client[d] /\ client'[d].at = client[d].at
      PROVE  Clients'
  <2>1. /\ pc'[h] = at /\ \A d \in Conns : d # c => pc'[Handler(d)] = pc[Handler(d)]
    BY <1>1, <1>2, Kinds DEF GoTo
  <2> QED
    BY <1>1, <1>2, <2>1 DEF Inv, Clients
<1>3. CASE client[c].at = "reset"
  <2>1. GoTo(h, "close") /\ UNCHANGED <<epoll, fds_, client>>
    BY <1>1, <1>3 DEF Send, Throw
  <2>2. Clients'
    BY <1>2, <2>1 DEF Inv, Clients
  <2> QED
    BY <1>1, <2>1, <2>2, Going
<1>4. CASE client[c].at # "reset" /\ ~client[c].room
  <2>1. AddWaiter(h, FdOf(Object(h)), "OUT", pc[h]) /\ UNCHANGED client
    BY <1>1, <1>4, Objects DEF Send
  <2>2. Owns(h)
    BY <1>1, Kinds DEF Owns
  <2> QED
    BY <1>1, <2>1, <2>2, Waiting
<1>5. CASE client[c].at # "reset" /\ client[c].room
  <2>1. /\ UNCHANGED <<epoll, fds_>> /\ \E at \in {"send", "close"} : GoTo(h, at)
        /\ \E room : client' = [client EXCEPT ![c].answer = @ - 1, ![c].room = room]
    BY <1>5 DEF Send
  <2>2. PICK at \in {"send", "close"} : GoTo(h, at)
    BY <2>1
  <2>3. /\ DOMAIN client' = Conns
        /\ \A d \in Conns : DOMAIN client'[d] = DOMAIN client[d] /\ client'[d].at = client[d].at
    BY <2>1, SMT DEF Inv, Clients
  <2>4. Clients'
    BY <1>2, <2>2, <2>3
  <2> QED
    BY <1>1, <2>1, <2>2, <2>4, Going
<1> QED
  BY <1>3, <1>4, <1>5

(* The handler that replicated a chunk answers.                            *)
LEMMA RelayInv ==
  ASSUME Inv, NEW c \in Conns, Relay(c)
  PROVE  Inv' /\ (GoesOn => GoesOn')
<1> DEFINE h == Handler(c)
<1>1. /\ Running(h) /\ pc[h] = "relay" /\ GoTo(h, "send")
      /\ UNCHANGED <<open, epoll, events, fds_, client>> /\ h \in Coroutines
  BY Kinds DEF Relay, kernel
<1>2. pc'[h] = "send" /\ \A d \in Conns : d # c => pc'[Handler(d)] = pc[Handler(d)]
  BY <1>1, Kinds DEF GoTo, Inv, Places
<1>3. Clients'
  BY <1>1, <1>2 DEF Inv, Clients
<1> QED
  BY <1>1, <1>3, Going

(* co_await sleep_for, with a descriptor left or without.                  *)
LEMMA SleepForInv ==
  ASSUME Inv, NEW co, Running(co), SleepFor(co), UNCHANGED <<events, client>>,
         "epoll" \notin failed',
         \/ co = Beater /\ pc[co] = "send"
         \/ \E c \in Conns : co = Poller(c) /\ pc[co] = "poll"
  PROVE  Inv' /\ (failed' = {} /\ GoesOn => GoesOn')
<1>1. ~Owns(co) /\ co # Acceptor /\ co \in Coroutines
  BY Kinds DEF Owns
<1>2. CASE Free # {}
  BY <1>2, Sleeping
<1>3. CASE Free = {}
  <2>1. Finish(co) /\ UNCHANGED <<open, epoll, fds_>> /\ failed' # {}
    BY <1>3 DEF SleepFor, kernel
  <2>2. Inv'
    BY <1>1, <2>1, Ending
  <2> QED
    BY <2>1, <2>2
<1> QED
  BY <1>2, <1>3

LEMMA ConnectionInv ==
  ASSUME Inv, NEW c \in Conns, "epoll" \notin failed',
         \/ Accept(c) \/ Read(c) \/ AwaitFuture(c) \/ PollFuture(c) \/ Wake(Poller(c), "poll")
         \/ PollerReturns(c) \/ Send(c) \/ CloseConnection(c)
  PROVE  Inv' /\ (failed' = {} /\ GoesOn => GoesOn')
<1>1. CASE Accept(c)
  BY <1>1, AcceptInv
<1>2. CASE Read(c)
  BY <1>2, ReadInv
<1>3. CASE AwaitFuture(c)
  BY <1>3, AwaitFutureInv
<1>4. CASE PollFuture(c)
  <2>1. CASE future[c] = "ready"
    BY <1>4, <2>1, ResumeInv
  <2>2. CASE future[c] # "ready"
    <3>1. /\ Running(Poller(c)) /\ pc[Poller(c)] = "poll" /\ SleepFor(Poller(c))
          /\ UNCHANGED <<events, client>>
      BY <1>4, <2>2 DEF PollFuture
    <3> QED
      BY <3>1, SleepForInv
  <2> QED
    BY <2>1, <2>2
<1>5. CASE Wake(Poller(c), "poll")
  BY <1>5, WakeInv
<1>6. CASE PollerReturns(c)
  <2>1. /\ Running(Poller(c)) /\ pc[Poller(c)] = "return" /\ Finish(Poller(c))
        /\ UNCHANGED <<open, epoll, events, fds_, client>>
    BY <1>6 DEF PollerReturns, kernel
  <2>2. ~Owns(Poller(c)) /\ Poller(c) # Acceptor
    BY <2>1, Kinds DEF Owns
  <2> QED
    BY <2>1, <2>2, Ending
<1>7. CASE Send(c)
  BY <1>7, SendInv
<1>8. CASE CloseConnection(c)
  BY <1>8, CloseConnectionInv
<1> QED
  BY <1>1, <1>2, <1>3, <1>4, <1>5, <1>6, <1>7, <1>8

LEMMA ThreadStepInv ==
  ASSUME Inv, ThreadStep, "epoll" \notin failed'
  PROVE  Inv' /\ (failed' = {} /\ GoesOn => GoesOn')
<1>1. CASE EpollWait
  <2>1. UNCHANGED <<open, fds_, stack, pc>>
    BY <1>1 DEF EpollWait, kernel
  <2>2. GoesOn => GoesOn'
    BY <2>1 DEF GoesOn, Live, OnStack, Waits, Holds
  <2> QED
    BY <1>1, <2>2, EpollWaitInv
<1>2. CASE \E e \in events : Dispatch(e)
  BY <1>2, DispatchInv
<1>3. CASE AcceptWaits
  BY <1>3, AcceptWaitsInv
<1>4. CASE Beat
  <2>1. Running(Beater) /\ pc[Beater] = "send" /\ SleepFor(Beater) /\ UNCHANGED <<events, client>>
    BY <1>4 DEF Beat
  <2> QED
    BY <2>1, SleepForInv
<1>5. CASE Wake(Beater, "send")
  BY <1>5, WakeInv
<1>6. CASE \E c \in Conns :
             \/ Accept(c) \/ Read(c) \/ AwaitFuture(c) \/ PollFuture(c) \/ Wake(Poller(c), "poll")
             \/ PollerReturns(c) \/ Send(c) \/ CloseConnection(c)
  BY <1>6, ConnectionInv
<1>7. CASE AcceptFails
  <2>1. UNCHANGED <<open, epoll, events, fds_, active_tasks_, stack, pc, client>>
    BY <1>7 DEF AcceptFails, vars, kernel
  <2>2. Clients' /\ (GoesOn => GoesOn')
    BY <2>1 DEF Inv, Clients, GoesOn, Live, OnStack, Waits, Holds
  <2> QED
    BY <2>1, <2>2, WorldInv
<1> QED
  BY <1>1, <1>2, <1>3, <1>4, <1>5, <1>6, <1>7 DEF ThreadStep

LEMMA NextInv ==
  ASSUME Inv, [Next]_vars, "epoll" \notin failed'
  PROVE  Inv' /\ (failed' = {} /\ GoesOn => GoesOn')
<1>1. CASE ThreadStep
  BY <1>1, ThreadStepInv
<1>2. ASSUME UNCHANGED <<open, epoll, events, fds_, active_tasks_, stack, pc>>, Clients'
      PROVE  Inv' /\ (GoesOn => GoesOn')
  <2>1. GoesOn => GoesOn'
    BY <1>2 DEF GoesOn, Live, OnStack, Waits, Holds
  <2> QED
    BY <1>2, <2>1, WorldInv
<1>3. CASE UNCHANGED vars
  <2>1. UNCHANGED <<open, epoll, events, fds_, active_tasks_, stack, pc, client>>
    BY <1>3 DEF vars, kernel
  <2>2. Clients'
    BY <2>1 DEF Inv, Clients
  <2> QED
    BY <1>2, <2>1, <2>2
<1>4. CASE \/ \E c \in Conns : JobEnds(c)
           \/ \E fd \in DOMAIN open : Expire(fd)
  <2>1. UNCHANGED <<open, epoll, events, fds_, active_tasks_, stack, pc, client>>
    BY <1>4 DEF JobEnds, Expire, kernel
  <2>2. Clients'
    BY <2>1 DEF Inv, Clients
  <2> QED
    BY <1>2, <2>1, <2>2
<1>5. ASSUME NEW c \in Conns, Connect(c) \/ SendPiece(c) \/ TakeAnswer(c) \/ Leave(c)
      PROVE  Inv' /\ (GoesOn => GoesOn')
  <2>1. UNCHANGED <<open, epoll, events, fds_, active_tasks_, stack, pc>>
    BY <1>5 DEF Connect, SendPiece, TakeAnswer, Leave, kernel
  <2>2. DOMAIN client = Conns /\ DOMAIN client[c] = {"at", "tosend", "unread", "answer", "room"}
    BY DEF Inv, Clients
  <2>3. /\ DOMAIN client' = Conns /\ DOMAIN client'[c] = DOMAIN client[c]
        /\ \A d \in Conns : d # c => client'[d] = client[d]
        /\ client'[c].at \in {"away", "queued"} => client[c].at \in {"away", "queued"}
    <3>1. CASE Connect(c)
      BY <2>2, <3>1 DEF Connect
    <3>2. CASE SendPiece(c)
      BY <2>2, <3>2 DEF SendPiece
    <3>3. CASE TakeAnswer(c)
      BY <2>2, <3>3 DEF TakeAnswer
    <3>4. CASE Leave(c)
      BY <2>2, <3>4 DEF Leave
    <3> QED
      BY <1>5, <3>1, <3>2, <3>3, <3>4
  <2>4. Clients'
    BY <2>1, <2>3 DEF Inv, Clients
  <2> QED
    BY <1>2, <2>1, <2>4
<1>6. CASE \E c \in Conns : Relay(c)
  BY <1>6, RelayInv
<1> QED
  BY <1>1, <1>3, <1>4, <1>5, <1>6 DEF Next

LEMMA InitGoesOn == Init => GoesOn
<1> SUFFICES ASSUME Init PROVE GoesOn
  OBVIOUS
<1>1. stack = <<Beater, Acceptor>>
  BY DEF Init
<1>2. Beater \in OnStack /\ Acceptor \in OnStack
  <2>1. Len(stack) = 2 /\ stack[1] = Beater /\ stack[2] = Acceptor
    BY <1>1
  <2> QED
    BY <2>1, SMT DEF OnStack, Elems
<1>3. \A co \in Coroutines : co \notin {Beater, Acceptor} => pc[co] = "none"
  BY DEF Init
<1> QED
  BY <1>2, <1>3 DEF GoesOn, Live

(* What has failed stays so.                                               *)
LEMMA FailedGrows == [Next]_vars => failed \subseteq failed'
<1>1. ASSUME NEW co, NEW fd, NEW edge, NEW at, AddWaiter(co, fd, edge, at)
      PROVE  failed \subseteq failed'
  BY <1>1 DEF AddWaiter
<1>2. ASSUME NEW co, SleepFor(co) PROVE failed \subseteq failed'
  BY <1>1, <1>2 DEF SleepFor
<1>3. ASSUME NEW c \in Conns,
             \/ Accept(c) \/ Read(c) \/ AwaitFuture(c) \/ PollFuture(c) \/ Wake(Poller(c), "poll")
             \/ PollerReturns(c) \/ Send(c) \/ CloseConnection(c) \/ Relay(c)
      PROVE  failed \subseteq failed'
  <2>1. CASE Read(c)
    BY <1>1, <2>1 DEF Read
  <2>2. CASE Send(c)
    BY <1>1, <2>2 DEF Send
  <2>3. CASE PollFuture(c)
    BY <1>2, <2>3 DEF PollFuture
  <2>4. CASE \/ Accept(c) \/ AwaitFuture(c) \/ Wake(Poller(c), "poll") \/ PollerReturns(c)
             \/ CloseConnection(c) \/ Relay(c)
    BY <2>4 DEF Accept, AwaitFuture, Wake, PollerReturns, CloseConnection, Relay
  <2> QED
    BY <1>3, <2>1, <2>2, <2>3, <2>4
<1>4. CASE AcceptWaits
  BY <1>1, <1>4 DEF AcceptWaits
<1>5. CASE Beat
  BY <1>2, <1>5 DEF Beat
<1>6. CASE \/ EpollWait \/ (\E e \in events : Dispatch(e)) \/ AcceptFails \/ Wake(Beater, "send")
  BY <1>6 DEF EpollWait, Dispatch, AcceptFails, vars, Wake
<1>7. CASE \/ \E c \in Conns : Connect(c) \/ SendPiece(c) \/ TakeAnswer(c) \/ Leave(c) \/ JobEnds(c)
           \/ \E fd \in DOMAIN open : Expire(fd)
           \/ UNCHANGED vars
  BY <1>7 DEF Connect, SendPiece, TakeAnswer, Leave, JobEnds, Expire, vars
<1> QED
  BY <1>3, <1>4, <1>5, <1>6, <1>7 DEF Next, ThreadStep

LEMMA Invariance == Spec => []("epoll" \notin failed => Inv)
<1>1. ("epoll" \notin failed => Inv) /\ [Next]_vars => ("epoll" \notin failed => Inv)'
  BY NextInv, FailedGrows
<1> QED
  BY <1>1, InitInv, PTL DEF Spec

-----------------------------------------------------------------------------
(* ctl_add_or_mod chooses between ADD and MOD by the mask it keeps in      *)
(* fds_; the kernel always agrees, so that it never throws for a           *)
(* descriptor whose number has come back.                                  *)
THEOREM KernelAlwaysAgrees == Spec => []KernelAgrees
<1>1. ("epoll" \notin failed => Inv) => KernelAgrees
  BY SMT DEF Inv, Waiters, KernelAgrees, Reading, Writing
<1> QED
  BY <1>1, Invariance, PTL

(* Reactor::run never hands an event to somebody it was not meant for: not *)
(* within a batch either, where handlers close descriptors and accept      *)
(* gives their numbers out again.                                          *)
THEOREM EventsNeverStale == Spec => []NoStaleEvent
<1>1. ("epoll" \notin failed => Inv) => NoStaleEvent
  <2> SUFFICES ASSUME Inv PROVE NoStaleEvent
    BY DEF NoStaleEvent
  <2>1. ASSUME NEW fd \in DOMAIN fds_, NEW co \in fds_[fd].rd \cup fds_[fd].wr
        PROVE  fd \in DOMAIN open /\ open[fd] \in {Socket(co), Timer(co)}
    <3>1. fd \in DOMAIN open /\ co = open[fd].of
      BY SMT DEF Inv, Waiters, Reading, Writing
    <3> QED
      BY <3>1, Objects DEF Inv, Descriptors
  <2> QED
    BY <2>1 DEF Inv, Batch, NoStaleEvent
<1> QED
  BY <1>1, Invariance, PTL

(* Reactor::run stops when active_tasks_ is zero: it is the number of      *)
(* coroutines that have not ended, and nobody else holds a descriptor.     *)
THEOREM ActiveAlwaysExact == Spec => []ActiveExact
<1>1. ("epoll" \notin failed => Inv) => ActiveExact
  <2> SUFFICES ASSUME Inv, NEW fd \in DOMAIN open
               PROVE  open[fd].of \in Live
    BY DEF Inv, Counted, ActiveExact
  <2> QED
    BY DEF Inv, Descriptors, Owns, Live
<1> QED
  BY <1>1, Invariance, PTL

LEMMA OneWay ==
  ASSUME Inv, GoesOn, NEW co \in Live
  PROVE  Ways(co) = 1
<1> DEFINE A == {i \in DOMAIN stack : stack[i] = co}
           B == {fd \in DOMAIN fds_ : co \in fds_[fd].rd}
           C == {fd \in DOMAIN fds_ : co \in fds_[fd].wr}
           D == {c \in Conns : co = Handler(c) /\ pc[Poller(c)] \in {"poll", "slept"}}
<1>1. SUFFICES Cardinality(A) + Cardinality(B) + Cardinality(C) + Cardinality(D) = 1
  BY DEF Ways
<1>2. Cardinality({}) = 0 /\ \A x : Cardinality({x}) = 1
  BY FS_EmptySet, FS_Singleton
<1>3. DOMAIN stack = 1 .. Len(stack)
  BY SMT DEF Inv, IsStack
<1>4. IF co \in OnStack THEN \E i \in DOMAIN stack : A = {i} ELSE A = {}
  BY <1>3, SMT DEF Inv, IsStack, OnStack, Elems
<1>5. IF \E c \in Conns : co = Handler(c) /\ Holds(c) THEN \E c \in Conns : D = {c} ELSE D = {}
  BY Kinds, SMT DEF Holds
<1>6. \A fd \in DOMAIN fds_ : fds_[fd].rd \cup fds_[fd].wr = {open[fd].of}
  BY SMT DEF Inv, Waiters, Reading, Writing
<1>7. ~Waits(co) => B = {} /\ C = {}
  BY <1>6 DEF Waits
<1>8. ASSUME NEW fd \in DOMAIN fds_, open[fd].of = co
      PROVE  (B = {fd} /\ C = {}) \/ (B = {} /\ C = {fd})
  <2>1. \A g \in DOMAIN fds_ : open[g].of = co => g = fd
    BY <1>8 DEF Inv, Waiters, Descriptors
  <2>2. B \subseteq {fd} /\ C \subseteq {fd}
    BY <1>6, <2>1
  <2>3. \/ fds_[fd].rd = {co} /\ fds_[fd].wr = {}
        \/ fds_[fd].rd = {} /\ fds_[fd].wr = {co}
    BY <1>8, SMT DEF Inv, Waiters, Reading, Writing
  <2> QED
    BY <2>2, <2>3
<1> HIDE DEF A, B, C, D
<1>9. CASE co \in OnStack
  <2>1. ~Waits(co) /\ ~\E c \in Conns : co = Handler(c) /\ Holds(c)
    BY <1>9 DEF Inv, Waiters, Waits, Held
  <2> QED
    BY <1>2, <1>4, <1>5, <1>7, <1>9, <2>1, SMT
<1>10. CASE co \notin OnStack /\ Waits(co)
  <2>1. PICK fd \in DOMAIN fds_ : open[fd].of = co
    BY <1>10 DEF Waits
  <2>2. pc[co] \notin {"await", "retrieve"}
    BY <2>1 DEF Inv, Waiters
  <2>3. ~\E c \in Conns : co = Handler(c) /\ Holds(c)
    BY <2>2 DEF Inv, Held
  <2>4. Cardinality(A) = 0 /\ Cardinality(D) = 0
    BY <1>2, <1>4, <1>5, <1>10, <2>3
  <2>5. (B = {fd} /\ C = {}) \/ (B = {} /\ C = {fd})
    BY <1>8, <2>1
  <2>6. \/ Cardinality(B) = 1 /\ Cardinality(C) = 0
        \/ Cardinality(B) = 0 /\ Cardinality(C) = 1
    BY <1>2, <2>5
  <2> QED
    BY <2>4, <2>6, SMT
<1>11. CASE co \notin OnStack /\ ~Waits(co)
  <2>1. \E c \in Conns : co = Handler(c) /\ Holds(c)
    BY <1>11 DEF GoesOn
  <2> QED
    BY <1>2, <1>4, <1>5, <1>7, <1>11, <2>1, SMT
<1> QED
  BY <1>9, <1>10, <1>11

(* Every coroutine that has not ended has exactly one way to be resumed,   *)
(* until epoll_ctl fails in add_waiter or timerfd_create in sleep_for:     *)
(* then the poller ends and the handler whose handle it holds is never     *)
(* resumed.                                                                *)
THEOREM OneWayAlwaysOn == Spec => []OneWayOn
<1> DEFINE Good == failed = {} => Inv /\ GoesOn
<1>1. Good => OneWayOn
  BY OneWay DEF OneWayOn
<1>2. Init => Good
  BY InitInv, InitGoesOn
<1>3. Good /\ [Next]_vars => Good'
  BY NextInv, FailedGrows
<1> QED
  BY <1>1, <1>2, <1>3, PTL DEF Spec
=============================================================================
