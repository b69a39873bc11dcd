------------------------------ MODULE Reactor ------------------------------
(***************************************************************************)
(* The event loop of a cluster server (async_net.hpp) and the coroutines   *)
(* that run on it (chunk_service.cpp): the accept loop of chunk_server and *)
(* public_chunk_server, a handler for every connection, a poller that      *)
(* brings the result of a thread-pool job back to its handler, and a       *)
(* coroutine that does something and sleeps, again and again               *)
(* (heartbeat_sender, metrics_sampler, print_stats).                       *)
(*                                                                         *)
(* All of them run on one thread, between two suspensions, one inside the  *)
(* other: "stack" holds the ones that have been resumed and have not yet   *)
(* suspended.  Clients, timers and the pool change the world between any   *)
(* two steps.  Descriptors are numbers: the kernel gives out the lowest    *)
(* free one, so a number comes back at once after close.                   *)
(*                                                                         *)
(* A coroutine is a pair of a kind and, for handlers and pollers, its      *)
(* connection.  A DEAD or KILL request, which ends the process, is left    *)
(* out, and so is the suspension of a heartbeat whose UDP socket is full.  *)
(***************************************************************************)
EXTENDS Integers, Sequences, FiniteSets, FiniteSetsExt

CONSTANTS
  Conns,      \* connections clients make
  Pieces,     \* pieces a request arrives in
  MaxFds,     \* RLIMIT_NOFILE, less what else the process holds open
  MaxEvents,  \* evs.size(): how many events epoll_wait returns at most
  EpollFails  \* the kinds of coroutines for which epoll_ctl can fail for want of memory
              \* or watches, once

ASSUME ReactorAssumption ==
  /\ Pieces \in Nat \ {0} /\ MaxFds \in Nat \ {0} /\ MaxEvents \in Nat \ {0}
  /\ EpollFails \subseteq {"accept", "beat", "conn", "poll"}

VARIABLES
  open,           \* the open descriptors and what each one is
  expired,        \* the timers that have run out
  epoll,          \* the interest set of epfd_, in the kernel
  events,         \* what is left of the batch epoll_wait returned
  fds_,           \* Reactor::fds_
  active_tasks_,  \* Reactor::active_tasks_
  stack,          \* the coroutines on the thread's stack, innermost first
  pc,             \* where every coroutine is
  client,         \* per connection: the other end
  future,         \* per connection: the future of its job
  failed          \* history: which of epoll_ctl and timerfd_create has failed

kernel == <<open, expired, epoll>>
vars == <<kernel, events, fds_, active_tasks_, stack, pc, client, future, failed>>

Acceptor == <<"accept", 0>>
Beater == <<"beat", 0>>
Handler(c) == <<"conn", c>>
Poller(c) == <<"poll", c>>
Coroutines == {Acceptor, Beater} \cup {Handler(c) : c \in Conns} \cup {Poller(c) : c \in Conns}

Socket(co) == [is |-> "socket", of |-> co]
Timer(co) == [is |-> "timer", of |-> co]
FdOf(object) == CHOOSE fd \in DOMAIN open : open[fd] = object

Free == (1 .. MaxFds) \ DOMAIN open
NewFd == Min(Free)

Put(f, k, v) == [i \in DOMAIN f \cup {k} |-> IF i = k THEN v ELSE f[i]]
Drop(f, k) == [i \in DOMAIN f \ {k} |-> f[i]]

Init ==
  /\ open = [fd \in {1} |-> Socket(Acceptor)]
  /\ expired = {}
  /\ epoll = [fd \in {} |-> {}]
  /\ events = {}
  /\ fds_ = [fd \in {} |-> 0]
  /\ active_tasks_ = 2
  /\ stack = <<Beater, Acceptor>>
  /\ pc = [co \in Coroutines |-> CASE co = Beater -> "send"
                                   [] co = Acceptor -> "accept"
                                   [] OTHER -> "none"]
  /\ client = [c \in Conns |-> [at |-> "away", tosend |-> Pieces, unread |-> 0,
                              answer |-> 2, room |-> TRUE]]
  /\ future = [c \in Conns |-> "none"]
  /\ failed = {}

-----------------------------------------------------------------------------
(* What a coroutine does with the thread: it suspends, it ends, or an      *)
(* exception comes out of the expression it waits in: a handler catches it *)
(* and closes its connection, the others end.                              *)
Running(co) == stack # <<>> /\ Head(stack) = co

Suspend(co, at) == /\ stack' = Tail(stack)
                   /\ pc' = [pc EXCEPT ![co] = at]
                   /\ UNCHANGED active_tasks_

(* final_awaitable of a spawned task.                                      *)
Finish(co) == /\ stack' = Tail(stack)
              /\ pc' = [pc EXCEPT ![co] = "ended"]
              /\ active_tasks_' = active_tasks_ - 1

GoTo(co, at) == /\ pc' = [pc EXCEPT ![co] = at]
                /\ UNCHANGED <<stack, active_tasks_>>

Throw(co) == IF co[1] = "conn" THEN GoTo(co, "close") ELSE Finish(co)

(* Reactor::spawn: the child runs at once, on top of "below".              *)
Spawn(child, start, below) == /\ stack' = <<child>> \o below
                              /\ active_tasks_' = active_tasks_ + 1
                              /\ pc' = [pc EXCEPT ![child] = start]

(* add_waiter with ctl_add_or_mod: the handle goes into the list first.    *)
(* EPOLL_CTL_ADD fails for a descriptor the kernel has, MOD for one it has *)
(* not, and both for want of memory; then the exception leaves the handle  *)
(* where it is.  Should the coroutine have ended when its list is taken,   *)
(* resuming it is undefined, and the model follows the thread no further.  *)
AddWaiter(co, fd, edge, at) ==
  LET w == IF fd \in DOMAIN fds_ THEN fds_[fd] ELSE [rd |-> {}, wr |-> {}, mask |-> {}]
      want == w.mask \cup {edge}
      fits == (w.mask # {}) = (fd \in DOMAIN epoll)
      fails == co[1] \in EpollFails /\ "epoll" \notin failed
  IN \E done \in BOOLEAN :
       /\ IF done THEN fits ELSE ~fits \/ fails
       /\ fds_' = Put(fds_, fd, [rd |-> IF edge = "IN" THEN w.rd \cup {co} ELSE w.rd,
                                 wr |-> IF edge = "OUT" THEN w.wr \cup {co} ELSE w.wr,
                                 mask |-> IF done THEN want ELSE w.mask])
       /\ epoll' = IF done THEN Put(epoll, fd, want) ELSE epoll
       /\ failed' = IF fits /\ ~done THEN failed \cup {"epoll"} ELSE failed
       /\ IF done THEN Suspend(co, at) ELSE Throw(co)

(* take_waiters: the handles waiting for one of the edges.                 *)
Taken(fd, edges) ==
  IF fd \notin DOMAIN fds_ THEN {}
  ELSE (IF "IN" \in edges THEN fds_[fd].rd ELSE {})
       \cup (IF "OUT" \in edges THEN fds_[fd].wr ELSE {})

(* A faulty variant: the kernel keeps its entry.                           *)
TakeWaitersKeepsEpoll(fd, edges) ==
  /\ fds_' = IF fd \in DOMAIN fds_ THEN Drop(fds_, fd) ELSE fds_
  /\ UNCHANGED epoll

TakeWaiters(fd, edges) ==
  IF fd \notin DOMAIN fds_ THEN UNCHANGED <<fds_, epoll>>
  ELSE LET w == fds_[fd]
           rd == IF "IN" \in edges THEN {} ELSE w.rd
           wr == IF "OUT" \in edges THEN {} ELSE w.wr
           newmask == (IF rd # {} THEN {"IN"} ELSE {}) \cup (IF wr # {} THEN {"OUT"} ELSE {})
       IN IF newmask = w.mask THEN UNCHANGED <<fds_, epoll>>
          ELSE IF newmask = {}
          THEN fds_' = Drop(fds_, fd) /\ epoll' = Drop(epoll, fd)
          ELSE /\ fds_' = [fds_ EXCEPT ![fd] = [rd |-> rd, wr |-> wr, mask |-> newmask]]
               /\ epoll' = [epoll EXCEPT ![fd] = newmask]

(* close: the kernel forgets its interest with the descriptor.             *)
Close(fd) == /\ open' = Drop(open, fd)
             /\ expired' = expired \ {fd}
             /\ epoll' = Drop(epoll, fd)

(* co_await sleep_for: a timer of its own, or an exception when there is   *)
(* no descriptor for it.                                                   *)
SleepFor(co) ==
  IF Free = {} THEN Finish(co) /\ failed' = failed \cup {"timer"} /\ UNCHANGED <<kernel, fds_>>
  ELSE /\ open' = Put(open, NewFd, Timer(co))
       /\ AddWaiter(co, NewFd, "IN", "slept")
       /\ UNCHANGED expired

(* SleepAwaiter::await_resume                                              *)
Wake(co, at) ==
  /\ Running(co)
  /\ pc[co] = "slept"
  /\ Close(FdOf(Timer(co)))
  /\ GoTo(co, at)
  /\ UNCHANGED <<events, fds_, client, future, failed>>

-----------------------------------------------------------------------------
(* Reactor::run.  What the kernel reports of a descriptor: the events      *)
(* asked for that are there, and a hang-up in any case.                    *)
Ready(fd) ==
  LET object == open[fd]
      cl == client[object.of[2]]
  IN IF object.is = "timer" THEN IF fd \in expired THEN {"IN"} ELSE {}
     ELSE IF object.of = Acceptor
     THEN IF \E c \in Conns : client[c].at = "queued" THEN {"IN"} ELSE {}
     ELSE (IF cl.unread > 0 \/ cl.at \in {"closed", "reset"} THEN {"IN"} ELSE {})
          \cup (IF cl.room \/ cl.at = "reset" THEN {"OUT"} ELSE {})
          \cup (IF cl.at = "reset" THEN {"HUP"} ELSE {})

Flags(fd) == Ready(fd) \cap (epoll[fd] \cup {"HUP"})

EpollWait ==
  LET ready == {fd \in DOMAIN epoll : Flags(fd) # {}}
  IN /\ stack = <<>> /\ events = {} /\ active_tasks_ > 0
     /\ ready # {}
     /\ \E batch \in SUBSET ready :
          /\ Cardinality(batch) = Min({MaxEvents, Cardinality(ready)})
          /\ events' = {[fd |-> fd, flags |-> Flags(fd), object |-> open[fd]] : fd \in batch}
     /\ UNCHANGED <<kernel, fds_, active_tasks_, stack, pc, client, future, failed>>

(* One event: whoever waited is resumed.  A descriptor has one waiter at a *)
(* time, so that IN and OUT, which run takes one after the other, are not  *)
(* asked for together.                                                     *)
Dispatch(e) ==
  LET edges == IF "HUP" \in e.flags THEN {"IN", "OUT"} ELSE e.flags
      taken == Taken(e.fd, edges)
  IN /\ stack = <<>>
     /\ TakeWaiters(e.fd, edges)
     /\ stack' \in Injection(1 .. Cardinality(taken), taken)
     /\ events' = events \ {e}
     /\ UNCHANGED <<open, expired, active_tasks_, pc, client, future, failed>>

-----------------------------------------------------------------------------
(* chunk_server and public_chunk_server: accept until there is nothing to  *)
(* accept, and wait.  With no descriptor left accept4 fails and is called  *)
(* again at once: the thread does nothing else until one is free.          *)
Accept(c) ==
  /\ Running(Acceptor) /\ Free # {}
  /\ client[c].at = "queued"
  /\ client' = [client EXCEPT ![c].at = "connected"]
  /\ open' = Put(open, NewFd, Socket(Handler(c)))
  /\ Spawn(Handler(c), "read", stack)
  /\ UNCHANGED <<expired, epoll, events, fds_, future, failed>>

(* A faulty variant: accept is called again at once.                       *)
AcceptSpins ==
  /\ Running(Acceptor) /\ Free # {}
  /\ ~\E c \in Conns : client[c].at = "queued"
  /\ UNCHANGED vars

AcceptWaits ==
  /\ Running(Acceptor) /\ Free # {}
  /\ ~\E c \in Conns : client[c].at = "queued"
  /\ AddWaiter(Acceptor, FdOf(Socket(Acceptor)), "IN", "accept")
  /\ UNCHANGED <<open, expired, events, client, future>>

AcceptFails ==
  /\ Running(Acceptor) /\ Free = {}
  /\ UNCHANGED vars

(* heartbeat_sender: a heartbeat, and ten seconds of sleep.                *)
Beat ==
  /\ Running(Beater)
  /\ pc[Beater] = "send"
  /\ SleepFor(Beater)
  /\ UNCHANGED <<events, client, future>>

(* handle_connection and handle_public_connection: async_read_exact until  *)
(* the request is whole; then a job goes to io_pool, which retrieves the   *)
(* chunk if the request is to replicate it (type 4), or the request makes  *)
(* no sense.                                                               *)
Read(c) ==
  LET h == Handler(c)
      cl == client[c]
  IN /\ Running(h)
     /\ pc[h] = "read"
     /\ IF cl.unread > 0
        THEN /\ client' = [client EXCEPT ![c].unread = @ - 1]
             /\ IF cl.tosend > 0 \/ cl.unread > 1
                THEN GoTo(h, "read") /\ UNCHANGED future
                ELSE \/ /\ \E job \in {"await", "retrieve"} : GoTo(h, job)
                        /\ future' = [future EXCEPT ![c] = "pending"]
                     \/ GoTo(h, "close") /\ UNCHANGED future
             /\ UNCHANGED <<kernel, fds_, failed>>
        ELSE /\ IF cl.at \in {"closed", "reset"}
                THEN Throw(h) /\ UNCHANGED <<epoll, fds_, failed>>
                ELSE AddWaiter(h, FdOf(Socket(h)), "IN", "read")
             /\ UNCHANGED <<open, expired, client, future>>
     /\ UNCHANGED events

(* Where a handler goes on with the result of its job: a chunk that is to  *)
(* be replicated, and was found, is sent to the other server first.        *)
Results(h) == IF pc[h] = "retrieve" THEN {"relay", "send"} ELSE {"send"}

(* A faulty variant: the handler also watches its connection meanwhile.    *)
AwaitFutureWatching(c) ==
  LET h == Handler(c)
      fd == FdOf(Socket(h))
  IN /\ Running(h)
     /\ pc[h] \in {"await", "retrieve"}
     /\ IF future[c] = "ready"
        THEN (\E at \in Results(h) : GoTo(h, at)) /\ UNCHANGED <<epoll, fds_>>
        ELSE /\ Spawn(Poller(c), "poll", Tail(stack))
             /\ epoll' = Put(epoll, fd, {"IN"})
             /\ fds_' = Put(fds_, fd, [rd |-> {h}, wr |-> {}, mask |-> {"IN"}])
     /\ UNCHANGED <<open, expired, events, client, future, failed>>

(* co_await await_future: FutureAwaiter goes on when the job is done, and  *)
(* spawns a poller otherwise.                                              *)
AwaitFuture(c) ==
  LET h == Handler(c)
  IN /\ Running(h)
     /\ pc[h] \in {"await", "retrieve"}
     /\ IF future[c] = "ready" THEN \E at \in Results(h) : GoTo(h, at)
        ELSE Spawn(Poller(c), "poll", Tail(stack))
     /\ UNCHANGED <<kernel, events, fds_, client, future, failed>>

(* A faulty variant: the poller goes on after it has resumed the handler.  *)
PollFutureGoesOn(c) ==
  LET p == Poller(c)
      h == Handler(c)
  IN /\ Running(p)
     /\ pc[p] = "poll"
     /\ IF future[c] = "ready"
        THEN /\ stack' = <<h>> \o stack
             /\ \E at \in Results(h) : pc' = [pc EXCEPT ![h] = at]
             /\ UNCHANGED <<kernel, fds_, active_tasks_, failed>>
        ELSE SleepFor(p)
     /\ UNCHANGED <<events, client, future>>

(* A faulty variant: the poller looks once.                                *)
PollFutureOnce(c) ==
  LET p == Poller(c)
      h == Handler(c)
  IN /\ Running(p)
     /\ pc[p] = "poll"
     /\ IF future[c] = "ready"
        THEN /\ stack' = <<h>> \o stack
             /\ \E at \in Results(h) : pc' = [pc EXCEPT ![p] = "return", ![h] = at]
             /\ UNCHANGED <<kernel, fds_, active_tasks_, failed>>
        ELSE Finish(p) /\ UNCHANGED <<kernel, fds_, failed>>
     /\ UNCHANGED <<events, client, future>>

(* poll_future_awaiter: look, sleep, look again; then resume the handler,  *)
(* which runs on top of the poller, and end.                               *)
PollFuture(c) ==
  LET p == Poller(c)
      h == Handler(c)
  IN /\ Running(p)
     /\ pc[p] = "poll"
     /\ IF future[c] = "ready"
        THEN /\ stack' = <<h>> \o stack
             /\ \E at \in Results(h) : pc' = [pc EXCEPT ![p] = "return", ![h] = at]
             /\ UNCHANGED <<kernel, fds_, active_tasks_, failed>>
        ELSE SleepFor(p)
     /\ UNCHANGED <<events, client, future>>

PollerReturns(c) ==
  /\ Running(Poller(c))
  /\ pc[Poller(c)] = "return"
  /\ Finish(Poller(c))
  /\ UNCHANGED <<kernel, events, fds_, client, future, failed>>

(* The exchange with the server a chunk is replicated to: connect, send    *)
(* and recv on a blocking socket, on the reactor's thread, which does      *)
(* nothing else until the other server has answered or gone.  That server  *)
(* may be this one.                                                        *)
Relay(c) ==
  /\ Running(Handler(c))
  /\ pc[Handler(c)] = "relay"
  /\ GoTo(Handler(c), "send")
  /\ UNCHANGED <<kernel, events, fds_, client, future, failed>>

(* async_send_all, of the length and then of the body: into the socket,    *)
(* which may be full then, or wait for room, or the peer is gone.          *)
Send(c) ==
  LET h == Handler(c)
  IN /\ Running(h)
     /\ pc[h] = "send"
     /\ IF client[c].at = "reset" THEN Throw(h) /\ UNCHANGED <<epoll, fds_, client, failed>>
        ELSE IF ~client[c].room
        THEN AddWaiter(h, FdOf(Socket(h)), "OUT", "send") /\ UNCHANGED client
        ELSE /\ \E room \in {TRUE, client[c].at = "closed"} :
                  client' = [client EXCEPT ![c].answer = @ - 1, ![c].room = room]
             /\ GoTo(h, IF client[c].answer > 1 THEN "send" ELSE "close")
             /\ UNCHANGED <<epoll, fds_, failed>>
     /\ UNCHANGED <<open, expired, events, future>>

(* A faulty variant: the connection is left open.                          *)
CloseConnectionLeaks(c) ==
  /\ Running(Handler(c))
  /\ pc[Handler(c)] = "close"
  /\ Finish(Handler(c))
  /\ UNCHANGED <<kernel, events, fds_, client, future, failed>>

(* Every path ends with close(cfd).                                        *)
CloseConnection(c) ==
  LET h == Handler(c)
  IN /\ Running(h)
     /\ pc[h] = "close"
     /\ Close(FdOf(Socket(h)))
     /\ Finish(h)
     /\ UNCHANGED <<events, fds_, client, future, failed>>

(* What the thread does by itself.                                         *)
ThreadStep ==
  \/ EpollWait
  \/ \E e \in events : Dispatch(e)
  \/ AcceptWaits \/ AcceptFails
  \/ Beat
  \/ Wake(Beater, "send")
  \/ \E c \in Conns :
       \/ Accept(c) \/ Read(c) \/ AwaitFuture(c) \/ PollFuture(c) \/ Wake(Poller(c), "poll")
       \/ PollerReturns(c) \/ Send(c) \/ CloseConnection(c)

-----------------------------------------------------------------------------
(* The world: a client connects, sends its request in pieces, takes what   *)
(* it is sent, and goes when it likes; timers run out; jobs end.           *)
Connect(c) == /\ client[c].at = "away"
              /\ client' = [client EXCEPT ![c].at = "queued"]
              /\ UNCHANGED <<kernel, events, fds_, active_tasks_, stack, pc, future, failed>>

Present(c) == client[c].at \in {"queued", "connected"}

SendPiece(c) == /\ Present(c) /\ client[c].tosend > 0
                /\ client' = [client EXCEPT ![c].tosend = @ - 1, ![c].unread = @ + 1]
                /\ UNCHANGED <<kernel, events, fds_, active_tasks_, stack, pc, future, failed>>

TakeAnswer(c) == /\ Present(c) /\ ~client[c].room
                 /\ client' = [client EXCEPT ![c].room = TRUE]
                 /\ UNCHANGED <<kernel, events, fds_, active_tasks_, stack, pc, future, failed>>

Leave(c) == /\ client[c].at = "connected"
            /\ \/ client[c].room /\ client' = [client EXCEPT ![c].at = "closed"]
               \/ client' = [client EXCEPT ![c].at = "reset"]
            /\ UNCHANGED <<kernel, events, fds_, active_tasks_, stack, pc, future, failed>>

Expire(fd) == /\ open[fd].is = "timer" /\ fd \notin expired
              /\ expired' = expired \cup {fd}
              /\ UNCHANGED <<open, epoll, events, fds_, active_tasks_, stack, pc, client, future, failed>>

JobEnds(c) == /\ future[c] = "pending"
              /\ future' = [future EXCEPT ![c] = "ready"]
              /\ UNCHANGED <<kernel, events, fds_, active_tasks_, stack, pc, client, failed>>

Next == \/ ThreadStep
        \/ \E c \in Conns : Connect(c) \/ SendPiece(c) \/ TakeAnswer(c) \/ Leave(c) \/ JobEnds(c)
                         \/ Relay(c)
        \/ \E fd \in DOMAIN open : Expire(fd)

Spec == Init /\ [][Next]_vars

(* The thread runs, timers run out, the pool works, and a client that does *)
(* not go takes its answer.  Whether a server that a chunk is sent to ever *)
(* answers is left open: the exchange has no time-out.                     *)
Fairness == /\ WF_vars(ThreadStep)
            /\ \A fd \in 1 .. MaxFds : WF_vars(fd \in DOMAIN open /\ Expire(fd))
            /\ \A c \in Conns : WF_vars(JobEnds(c)) /\ WF_vars(TakeAnswer(c))

FairSpec == Spec /\ Fairness

-----------------------------------------------------------------------------
Live == {co \in Coroutines : pc[co] \notin {"none", "ended"}}

(* As long as no epoll_ctl has failed for want of memory, the kernel's     *)
(* interest set is what the masks of fds_ say, at every moment: so         *)
(* ctl_add_or_mod, which goes by the mask, never picks ADD for a           *)
(* descriptor the kernel has or MOD for one it lost, although numbers come *)
(* back as soon as they are closed.                                        *)
KernelAgrees ==
  "epoll" \notin failed =>
    /\ DOMAIN epoll = DOMAIN fds_
    /\ \A fd \in DOMAIN epoll : epoll[fd] = fds_[fd].mask /\ epoll[fd] # {}

(* As long as no epoll_ctl has failed, whoever waits on a descriptor waits *)
(* for the connection, the listening socket or the timer it still stands   *)
(* for, and an event left in a batch from before a close never meets the   *)
(* waiter of a descriptor that got the same number since.                  *)
NoStaleEvent ==
  "epoll" \notin failed =>
    /\ \A fd \in DOMAIN fds_ : \A co \in fds_[fd].rd \cup fds_[fd].wr :
         fd \in DOMAIN open /\ open[fd] \in {Socket(co), Timer(co)}
    /\ \A e \in events : e.fd \in DOMAIN fds_ => open[e.fd] = e.object

(* Every coroutine that has not ended has exactly one way to go on: it is  *)
(* on the stack, or in one list of waiters, or a poller of its own holds   *)
(* its handle.  None is forgotten and none resumed twice, until a wait     *)
(* fails: then the handle stays behind in its list (add_waiter), or a      *)
(* poller ends without resuming its handler (timerfd_create).              *)
Ways(co) ==
  Cardinality({i \in DOMAIN stack : stack[i] = co})
  + Cardinality({fd \in DOMAIN fds_ : co \in fds_[fd].rd})
  + Cardinality({fd \in DOMAIN fds_ : co \in fds_[fd].wr})
  + Cardinality({c \in Conns : co = Handler(c) /\ pc[Poller(c)] \in {"poll", "slept"}})

OneWayOn == failed = {} => \A co \in Live : Ways(co) = 1

(* active_tasks_ counts the coroutines that have not ended, and, as long   *)
(* as no epoll_ctl has failed, only these hold descriptors: run returns,   *)
(* if it does, with nothing left behind.                                   *)
ActiveExact ==
  "epoll" \notin failed =>
    /\ active_tasks_ = Cardinality(Live)
    /\ \A fd \in DOMAIN open : open[fd].of \in Live

(* What the promises about progress rest on: no wait fails, and accept4    *)
(* is never called without a free descriptor (it is called again and again *)
(* then).                                                                  *)
NothingFails == [](failed = {} /\ ~(Running(Acceptor) /\ Free = {}))

(* The thread is in an exchange with the server it replicates a chunk to.  *)
Relaying == \E c \in Conns : Running(Handler(c)) /\ pc[Handler(c)] = "relay"

(* While descriptors last, a connection whose client has sent its request, *)
(* or has gone, is closed in the end, whatever the other connections do,   *)
(* with one exception: a server that a chunk is replicated to (type 4) and *)
(* that never answers keeps the thread, and every connection with it.      *)
ConnectionsEnd ==
  NothingFails =>
    \A c \in Conns :
      \/ (\/ client[c].at = "connected" /\ client[c].tosend = 0
          \/ client[c].at \in {"closed", "reset"}) ~> pc[Handler(c)] = "ended"
      \/ <>[]Relaying

(* Heartbeats go on while descriptors last: no handler and no accept loop  *)
(* keeps the thread, but for a replication that is never answered.         *)
BeatsGoOn ==
  NothingFails => []<>(Running(Beater) /\ pc[Beater] = "send") \/ <>[]Relaying
=============================================================================
