# A TLA+ model of the distributed file grid

This directory holds TLA+ modules that model the grid, TLC configurations that
check them on small instances, and TLAPS proofs. All line numbers refer to the
sources named in `PROJECT.json`, which maps every definition to the code it
stands for.

## The system

| Part | State | Operations that change it | Talks to |
| --- | --- | --- | --- |
| Metadata store, on-disk backend (`redis_handler.hpp`) | map file -> hash and chunk records; database file | `create_entry`, `delete_entry`, `atomic_replace_server_chunks`, `delete_server_metadata`, `persist_locked`, `load_from_disk` | upload, delete and failover call it |
| Metadata store, Redis backend (`redis_handler.hpp`) | one hash per file, with a time to live | the same operations as series of commands | Redis |
| Chunk storage (`chunk_service.cpp`, `thread_pool.hpp`) | registry chunk id -> path (memory), chunk files (disk), job queue | `async_store_chunk`, `async_retrieve_chunk`, `delete_chunk`, restart | head server, clients (`GET_CHUNK`) |
| Event loop of a cluster server (`async_net.hpp`) | interest set, waiters, timers, coroutines | `add_waiter`, `take_waiters`, `run`, accept, handlers, pollers | clients, the thread pool |
| Server registry, health monitor (`server_registry.hpp`, `health_monitor.hpp`) | address by id, id counter; health record by id | `add_server`, `remove_server`, `set_next_id`, `record_heartbeat`, `check_health`, `register_server` | control API, heartbeats, failover threads |
| Failover (`head_server.cpp`) | `g_recovering_servers`, one thread per unhealthy record | guard, consensus, DEAD, removal, re-replication | nodes, metadata store, chunk storage |
| Upload, download, delete (`file_upload.cpp`, `head_server.cpp`, `client.cpp`) | one session per request, transfer pool | see module Grid | metadata store, chunk storage |
| Control API (`control_api.hpp`) | none of its own | self-register, add, remove, restart, status | registry, health monitor |
| Cluster server process (`cluster_server.cpp`) | whether it runs | heartbeats, registration every five seconds | head server |
| ZooKeeper monitor (`zk_monitor.cpp`, `zookeeper_client.cpp`) | znodes in its own memory; head servers of the round, leader | discovery, health checks, election; registration; POST and DELETE of znodes | head servers, operators |
| Health checker (`health_checker.cpp`) | a record per server heard of, counters | heartbeats, rounds of the monitor, triggers | cluster servers over UDP |

What makes it hard: no lock covers two requests for the same file, or a
request and a failover; each session reads the metadata once and acts on that
copy. Nodes lose their registry when they stop and keep their files. The
database file is truncated and rewritten in place; on Redis an operation is not
even atomic. Registry and health monitor number servers independently. The event
loop names descriptors by numbers that the kernel gives out again.

## Modules

**Metadata** is the store's data and its operations as operators on a map. A
chunk vector is a function from records to their `replica_count`. `LoadFromDisk`
is the reader, `PersistLocked` the records that a complete rewrite reads back
as, and `CutImages` the same for a rewrite that stopped in its middle: a subset
of whole files, one file of which some lines are there, and possibly a last line
that is cut.

**MetadataStore** is the on-disk store as a process. Every operation changes the
map and enters `persist_locked` (`phase = "writing"`); the rewrite ends well,
meets an I/O error, or is interrupted by a crash; `Restart` loads the file.
`written` and `faulted` are history variables.

**RedisStore** is the same store on Redis. A hash has a field per replica; every
operation is a series of commands (`pc` of an upload, deletion or failover names
the next one), and the commands of other threads come between any two. A
pipeline is sent as a whole and is no transaction, so its commands are steps of
their own. Any command may throw (`MaxFaults`) and a key may expire. The variable
`local` carries along what the on-disk backend would hold, with the operators of
Metadata; `apart` names the files whose records may differ from it because
requests overlapped, failed, expired or met an older record; `disturbed` names
the uploads and failovers whose records something else may have taken away. Only
the properties read these three.

**ChunkRegister** is what a node promises: a retrieval gives the data that was
current when it was asked, or data a fallback path names, or nothing.
**ChunkStorage** is the code: the reactor thread looks up, deletes and queues;
pool threads open, write and register; a restart empties registry and queue.
`ImplementsRegister` is the refinement: a chunk's value is the data of the store
whose path is registered (`Value`, `Past`, `Pending`, `Result`).

**Reactor** is the event loop and the coroutines on it. `stack` holds the
coroutines that have been resumed and have not suspended: one resumes another
inside its own call. `open` is the kernel's descriptor table, which gives out the
lowest free number; `epoll` the kernel's interest set, `fds_` the loop's own
table of masks and waiters; `events` the rest of the batch `epoll_wait`
returned. Handlers wait for pieces of a request, for their pool job through a
poller that sleeps on timers, and for room to send; clients send, close, reset
or take their answer between any two steps. `Relay` is the replication of a chunk
to another server (message type 4): it connects, sends and receives on a blocking
socket and keeps the thread meanwhile. `AcceptFails` is the accept loop at the
descriptor limit. `failed` records a wait that failed: `epoll_ctl` for want of
memory, which leaves the handle in its list, or `timerfd_create`. After the first
the thread may resume a coroutine that has ended; that is undefined, so the
properties are claimed up to it. Left out are the requests that end the process
and the wait of a heartbeat whose UDP socket is full (`wait_writable` in
`heartbeat_sender`).

**Membership** is registry, health monitor, control API, failover threads and
nodes. Time counts rounds of the health check. A request takes as many steps as
it takes locks: `SelfRegister` is `handle_self_register` up to `set_next_id`,
`FinishAdd` its `add_server`, `FinishRegister` its `register_server`;
`HandleAddServer` and `FinishRegister` are `handle_add_server`. `RestartHead` is
what follows a `restart_head` or `restart_all` request: the process executes its
program anew and keeps only its configuration. `DELETE` on a server is not an
action: the handler cuts the id out of the path one character early, where `stoi`
throws, and answers 400 without a change; the same cut is why no peer ever
contradicts a failover (`PeerSaysHealthy`). A RESTART request to a node is a
`Crash` followed by a `Start`.

**Grid** composes metadata, nodes and sessions. Metadata operations are those of
Metadata, each one step because the store's mutex covers it; a node is what
ChunkRegister promises. An upload is a session plus the transfers it submits,
which outlive it when it is aborted. A download is the head server's snapshot,
its hash questions and vote, then the client's fetches and checks. A deletion and
a failover are sequences of steps with everything else in between. A failed
exchange may have happened at the server or not. `mixed`, `clean` and `disturbed`
are history variables that only the properties read.

How the head server reaches a node is part of Grid. `entry` is the node's entry in
the server registry: none, one without ports (`"bare"`) or one with ports.

- Entries from the configuration file (`Configured`) and entries an operator makes
  (`Added`; the command line tool sends no ports) are bare; a node that registers
  itself (`Registered` at the start, `AddServer` later) brings its ports, but not
  if it has an entry already.
- Without ports, transfers, hash questions and copies go to port 8180, which is
  the right one for the nodes in `DefaultPort` only (`Reached`).
- The client is told the public port in the entry, which for a bare one is -1, or
  8080 where there is none; chunks are not served on either, so the fetch fails
  (`ported`). Hence downloads from nodes of the configuration file never work.
- DELETE_CHUNK goes to the address in the record and needs no entry.
- A failover takes an entry away by the id of the health record, which need not be
  the dead node's (`RemoveServer`). The node may be running; DEAD is then a `Crash`
  or lost.

A look-up and the exchange after it are one step. Reading a copy and storing it
are two. Every node has a host of its own, as in `deploy/docker/docker-compose.yml`;
several nodes that share a host, where port 8180 may be a neighbour's, are not
modelled.

**ZkMonitor** is the monitor of the head servers. A round lists the znodes, reads
each, checks each, scans for the best candidate and writes the leader, one step
per server, so that operators and head servers act in between. A znode that says
`status=healthy` may be believed without a connection
(`CheckHeadServerHealth`). A round starts from an empty map, so no server is
marked as leader when the election begins, and the branch that keeps or demotes
the last leader is left out. `answered` and `led` are history variables.

**HealthChecker** is the health checker daemon. `net` holds the heartbeats under
way, which are lost or arrive after their sender ended; `HealthMonitor` is one
round over all records. A round takes a little more than its interval, so the
round that falls on the timeout may find a record too old or not (`TooOld`).
`receiving` is false when the head server on the same host holds the UDP port.
`online` and `triggers` are history variables.

`MCMetadataStore`, `MCRedisStore`, `MCReactor`, `MCMembership`, `MCGrid`,
`MCZkMonitor` and `MCHealthChecker` give constants their values; ChunkStorage
needs no such module. The modules named `...Proofs` hold theorems (below).

## Runs

| Run | Instance | Checks |
| --- | --- | --- |
| `metadata` | two files, one of them empty, two chunks, two servers, I/O errors, crashes | counts exact, returned changes restored, nothing invented, with a rewrite cut between and inside files |
| `redis` | one file, two uploads, a deletion, a failover, three servers, five vectors, one command that throws | requests that do not overlap leave what the on-disk backend leaves; uploads keep each other's replicas; a failover forgets the dead server |
| `chunk_storage` | two chunks, two contents, three stores, two readers, two threads | registry names whole files only, refinement of ChunkRegister, retrievals return |
| `reactor` | two connections, six descriptors, two events per batch, an `epoll_ctl` of a handler that fails | kernel and masks agree, no event reaches the wrong coroutine, each coroutine has one way to go on; connections end and heartbeats go on, unless a replication is never answered |
| `membership` | two configured nodes, lost heartbeats, one return of a node or restart of the head server | addresses unique, one failover per server; nodes whose registrations are served are registered, silent nodes noticed, failovers end unless they wait for an answer for good |
| `grid_requests` | two servers that register, two uploads of two chunks (one possibly empty), a download, a deletion, two replicas | what is downloaded is one committed upload; an undisturbed download works |
| `grid_failover` | three servers, one of the configuration and two registered, two an operator may add, failover of one, upload, download, deletion, one crash or failed exchange | undisturbed downloads work after failovers, no deleted file comes back, every request ends unless it waits for a running server for good |
| `zk_election` | three head servers, two configured, three changes by operators or servers | the elected candidate is undominated, former leaders are asked, in the end only servers that are up lead |
| `health` | two servers, three ends, timeout 2 and 3 misses as configured | running servers are not marked, silent ones are marked once and stay so, counters add up |
| `membership_kill`, `redis_expiry`, `grid_replicas` | as small as the case allows | statements of the documentation that the code does not keep (below) |

Bounds. Two chunks are the least that can be mixed, two uploads the least that
can compete, two replicas the least with a vote that can tie, three servers the
least with which a failover has a source and a target. Three head servers are
the least for which a partial order can mislead a scan; three changes allow a
leader to stop, be deleted and be registered again, and the `changes` counter
also makes the environment come to rest, which `LeaderComesUp` is about. Three
stores on one node give a chunk that is overwritten while the other is written.
In Membership `Timeout` and `MaxMissed` are at their least in the large run, so
that a failover is a round away from every heartbeat; `MaxId` leaves every node
one id more than it needs. On Redis one file is enough because the only commands
that reach several files are the failover's, which treat each alike; one throwing
command is enough to leave each operation half done. Two connections and two
events per batch are the least with which one event closes a descriptor that a
later one names; two connections with their timers, the listening socket and the
periodic timer take all six descriptors at once, so both pollers can sleep and
`accept4` can find none left. A seventh is never wanted: that `timerfd_create`
fails, or `epoll_ctl` for another coroutine than a handler, is left to the proofs.
In `grid_failover` the three servers are of three kinds: one on port 8180 that
registered, one on another port, one of the configuration. `MaxFaults` is one
crash or failed exchange, the least that makes a failover needed or a copy fail;
the failover takes one entry away, of any server, which may come back. `MaxGap` in
HealthChecker is the most rounds without a heartbeat for which the daemon's two
limits promise anything. Two downloads that work from different versions of a
file while a server restarts are too many states for a run that also has
deletions and votes; there the proof of `CleanDownloadSucceeds` says what the
runs cannot. Servers are symmetric where no failover names one.
`CHECK_DEADLOCK` is off for Grid, RedisStore and Reactor: an instance has finitely
many requests and stops when all are answered, and `RequestsEnd` shows for Grid
what a request can be stuck on before; Reactor stops where the code's behaviour
becomes undefined.

Fairness. The monitor's loop and its main thread, pool threads, session threads,
the health check and failover threads run (weak fairness per thread). Only
connecting has a time-out; `send` and `recv` have none, neither in the head server
nor in the client. So nothing is assumed of an exchange with a server that runs:
it may wait for good, and what shares its threads with it. `TransferWaits`,
`DownloadWaits`, `DeleteWaits` and `FailoverWaits` say when one is waiting, no step
is fair then, and `RequestsEnd` says that a request that never ends waits in this
way for good: a server that ended or that is not reached holds up nothing. In the
same way a failover in Membership may wait for a peer head server or a node
(`AwaitsAnswer`), which is what `FailoversEnd` leaves open. A client that has begun
an upload goes on or stops. The control API receives from one client after another
and waits for each, so nothing is assumed of when a node's registration is served:
`LiveIsRegistered` speaks of nodes whose registrations are. In Reactor the one
thread runs, timers expire, pool jobs end and clients take what is sent to them;
clients need not connect or send, and a server a chunk is replicated to need not
answer (`Relaying`). `ConnectionsEnd` and `BeatsGoOn` are about behaviours in which
no wait fails and `accept4` finds a descriptor (`NothingFails`). In HealthChecker both coroutines run, running servers keep
sending, and the network does not lose every datagram of a server (strong
fairness of `HeartbeatReceiver`). Nodes need not come back, clients need not ask.

## Statements the code does not keep

- `LiveIsNotKilled` (`membership_kill`): `handle_add_server` makes a health record
  under the registry's id. In the run an operator adds node n2, which gets id 1,
  while its heartbeats carry its own id, 2: record 1 goes stale and the running
  node is declared dead. (`handle_self_register` makes its record in the same way.)
  The node's znode is not seen because `zookeeper_client.cpp` keeps znodes in the
  memory of each process.
- `OnlyDeletionForgets` (`redis_expiry`): every upload asks for a time to live of
  an hour, and with Redis the file's metadata then disappears, while its chunks
  stay. The on-disk backend ignores the time to live.
- `FailoverKeepsReplicas` (`grid_replicas`): an upload that commits during a
  failover loses its record on the dead server without a copy elsewhere.

Seen while reading and not checked:

- Downloads. A download that read the metadata before a new upload of the file
  committed asks servers for the older path. One that restarted since has an empty
  registry, finds that file on its disk and registers it
  (`chunk_service.cpp:182-184`); from then on it answers downloads of the new
  version with the older chunk, and they can fail although nothing is lost.
  A file on nodes of the configuration file, or on nodes an operator added, cannot
  be downloaded: their entries have no public port.
- Registry and requests. `set_next_id` can move the id counter back to an id in
  use, and `add_server` then overwrites that entry. A node never gets the id it
  registers with. An upload succeeds when any transfer succeeded, also when a
  chunk is stored nowhere. A download never calls `repair_chunk_on_server`,
  although the repository's README speaks of read repair. A 0-byte file cannot
  be deleted, since a file without records is "not found". A deletion that
  reached part of the replicas cannot be completed by repeating it.
- Redis. The failover's pipeline brings back the key of a file that was deleted
  or expired since it was read, without hash and without time to live, although
  `head_server.cpp:929` says "Atomically". Two overlapping uploads of a name mix
  their chunk fields and hashes, and an upload over an older version keeps the
  older replicas on other servers. A command that throws is swallowed and the
  client is told SUCCESS.
- Heartbeats. They go to one address only, and head server and health checker
  both bind UDP port 9000: on one host the second bind fails and its receiver
  returns; on two hosts one of them hears nothing.
- Health checker. `servers_recovered_` is never increased: a heartbeat makes its
  record healthy before the monitor sees it. `trigger_replication` counts and
  prints. With the on-disk backend the checker reads a copy of the metadata from
  its own start.
- Event loop. At the descriptor limit `accept4` fails and is called again without
  suspending, so that the thread serves nobody until another thread frees a
  descriptor. A replication to another server (type 4) blocks the thread, for good
  if that server does not answer, or is this one. Where `timerfd_create` fails, the coroutine that wanted to sleep
  ends: a handler whose poller ends so is never resumed.
- Election. It replaces a healthy leader when a better server appears, although a
  comment (`zk_monitor.cpp:453`) says that there is no need to, and takes the
  server with the lowest figures where a comment (`zk_monitor.cpp:479`) says the
  lowest id. A head server deleted during a round can get its znode back.

## Proofs

Each theorem holds for every value of the constants that satisfies the named
assumption of its module: any number of files, chunks, servers, requests,
threads, crashes and lost messages. In each case the property alone is not
preserved by every step; the inductive invariant adds what the steps rely on.

**MetadataStoreProofs** (`MetadataStoreAssumption`). `TypeCorrect`: `Spec =>
[]TypeOK`; `CountsAlwaysExact`: `Spec => []CountsExact`. Invariant `IInv ==
TypeOK /\ CountsExact`: that the recounting loops give exact counts needs the
records to be well formed and their sets finite, in memory and, for a restart, in
the file. It needs nothing else about the file, because `load_from_disk` recounts
whatever it reads; a cut file only has to be well formed (`CutImagesType`). One
lemma per operation of Metadata says that it yields sound maps.
`ReturnedAlwaysRestored`: what an operation returned from is what a restart
restores, unless a rewrite failed. `NeverInvented`: nothing a cut rewrite reads
back as was not in the map. Invariant `DiskInv`: `IInv`, both properties, and
`AllCounted`, that a file with records has a positive `replica_count`; otherwise
the reader would fill it in and change it.

**RedisStoreProofs** (`RedisAssumption`). `ReplicasAlwaysKept`: `Spec =>
[]ReplicasKept`; `DeadServerAlwaysForgotten`: `Spec => []DeadServerForgotten`. The
first needs `FieldsKept`, the property from the HSET of the fields on, and
`FailoverDisturbs`, since a failover may remove a field at any of its commands.
The second needs that no upload is at work beside an undisturbed failover
(`UploadsOver`), that other failovers copy to disturbed servers only
(`CopiesDisturb`), and that what is left of the dead server is still on the list
of what to read or to remove (`RestIsListed`). The proof has one lemma per command.
`HashesAlwaysTyped`: `Spec => []TypeOK`. `BackendsAlwaysAgree`: `Spec =>
[]BackendsAgree`. Between the commands of one operation the two backends do
differ, so the invariant `Agreeing` says by how much: for every file not set apart,
requests come one at a time (`OneAtATime`), an upload has written the fields its
`pc` has passed and no others (`Written`), a failover's copies are in the hash or
in its pipeline and the dead server's fields are listed (`Copied`), and the
records are equal when none is at work (`Matches`).

**ChunkStorageProofs**. `StorageAlwaysTyped`: `Spec => []TypeOK`;
`RegistryAlwaysWhole`: `Spec => []RegistryNamesWholeFiles`;
`StorageImplementsRegister`: `Spec => ImplementsRegister`, every step is a step or
a stutter of ChunkRegister. Invariant: type
correctness, `FilesOfStores` (a complete store has a whole file until it is
deleted), `GetsOfStores` (a queued retrieval works on the path of a complete
store) and `QueueExact` (a job is in the queue once, and only while its store or
retrieval waits), which is what makes a pool thread's step the only one for its
job.

**MembershipProofs**. `RegistryHoldsAddressOnce`: `Spec => []AddressesUnique`,
inductive as it stands because `add_server` looks for the address before it takes
an id. `FailoversExcludeEachOther`: `Spec => []OneFailoverPerServer`, with the
shape of the threads (`GuardInv`). `MembershipAlwaysTyped`: `IdsWithinBound /\ Spec
=> []TypeOK`. `IdsWithinBound` says that the bound on ids leaves room for the
configured servers and for the nodes' own ids; without it the configuration or a
first heartbeat would already be outside the bound.

**ReactorProofs** (`ReactorAssumption`). `KernelAlwaysAgrees`, `EventsNeverStale`
and `ActiveAlwaysExact`: `Spec => []KernelAgrees`, `[]NoStaleEvent` and
`[]ActiveExact`. One invariant carries all three: nobody is on the stack twice
(`IsStack`), a coroutine is at a place of its kind (`Places`), a poller at work
holds a suspended handler (`Held`), every descriptor has one owner, which needs it
(`Descriptors`), a descriptor in `fds_` has its owner as its one waiter
(`Waiters`), the rest of a batch names descriptors that are waited for still, one
event each (`Batch`), and `active_tasks_` counts the coroutines that have not
ended (`Counted`). `Batch` is why no event is stale: a coroutine closes only a
descriptor of its own, and it runs only after its own event was taken out of the
batch. All of it holds until an `epoll_ctl` fails for want of memory, which the
properties say themselves. `OneWayAlwaysOn`: `Spec => []OneWayOn`, for any number of
descriptors, until any wait fails: a poller for which `timerfd_create` fails ends,
and nothing resumes its handler.

**GridProofs**. `OnlyCommittedIsDownloaded`: `Spec => []DownloadedIsCommitted`;
`NeverResurrected`: `Spec => NoResurrection`. Invariant: every hash in the store
and every hash a download works with is the hash of a committed upload of that
file (`StoreCommitted`, `SnapshotCommitted`). The steps are described by three
facts, `UploadsKept`, `StoreFromUploads` and `DownloadsFromStore`, shown for each
action; the invariant and the action property follow from them. Nothing about
the servers is needed: whatever they hold, the client compares with the hash.
That hashes of different contents differ is built into `Content`.

`GridAlwaysTyped`: `Spec => []TypeOK`, with the shape of every session (`Shaped`).
`CleanDownloadsAlwaysSucceed`: `Spec => []CleanDownloadSucceeds`, the one theorem
here that needs the servers. It rests on `GridAssumption`, which makes the chunk
ids 0, 1, ... and the servers finite, as they are in the code. The invariant
`CleanInv` follows a version of a file from its upload on:

- `Overlaps`, `Arrived`: an upload that overlaps another change is in `mixed`; of
  one that is not, every finished transfer has its chunk on disk, and whatever its
  server serves as that chunk is of this upload;
- `AskingPorted`: the running servers whose replicas an undisturbed download may
  still choose are entered with their ports;
- `Copies`, in `GoodRecords`: what a failover has read and not yet stored is of the version its
  records are of;
- `GoodRecords`: while a version is clean, or a download that nothing disturbed
  works from it (`Protected`), every record in the store, in a failover's list or
  among its updates, and in a download's copy is `Good`: the file at its path is of
  this version, and so is whatever its server has registered for the chunk;
- `ReadersWell`: the votes and the plan of an undisturbed download, so that the
  vote finds one hash per chunk and each chosen server gives the client its data.

A step keeps `CleanInv` if it satisfies a few facts on what it changes (`NodesFact`,
`RecordsFact`, ...; `FactsSuffice`), which are shown for each action. The proof
showed that the history variables had missed a case: see "Downloads" above on a
path that is registered again. `TakenUp` now counts it as a change of the file.

**ZkMonitorProofs** (`ZkMonitorAssumption`). `ElectedAlwaysUndominated`: `Spec =>
[]ElectedIsUndominated`; `FormerLeaderAlwaysChecked`: `Spec =>
[]FormerLeaderIsChecked`. Invariant: the candidate is undominated among the
servers already looked at (`BestOf`), which replacing it keeps because domination
is a strict order (`DominatesOrder`) and a tie has the same figures; and that a
healthy status is an answer of this round or of a server that never led
(`HealthyIsTrusted`), because a znode of a former leader says so (`LedIsMarked`).
`MonitorAlwaysTyped`: `Spec => []TypeOK`; that a leader is always somebody needs
that an election has candidates, and published figures must be figures the server
reports (`Figures`).

**HealthCheckerProofs** (`HealthAssumption`). `RunningNeverMarked`: `Spec =>
RunningIsNotMarked`; `TriggeredOnce`: `Spec => []OneTriggerPerSilence`. Invariant
`Consistent`: the misses of a record are at most the rounds since the timeout, and
an unhealthy record is past it; `Triggered`: a trigger belongs to an unhealthy
record. `CheckerAlwaysTyped`: `Spec => []TypeOK`; `StatusAlwaysBalances`: `Spec =>
[]StatusBalances`, which compares counters with the number of healthy records and
so needs that finitely many servers were heard of, whatever `Nodes` is
(`Balanced`). `HealthAssumption` bounds `MaxGap` by `Timeout + MaxMissed - 2`, the
longest silence the daemon's two limits tolerate.

Every safety property of a passing run is proved. Only model-checked: liveness
under fairness (`RetrievalsReturn`, `LiveIsRegistered`, `SilentIsNoticed`,
`FailoversEnd`, `RequestsEnd`, `LeaderComesUp`, `ConnectionsEnd`, `BeatsGoOn`,
`SilentIsMarked`, `BeatingIsHealthy`), which needs ENABLED and is beyond the
prover.

## Not modelled

- The configuration loader: it parses a text once at start-up, and its hot reload
  (`config_reload::install`) has no caller, so a running process never changes it.
- SHA-256: hashes of different contents are taken to differ.
- Message framing, protobuf encoding, the command line tool, metrics and system
  information: formats and read-only reports on which no other part decides.
- ZooKeeper watches and sequence nodes, the monitor's health reports and its own
  znode, and posted znodes that are no registration.
- Several cluster servers on one host, as far as their ports meet.
- Start-up code, such as starting a Redis server, and `DEAD`, `KILL` and
  `RESTART` inside Reactor, which end the process.

`components` in `PROJECT.json` gives the reason for each part.
