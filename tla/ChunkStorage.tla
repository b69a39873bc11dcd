---------------------------- MODULE ChunkStorage ----------------------------
(***************************************************************************)
(* The chunk storage of one cluster server (chunk_service.cpp).  Requests  *)
(* arrive on the reactor thread, which looks chunks up, deletes them and   *)
(* queues the file work for a pool of threads (thread_pool.hpp).  A pool   *)
(* thread writes a chunk to a path of its own and registers the path when  *)
(* the file is complete.  The registry lives in memory only; the files     *)
(* outlive the process.                                                    *)
(*                                                                         *)
(* delete_chunk erases the registry entry under the mutex and removes the  *)
(* file after it; the two are one step here because the only steps that    *)
(* can fall between (a pool thread registering another path, or reading    *)
(* the file) have the same effect before or after both.                    *)
(***************************************************************************)
EXTENDS Integers, Sequences, FiniteSets

CONSTANTS ChunkIds,    \* unique chunk ids, "<file>_chunk_<n>"
          Data,        \* contents of a chunk
          NoData,      \* the empty vector
          Garbage,     \* part of a chunk
          Readers,     \* connections that retrieve
          MaxStores,   \* bound on stores: generate_chunk_path's seq
          PoolSize     \* threads of io_pool()

ASSUME ChunkStorageAssumption ==
  /\ MaxStores \in Nat /\ PoolSize \in Nat \ {0}
  /\ NoData \notin Data /\ Garbage \notin Data \cup {NoData}

Paths == 1 .. MaxStores
NoPath == 0

VARIABLES
  seq,       \* generate_chunk_path's counter
  put,       \* per path: the store that generated it
  file,      \* per path: "absent", "partial" or "whole"
  registry,  \* chunk_registry
  get,       \* per reader: its retrieval
  queue      \* jobs waiting for a pool thread

vars == <<seq, put, file, registry, get, queue>>

NoGet == [state |-> "idle", path |-> NoPath, data |-> NoData]

Init == /\ seq = 0
        /\ put = [p \in {} |-> 0]
        /\ file = [p \in Paths |-> "absent"]
        /\ registry = [c \in ChunkIds |-> NoPath]
        /\ get = [r \in Readers |-> NoGet]
        /\ queue = <<>>

-----------------------------------------------------------------------------
(* Reactor thread.                                                         *)

(* async_store_chunk up to the submission of the job.                      *)
AsyncStoreChunk(c, d) ==
  /\ seq < MaxStores
  /\ seq' = seq + 1
  /\ put' = [p \in 1 .. seq' |-> IF p = seq' THEN [id |-> c, data |-> d, state |-> "queued"]
                                 ELSE put[p]]
  /\ queue' = Append(queue, [job |-> "put", of |-> seq'])
  /\ UNCHANGED <<file, registry, get>>

(* A faulty variant: the fallback path goes before the registered one.     *)
RetrieveFallbackFirst(r, c, fallback) ==
  LET found == IF fallback # NoPath /\ file[fallback] # "absent"
               THEN fallback ELSE registry[c]
  IN /\ get[r].state = "idle"
     /\ registry' = [registry EXCEPT ![c] = found]
     /\ get' = [get EXCEPT ![r] =
                  [state |-> IF found = NoPath THEN "idle" ELSE "queued",
                   path |-> found, data |-> NoData]]
     /\ queue' = IF found = NoPath THEN queue
                 ELSE Append(queue, [job |-> "get", of |-> r])
     /\ UNCHANGED <<seq, put, file>>

(* async_retrieve_chunk: the registered path, else a fallback path that    *)
(* exists and is registered by the way, else an empty answer at once.      *)
AsyncRetrieveChunk(r, c, fallback) ==
  LET found == IF registry[c] # NoPath THEN registry[c]
               ELSE IF fallback # NoPath /\ file[fallback] # "absent"
               THEN fallback ELSE NoPath
  IN /\ get[r].state = "idle"
     /\ registry' = [registry EXCEPT ![c] = found]
     /\ get' = [get EXCEPT ![r] =
                  [state |-> IF found = NoPath THEN "idle" ELSE "queued",
                   path |-> found, data |-> NoData]]
     /\ queue' = IF found = NoPath THEN queue
                 ELSE Append(queue, [job |-> "get", of |-> r])
     /\ UNCHANGED <<seq, put, file>>

(* delete_chunk of a registered chunk; fs::remove may fail.                *)
DeleteChunk(c) ==
  /\ registry[c] # NoPath
  /\ registry' = [registry EXCEPT ![c] = NoPath]
  /\ \E left \in {"absent", file[registry[c]]} :
       file' = [file EXCEPT ![registry[c]] = left]
  /\ UNCHANGED <<seq, put, get, queue>>

-----------------------------------------------------------------------------
(* Pool threads: a thread takes the job at the head of the queue and keeps *)
(* a store until it has returned.                                          *)
(* A faulty variant: a store that failed never gives its thread back.      *)
BusyForGood == {p \in DOMAIN put : put[p].state \in {"writing", "written", "failed"}}

Busy == {p \in DOMAIN put : put[p].state \in {"writing", "written"}}

Take(job) == /\ queue # <<>>
             /\ Head(queue) = job
             /\ Cardinality(Busy) < PoolSize
             /\ queue' = Tail(queue)

(* The job of async_store_chunk: open, write, register.                    *)
OpenChunk(p) ==
  /\ Take([job |-> "put", of |-> p])
  /\ \/ /\ put' = [put EXCEPT ![p].state = "writing"]
        /\ file' = [file EXCEPT ![p] = "partial"]
     \/ /\ put' = [put EXCEPT ![p].state = "failed"]
        /\ UNCHANGED file
  /\ UNCHANGED <<seq, registry, get>>

(* A faulty variant: a failed write is taken for a complete one.           *)
WriteChunkUnchecked(p) ==
  /\ put[p].state = "writing"
  /\ put' = [put EXCEPT ![p].state = "written"]
  /\ file' \in {file, [file EXCEPT ![p] = "whole"]}
  /\ UNCHANGED <<seq, registry, get, queue>>

WriteChunk(p) ==
  /\ put[p].state = "writing"
  /\ \/ /\ put' = [put EXCEPT ![p].state = "written"]
        /\ file' = [file EXCEPT ![p] = "whole"]
     \/ /\ put' = [put EXCEPT ![p].state = "failed"]
        /\ UNCHANGED file
  /\ UNCHANGED <<seq, registry, get, queue>>

(* A faulty variant: the id is registered in the place of the path.        *)
RegisterChunkId(p) ==
  /\ put[p].state = "written"
  /\ registry' = [registry EXCEPT ![put[p].id] = put[p].id]
  /\ put' = [put EXCEPT ![p].state = "stored"]
  /\ UNCHANGED <<seq, file, get, queue>>

RegisterChunk(p) ==
  /\ put[p].state = "written"
  /\ registry' = [registry EXCEPT ![put[p].id] = p]
  /\ put' = [put EXCEPT ![p].state = "stored"]
  /\ UNCHANGED <<seq, file, get, queue>>

(* The job of async_retrieve_chunk: the whole file, or nothing when it     *)
(* cannot be opened or read.                                               *)
ReadChunk(r) ==
  /\ Take([job |-> "get", of |-> r])
  /\ \E d \in {NoData, CASE file[get[r].path] = "absent" -> NoData
                         [] file[get[r].path] = "partial" -> Garbage
                         [] OTHER -> put[get[r].path].data} :
       get' = [get EXCEPT ![r] = [state |-> "idle", path |-> NoPath, data |-> d]]
  /\ UNCHANGED <<seq, put, file, registry>>

(* The process ends (RESTART, DEAD, a crash) and starts again: jobs and    *)
(* registry are gone, the files stay.                                      *)
Restart ==
  /\ registry' = [c \in ChunkIds |-> NoPath]
  /\ put' = [p \in DOMAIN put |-> IF put[p].state \in {"queued", "writing", "written"}
                                  THEN [put[p] EXCEPT !.state = "lost"] ELSE put[p]]
  /\ get' = [r \in Readers |-> NoGet]
  /\ queue' = <<>>
  /\ UNCHANGED <<seq, file>>

-----------------------------------------------------------------------------
(* The head server names as fallback a path some store of the id returned. *)
Fallbacks(c) == {NoPath} \cup {p \in DOMAIN put : put[p].id = c /\ put[p].state = "stored"}

Pool == \/ \E p \in DOMAIN put : OpenChunk(p) \/ WriteChunk(p) \/ RegisterChunk(p)
        \/ \E r \in Readers : ReadChunk(r)

Next == \/ \E c \in ChunkIds, d \in Data : AsyncStoreChunk(c, d)
        \/ \E r \in Readers, c \in ChunkIds : \E p \in Fallbacks(c) :
             AsyncRetrieveChunk(r, c, p)
        \/ \E c \in ChunkIds : DeleteChunk(c)
        \/ Pool
        \/ Restart

Spec == Init /\ [][Next]_vars

(* The pool's threads keep taking and finishing jobs.                      *)
Fairness == /\ \A p \in Paths : WF_vars(p \in DOMAIN put /\ (WriteChunk(p) \/ RegisterChunk(p)))
            /\ WF_vars(\E p \in DOMAIN put : OpenChunk(p))
            /\ WF_vars(\E r \in Readers : ReadChunk(r))

FairSpec == Spec /\ Fairness

-----------------------------------------------------------------------------
(* Type invariant.                                                         *)
TypeOK ==
  /\ seq \in 0 .. MaxStores
  /\ put \in [1 .. seq -> [id : ChunkIds, data : Data,
                           state : {"queued", "writing", "written", "stored",
                                    "failed", "lost"}]]
  /\ file \in [Paths -> {"absent", "partial", "whole"}]
  /\ registry \in [ChunkIds -> Paths \cup {NoPath}]
  /\ get \in [Readers -> [state : {"idle", "queued"}, path : Paths \cup {NoPath},
                          data : Data \cup {NoData, Garbage}]]
  /\ queue \in Seq([job : {"put"}, of : Paths] \cup [job : {"get"}, of : Readers])

(* The registry never names a file that is incomplete, removed or another  *)
(* chunk's, however stores, retrievals with fallback paths, deletions,     *)
(* write errors and restarts interleave (async_store_chunk registers after *)
(* fdatasync; async_retrieve_chunk registers a fallback that exists).      *)
RegistryNamesWholeFiles ==
  \A c \in ChunkIds : registry[c] # NoPath =>
    /\ registry[c] \in DOMAIN put
    /\ put[registry[c]].id = c
    /\ put[registry[c]].state = "stored"
    /\ file[registry[c]] = "whole"

(* The state of ChunkRegister: what the registered and the requested paths *)
(* hold, and the data of completed stores.                                 *)
DataAt(p) == IF p = NoPath THEN NoData ELSE put[p].data

Value == [c \in ChunkIds |-> DataAt(registry[c])]
Past == [c \in ChunkIds |-> {put[p].data : p \in {q \in DOMAIN put :
                                put[q].id = c /\ put[q].state = "stored"}}]
Pending == [r \in Readers |-> [asked |-> get[r].state = "queued", data |-> DataAt(get[r].path)]]
Result == [r \in Readers |-> get[r].data]

Register == INSTANCE ChunkRegister WITH
  value <- Value, past <- Past, pending <- Pending, result <- Result

(* The node keeps the promise of ChunkRegister: a retrieval returns the    *)
(* whole data of the store that was current when it was asked, or nothing; *)
(* never part of a chunk, never another chunk's data.                      *)
ImplementsRegister == Register!Spec

(* Every retrieval is answered: no error path of a store keeps a pool      *)
(* thread, so the queue always moves on.                                   *)
RetrievalsReturn ==
  \A r \in Readers : get[r].state = "queued" ~> get[r].state = "idle"
=============================================================================
