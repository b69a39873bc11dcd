------------------------- MODULE ChunkStorageProofs -------------------------
(***************************************************************************)
(* A storage node keeps the promise of ChunkRegister for every number of   *)
(* chunks, readers, stores and pool threads.                               *)
(***************************************************************************)
EXTENDS ChunkStorage, TLAPS

Jobs == [job : {"put"}, of : Paths] \cup [job : {"get"}, of : Readers]

(* A complete store has a whole file until it is deleted.                  *)
FilesOfStores ==
  \A p \in 1 .. seq : /\ put[p].state = "written" => file[p] = "whole"
                      /\ put[p].state = "stored" => file[p] \in {"whole", "absent"}

(* A retrieval in the queue works on the path of a complete store.         *)
GetsOfStores ==
  \A r \in Readers :
    /\ get[r].state = "idle" => get[r].path = NoPath
    /\ get[r].state = "queued" => get[r].path \in 1 .. seq /\ put[get[r].path].state = "stored"

(* A job is in the queue once, and only while its store or its retrieval   *)
(* waits for it.                                                           *)
Waits(j) == \/ j.job = "put" /\ j.of \in 1 .. seq /\ put[j.of].state = "queued"
            \/ j.job = "get" /\ j.of \in Readers /\ get[j.of].state = "queued"
QueueExact ==
  /\ \A i \in 1 .. Len(queue) : Waits(queue[i])
  /\ \A i, j \in 1 .. Len(queue) : i # j => queue[i] # queue[j]

Inv == TypeOK /\ FilesOfStores /\ RegistryNamesWholeFiles /\ GetsOfStores /\ QueueExact

-----------------------------------------------------------------------------
(* What a pool thread takes is a job that was waiting and, being in the    *)
(* queue once, is gone from it.                                            *)
LEMMA Taken ==
  ASSUME TypeOK, QueueExact, NEW job, Take(job)
  PROVE  /\ job \in Jobs /\ Waits(job)
         /\ queue' \in Seq(Jobs)
         /\ Len(queue') = Len(queue) - 1
         /\ \A i \in 1 .. Len(queue') : /\ i + 1 \in 1 .. Len(queue)
                                        /\ queue'[i] = queue[i + 1]
                                        /\ queue'[i] # job
<1>1. queue \in Seq(Jobs) /\ queue # <<>> /\ job = queue[1] /\ queue' = Tail(queue)
  BY DEF TypeOK, Take, Jobs
<1>2. Len(queue) \in Nat \ {0} /\ 1 \in 1 .. Len(queue)
  BY <1>1
<1>3. job \in Jobs /\ Waits(job)
  BY <1>1, <1>2 DEF QueueExact
<1>4. queue' \in Seq(Jobs) /\ Len(queue') = Len(queue) - 1
  BY <1>1, <1>2
<1>5. ASSUME NEW i \in 1 .. Len(queue')
      PROVE  i + 1 \in 1 .. Len(queue) /\ queue'[i] = queue[i + 1] /\ queue'[i] # job
  <2>1. i + 1 \in 1 .. Len(queue) /\ i + 1 # 1
    BY <1>2, <1>4, <1>5
  <2>2. queue'[i] = queue[i + 1]
    BY <1>1, <1>2, <1>4, <2>1
  <2> QED
    BY <1>1, <1>2, <2>1, <2>2 DEF QueueExact
<1> QED
  BY <1>3, <1>4, <1>5

(* A job that was not waiting comes to the end of the queue.               *)
LEMMA Queued ==
  ASSUME TypeOK, QueueExact, NEW job \in Jobs, ~Waits(job), queue' = Append(queue, job)
  PROVE  /\ queue' \in Seq(Jobs)
         /\ \A i \in 1 .. Len(queue') : queue'[i] = job \/ Waits(queue'[i])
         /\ \A i, j \in 1 .. Len(queue') : i # j => queue'[i] # queue'[j]
<1>1. queue \in Seq(Jobs)
  BY DEF TypeOK, Jobs
<1>2. /\ queue' \in Seq(Jobs) /\ Len(queue') = Len(queue) + 1 /\ Len(queue) \in Nat
      /\ queue'[Len(queue) + 1] = job
      /\ \A i \in 1 .. Len(queue) : queue'[i] = queue[i] /\ queue[i] # job
  BY <1>1 DEF QueueExact
<1>3. \A i \in 1 .. Len(queue') : i \in 1 .. Len(queue) \/ i = Len(queue) + 1
  BY <1>2
<1> QED
  BY <1>2, <1>3 DEF QueueExact

-----------------------------------------------------------------------------
LEMMA InitInv == Init => Inv
<1> SUFFICES ASSUME Init PROVE Inv
  OBVIOUS
<1>1. queue = <<>> /\ Len(queue) = 0 /\ queue \in Seq(Jobs)
  BY DEF Init
<1>2. TypeOK
  BY <1>1, ChunkStorageAssumption DEF Init, TypeOK, NoGet, Paths, NoPath, Jobs
<1>3. FilesOfStores /\ RegistryNamesWholeFiles /\ GetsOfStores /\ QueueExact
  BY <1>1 DEF Init, FilesOfStores, RegistryNamesWholeFiles, GetsOfStores, QueueExact, NoGet
<1> QED
  BY <1>2, <1>3 DEF Inv

(* The state of a store changes, that of no other, and nothing turns to    *)
(* "queued"; a complete store stays complete.                              *)
Advances(p, state) ==
  /\ p \in 1 .. seq
  /\ put[p].state \in {"queued", "writing", "written"} \ {state}
  /\ state \in {"writing", "written", "stored", "failed"}
  /\ put' = [put EXCEPT ![p].state = state]
  /\ UNCHANGED <<seq, get>>

LEMMA AdvancePut ==
  ASSUME TypeOK, NEW p, NEW state, Advances(p, state)
  PROVE  /\ put' \in [1 .. seq -> [id : ChunkIds, data : Data,
                           state : {"queued", "writing", "written", "stored", "failed", "lost"}]]
         /\ put'[p] = [id |-> put[p].id, data |-> put[p].data, state |-> state]
         /\ \A q \in (1 .. seq) \ {p} : put'[q] = put[q]
BY DEF TypeOK, Advances

LEMMA StoreInv ==
  ASSUME Inv, NEW c \in ChunkIds, NEW d \in Data, AsyncStoreChunk(c, d)
  PROVE  Inv'
<1> DEFINE new == [id |-> c, data |-> d, state |-> "queued"]
           job == [job |-> "put", of |-> seq + 1]
<1>1. /\ seq \in Nat /\ seq' = seq + 1 /\ seq' \in 0 .. MaxStores
      /\ queue' = Append(queue, job) /\ UNCHANGED <<file, registry, get>>
      /\ seq + 1 \notin 1 .. seq /\ seq + 1 \in Paths
  BY ChunkStorageAssumption DEF AsyncStoreChunk, Inv, TypeOK, Paths
<1>2. /\ DOMAIN put = 1 .. seq /\ DOMAIN put' = 1 .. (seq + 1)
      /\ put'[seq + 1] = new
      /\ \A p \in 1 .. seq : put'[p] = put[p] /\ p \in 1 .. (seq + 1)
      /\ \A p \in 1 .. (seq + 1) : p = seq + 1 \/ p \in 1 .. seq
  BY <1>1 DEF AsyncStoreChunk, Inv, TypeOK
<1>3. put' \in [1 .. seq' -> [id : ChunkIds, data : Data,
                   state : {"queued", "writing", "written", "stored", "failed", "lost"}]]
  BY <1>1 DEF AsyncStoreChunk, Inv, TypeOK
<1>4. job \in Jobs /\ ~Waits(job)
  BY <1>1 DEF Jobs, Waits
<1>5. /\ queue' \in Seq(Jobs)
      /\ \A i \in 1 .. Len(queue') : queue'[i] = job \/ Waits(queue'[i])
      /\ \A i, j \in 1 .. Len(queue') : i # j => queue'[i] # queue'[j]
  BY <1>1, <1>4, Queued DEF Inv
<1>6. TypeOK'
  BY <1>1, <1>3, <1>5 DEF TypeOK, Inv, Jobs
<1>7. FilesOfStores' /\ RegistryNamesWholeFiles' /\ GetsOfStores'
  BY <1>1, <1>2 DEF Inv, FilesOfStores, RegistryNamesWholeFiles, GetsOfStores
<1>8. \A j : j = job \/ Waits(j) => Waits(j)'
  BY <1>1, <1>2 DEF Waits
<1>9. QueueExact'
  BY <1>5, <1>8 DEF QueueExact
<1> QED
  BY <1>6, <1>7, <1>9 DEF Inv

(* A pool thread that works on a store, with the queue as it was or with   *)
(* the store's job taken from it.                                          *)
LEMMA AdvanceQueue ==
  ASSUME Inv, NEW p, NEW state, Advances(p, state),
         \/ UNCHANGED queue /\ put[p].state # "queued"
         \/ Take([job |-> "put", of |-> p])
  PROVE  queue' \in Seq(Jobs) /\ QueueExact'
<1>1. \A j : Waits(j) /\ (j.job = "put" => j.of # p) => Waits(j)'
  BY AdvancePut DEF Waits, Advances, Inv
<1>2. CASE UNCHANGED queue /\ put[p].state # "queued"
  <2>1. queue \in Seq(Jobs)
    BY DEF Inv, TypeOK, Jobs
  <2>2. \A i \in 1 .. Len(queue) : queue[i].job = "put" => queue[i].of # p
    BY <1>2 DEF Inv, QueueExact, Waits
  <2> QED
    BY <1>1, <1>2, <2>1, <2>2 DEF Inv, QueueExact
<1>3. CASE Take([job |-> "put", of |-> p])
  <2> DEFINE job == [job |-> "put", of |-> p]
  <2>1. /\ queue' \in Seq(Jobs) /\ Len(queue') = Len(queue) - 1
        /\ \A i \in 1 .. Len(queue') : /\ i + 1 \in 1 .. Len(queue)
                                       /\ queue'[i] = queue[i + 1]
                                       /\ queue'[i] # job
    BY <1>3, Taken DEF Inv
  <2>2. \A i \in 1 .. Len(queue') : Waits(queue'[i])
    BY <2>1 DEF Inv, QueueExact
  <2>3. \A i \in 1 .. Len(queue') : queue'[i] \in Jobs
    BY <2>1
  <2>4. \A j \in Jobs : j.job = "put" /\ j.of = p => j = job
    BY DEF Jobs
  <2>5. \A i \in 1 .. Len(queue') : Waits(queue[i])'
    BY <1>1, <2>1, <2>2, <2>3, <2>4
  <2>6. \A i, j \in 1 .. Len(queue') : i # j => queue'[i] # queue'[j]
    <3> SUFFICES ASSUME NEW i \in 1 .. Len(queue'), NEW j \in 1 .. Len(queue'), i # j
                 PROVE  queue'[i] # queue'[j]
      OBVIOUS
    <3>1. i + 1 \in 1 .. Len(queue) /\ j + 1 \in 1 .. Len(queue) /\ i + 1 # j + 1
      BY <2>1
    <3> QED
      BY <2>1, <3>1 DEF Inv, QueueExact
  <2> QED
    BY <2>1, <2>5, <2>6 DEF QueueExact
<1> QED
  BY <1>2, <1>3

(* open, write and register keep the invariant: the path a job writes to   *)
(* is its own, and is registered when the file is whole.                   *)
LEMMA PutInv ==
  ASSUME Inv, NEW p \in DOMAIN put, OpenChunk(p) \/ WriteChunk(p) \/ RegisterChunk(p)
  PROVE  Inv'
<1>1. p \in 1 .. seq /\ p \in Paths /\ DOMAIN put = 1 .. seq /\ NoPath \notin 1 .. seq
  BY ChunkStorageAssumption DEF Inv, TypeOK, Paths, NoPath
<1>2. ASSUME NEW state, Advances(p, state), UNCHANGED registry,
             \/ UNCHANGED queue /\ put[p].state # "queued"
             \/ Take([job |-> "put", of |-> p]),
             \/ state = "writing" /\ file' = [file EXCEPT ![p] = "partial"]
             \/ state = "written" /\ file' = [file EXCEPT ![p] = "whole"]
             \/ state = "failed" /\ UNCHANGED file
      PROVE  Inv'
  <2>1. queue' \in Seq(Jobs) /\ QueueExact'
    BY <1>2, AdvanceQueue
  <2>2. file' \in [Paths -> {"absent", "partial", "whole"}]
    BY <1>1, <1>2 DEF Inv, TypeOK
  <2>3. TypeOK'
    BY <1>2, <2>1, <2>2, AdvancePut DEF Inv, TypeOK, Advances, Jobs
  <2>8. /\ put'[p] = [id |-> put[p].id, data |-> put[p].data, state |-> state]
        /\ \A q \in (1 .. seq) \ {p} : put'[q] = put[q]
    BY <1>2, AdvancePut DEF Inv
  <2>9. \A q \in 1 .. seq : q \in Paths
    BY ChunkStorageAssumption DEF Inv, TypeOK, Paths
  <2>4. put[p].state # "stored" /\ \A q \in (1 .. seq) \ {p} : put'[q] = put[q] /\ file'[q] = file[q]
    BY <1>1, <1>2, <2>8, <2>9 DEF Inv, Advances, TypeOK
  <2>5. put'[p].state = state /\ (state = "written" => file'[p] = "whole")
    BY <1>1, <1>2, <2>8 DEF Inv, TypeOK
  <2>6. FilesOfStores' /\ GetsOfStores'
    BY <1>2, <2>4, <2>5 DEF Inv, FilesOfStores, GetsOfStores, Advances
  <2>7. RegistryNamesWholeFiles'
    BY <1>1, <1>2, <2>3, <2>4 DEF Inv, RegistryNamesWholeFiles, TypeOK, Advances
  <2> QED
    BY <2>1, <2>3, <2>6, <2>7 DEF Inv
<1>3. CASE OpenChunk(p)
  <2>1. put[p].state = "queued" /\ UNCHANGED <<seq, registry, get>>
    BY <1>3, Taken DEF OpenChunk, Inv, Waits
  <2> QED
    BY <1>1, <1>2, <1>3, <2>1 DEF OpenChunk, Advances
<1>4. CASE WriteChunk(p)
  BY <1>1, <1>2, <1>4 DEF WriteChunk, Advances
<1>5. CASE RegisterChunk(p)
  <2>1. Advances(p, "stored") /\ put[p].state = "written" /\ UNCHANGED <<queue, file>>
    BY <1>1, <1>5 DEF RegisterChunk, Advances
  <2>2. queue' \in Seq(Jobs) /\ QueueExact'
    BY <2>1, AdvanceQueue
  <2>3. /\ put[p].id \in ChunkIds /\ registry' = [registry EXCEPT ![put[p].id] = p]
        /\ registry' \in [ChunkIds -> Paths \cup {NoPath}]
    BY <1>1, <1>5 DEF RegisterChunk, Inv, TypeOK
  <2>4. TypeOK'
    BY <2>1, <2>2, <2>3, AdvancePut DEF Inv, TypeOK, Advances, Jobs
  <2>8. /\ put'[p] = [id |-> put[p].id, data |-> put[p].data, state |-> "stored"]
        /\ \A q \in (1 .. seq) \ {p} : put'[q] = put[q]
    BY <2>1, AdvancePut DEF Inv
  <2>5. /\ put'[p].id = put[p].id /\ put'[p].state = "stored" /\ file[p] = "whole"
        /\ \A q \in (1 .. seq) \ {p} : put'[q] = put[q]
    BY <1>1, <2>1, <2>8 DEF Inv, FilesOfStores
  <2>6. FilesOfStores' /\ GetsOfStores'
    BY <2>1, <2>5 DEF Inv, FilesOfStores, GetsOfStores, Advances
  <2>7. RegistryNamesWholeFiles'
    <3> SUFFICES ASSUME NEW c \in ChunkIds, registry'[c] # NoPath
                 PROVE  /\ registry'[c] \in DOMAIN put'
                        /\ put'[registry'[c]].id = c
                        /\ put'[registry'[c]].state = "stored"
                        /\ file'[registry'[c]] = "whole"
      BY DEF RegistryNamesWholeFiles
    <3>1. DOMAIN put' = 1 .. seq
      BY <2>1, <2>4 DEF TypeOK, Advances
    <3>2. CASE c = put[p].id
      BY <1>1, <2>1, <2>3, <2>5, <3>1, <3>2 DEF Inv, TypeOK
    <3>3. CASE c # put[p].id
      BY <1>1, <2>1, <2>3, <2>5, <3>1, <3>3 DEF Inv, TypeOK, RegistryNamesWholeFiles
    <3> QED
      BY <3>2, <3>3
  <2> QED
    BY <2>2, <2>4, <2>6, <2>7 DEF Inv
<1> QED
  BY <1>3, <1>4, <1>5

(* What a retrieval finds: the path of a complete store of the chunk, with *)
(* a whole file, or no path.                                               *)
Found(c, fallback) ==
  IF registry[c] # NoPath THEN registry[c]
  ELSE IF fallback # NoPath /\ file[fallback] # "absent" THEN fallback ELSE NoPath

LEMMA FoundIsWhole ==
  ASSUME Inv, NEW c \in ChunkIds, NEW fallback \in Fallbacks(c), Found(c, fallback) # NoPath
  PROVE  /\ Found(c, fallback) \in 1 .. seq
         /\ Found(c, fallback) \in Paths
         /\ put[Found(c, fallback)].id = c
         /\ put[Found(c, fallback)].state = "stored"
         /\ file[Found(c, fallback)] = "whole"
BY ChunkStorageAssumption
DEF Found, Fallbacks, Inv, TypeOK, FilesOfStores, RegistryNamesWholeFiles, Paths

LEMMA RetrieveInv ==
  ASSUME Inv, NEW r \in Readers, NEW c \in ChunkIds, NEW fallback \in Fallbacks(c),
         AsyncRetrieveChunk(r, c, fallback)
  PROVE  Inv'
<1> DEFINE found == Found(c, fallback)
           job == [job |-> "get", of |-> r]
<1>1. /\ get[r].state = "idle"
      /\ registry' = [registry EXCEPT ![c] = found]
      /\ get' = [get EXCEPT ![r] = [state |-> IF found = NoPath THEN "idle" ELSE "queued",
                                    path |-> found, data |-> NoData]]
      /\ queue' = IF found = NoPath THEN queue ELSE Append(queue, job)
      /\ UNCHANGED <<seq, put, file>>
  BY DEF AsyncRetrieveChunk, Found
<1>2. found # NoPath => /\ found \in 1 .. seq /\ found \in Paths
                        /\ put[found].id = c /\ put[found].state = "stored"
                        /\ file[found] = "whole"
  BY FoundIsWhole
<1> HIDE DEF found
<1>3. ~Waits(job) /\ job \in Jobs
  BY <1>1 DEF Waits, Jobs
<1>4. /\ queue' \in Seq(Jobs)
      /\ \A i \in 1 .. Len(queue') : (queue'[i] = job /\ found # NoPath) \/ Waits(queue'[i])
      /\ \A i, j \in 1 .. Len(queue') : i # j => queue'[i] # queue'[j]
  <2>1. CASE found = NoPath
    <3>1. queue' = queue /\ queue \in Seq(Jobs)
      BY <1>1, <2>1 DEF Inv, TypeOK, Jobs
    <3> QED
      BY <3>1 DEF Inv, QueueExact
  <2>2. CASE found # NoPath
    BY <1>1, <1>3, <2>2, Queued DEF Inv
  <2> QED
    BY <2>1, <2>2
<1>5. TypeOK'
  BY <1>1, <1>2, <1>4 DEF Inv, TypeOK, Jobs
<1>6. FilesOfStores' /\ RegistryNamesWholeFiles'
  BY <1>1, <1>2 DEF Inv, TypeOK, FilesOfStores, RegistryNamesWholeFiles
<1>7. GetsOfStores'
  BY <1>1, <1>2 DEF Inv, TypeOK, GetsOfStores
<1>8. \A j : (j = job /\ found # NoPath) \/ Waits(j) => Waits(j)'
  BY <1>1 DEF Waits, Inv, TypeOK
<1>9. QueueExact'
  BY <1>4, <1>8 DEF QueueExact
<1> QED
  BY <1>5, <1>6, <1>7, <1>9 DEF Inv

LEMMA DeleteInv ==
  ASSUME Inv, NEW c \in ChunkIds, DeleteChunk(c)
  PROVE  Inv'
<1>1. /\ registry[c] \in 1 .. seq /\ registry[c] \in Paths
      /\ put[registry[c]].id = c /\ put[registry[c]].state = "stored"
      /\ file[registry[c]] = "whole"
  BY ChunkStorageAssumption DEF DeleteChunk, Inv, TypeOK, RegistryNamesWholeFiles, NoPath, Paths
<1>2. PICK left \in {"absent", "whole"} : file' = [file EXCEPT ![registry[c]] = left]
  BY <1>1 DEF DeleteChunk
<1>3. registry' = [registry EXCEPT ![c] = NoPath] /\ UNCHANGED <<seq, put, get, queue>>
  BY DEF DeleteChunk
<1>4. TypeOK'
  BY <1>1, <1>2, <1>3 DEF Inv, TypeOK
<1>5. FilesOfStores'
  BY <1>1, <1>2, <1>3 DEF Inv, TypeOK, FilesOfStores
<1>6. RegistryNamesWholeFiles'
  BY <1>1, <1>2, <1>3 DEF Inv, TypeOK, RegistryNamesWholeFiles
<1>7. GetsOfStores' /\ QueueExact'
  BY <1>3 DEF Inv, GetsOfStores, QueueExact, Waits
<1> QED
  BY <1>4, <1>5, <1>6, <1>7 DEF Inv

(* A retrieval that runs reads the file of a complete store: all of it, or *)
(* nothing.                                                                *)
LEMMA ReadsWhole ==
  ASSUME Inv, NEW r \in Readers, ReadChunk(r)
  PROVE  /\ get[r].state = "queued" /\ get[r].path \in 1 .. seq
         /\ \E d \in {NoData, put[get[r].path].data} :
              get' = [get EXCEPT ![r] = [state |-> "idle", path |-> NoPath, data |-> d]]
<1>1. Take([job |-> "get", of |-> r])
  BY DEF ReadChunk
<1>2. Waits([job |-> "get", of |-> r])
  BY <1>1, Taken DEF Inv
<1>3. /\ get[r].state = "queued" /\ get[r].path \in 1 .. seq
      /\ file[get[r].path] \in {"whole", "absent"}
  BY <1>2 DEF Waits, Inv, GetsOfStores, FilesOfStores
<1>4. CASE file[get[r].path] = "whole"
  BY <1>3, <1>4 DEF ReadChunk
<1>5. CASE file[get[r].path] = "absent"
  BY <1>3, <1>5 DEF ReadChunk
<1> QED
  BY <1>3, <1>4, <1>5

LEMMA ReadInv ==
  ASSUME Inv, NEW r \in Readers, ReadChunk(r)
  PROVE  Inv'
<1> DEFINE job == [job |-> "get", of |-> r]
<1>1. PICK d \in {NoData, put[get[r].path].data} :
        get' = [get EXCEPT ![r] = [state |-> "idle", path |-> NoPath, data |-> d]]
  BY ReadsWhole
<1>2. d \in Data \cup {NoData, Garbage}
  <2>1. get[r].path \in 1 .. seq
    BY ReadsWhole
  <2>2. put[get[r].path].data \in Data
    BY <2>1 DEF Inv, TypeOK
  <2> QED
    BY <1>1, <2>2
<1>3. UNCHANGED <<seq, put, file, registry>> /\ Take(job)
  BY DEF ReadChunk
<1>4. /\ queue' \in Seq(Jobs) /\ Len(queue') = Len(queue) - 1
      /\ \A i \in 1 .. Len(queue') : /\ i + 1 \in 1 .. Len(queue)
                                     /\ queue'[i] = queue[i + 1]
                                     /\ queue'[i] # job
  BY <1>3, Taken DEF Inv
<1>5. \A i \in 1 .. Len(queue') : Waits(queue[i])'
  <2>1. \A j \in Jobs : j # job /\ Waits(j) => Waits(j)'
    BY <1>1, <1>3 DEF Waits, Inv, TypeOK, Jobs
  <2>2. \A i \in 1 .. Len(queue') : queue'[i] \in Jobs /\ Waits(queue'[i])
    BY <1>4 DEF Inv, QueueExact
  <2> QED
    BY <1>4, <2>1, <2>2
<1>6. \A i, j \in 1 .. Len(queue') : i # j => queue'[i] # queue'[j]
  <2> SUFFICES ASSUME NEW i \in 1 .. Len(queue'), NEW j \in 1 .. Len(queue'), i # j
               PROVE  queue'[i] # queue'[j]
    OBVIOUS
  <2>1. i + 1 \in 1 .. Len(queue) /\ j + 1 \in 1 .. Len(queue) /\ i + 1 # j + 1
    BY <1>4
  <2> QED
    BY <1>4, <2>1 DEF Inv, QueueExact
<1>7. TypeOK'
  <2>1. get' \in [Readers -> [state : {"idle", "queued"}, path : Paths \cup {NoPath},
                              data : Data \cup {NoData, Garbage}]]
    BY <1>1, <1>2 DEF Inv, TypeOK
  <2> QED
    BY <1>3, <1>4, <2>1 DEF Inv, TypeOK, Jobs
<1>8. FilesOfStores' /\ RegistryNamesWholeFiles' /\ GetsOfStores'
  BY <1>1, <1>3 DEF Inv, TypeOK, FilesOfStores, RegistryNamesWholeFiles, GetsOfStores
<1> QED
  BY <1>5, <1>6, <1>7, <1>8 DEF Inv, QueueExact

LEMMA RestartInv ==
  ASSUME Inv, Restart
  PROVE  Inv'
<1>1. /\ DOMAIN put' = 1 .. seq
      /\ \A p \in 1 .. seq : put'[p] = IF put[p].state \in {"queued", "writing", "written"}
                                       THEN [put[p] EXCEPT !.state = "lost"] ELSE put[p]
  BY DEF Restart, Inv, TypeOK
<1>2. \A p \in 1 .. seq :
        /\ put'[p] \in [id : ChunkIds, data : Data,
                        state : {"queued", "writing", "written", "stored", "failed", "lost"}]
        /\ put'[p].state \notin {"queued", "writing", "written"}
        /\ put'[p].state = "stored" => put[p].state = "stored"
  BY <1>1 DEF Inv, TypeOK
<1>3. put' \in [1 .. seq -> [id : ChunkIds, data : Data,
                  state : {"queued", "writing", "written", "stored", "failed", "lost"}]]
  <2>1. put' = [p \in 1 .. seq |-> put'[p]]
    BY DEF Restart, Inv, TypeOK
  <2> QED
    BY <1>2, <2>1
<1>4. queue' = <<>> /\ Len(queue') = 0 /\ queue' \in Seq(Jobs)
  BY DEF Restart
<1>5. /\ get' = [r \in Readers |-> NoGet] /\ registry' = [c \in ChunkIds |-> NoPath]
      /\ UNCHANGED <<seq, file>>
  BY DEF Restart
<1>6. TypeOK'
  BY <1>3, <1>4, <1>5 DEF Inv, TypeOK, NoGet, Jobs
<1>7. FilesOfStores' /\ RegistryNamesWholeFiles' /\ GetsOfStores' /\ QueueExact'
  BY <1>2, <1>4, <1>5
  DEF Inv, FilesOfStores, RegistryNamesWholeFiles, GetsOfStores, QueueExact, NoGet
<1> QED
  BY <1>6, <1>7 DEF Inv

LEMMA NextInv == Inv /\ [Next]_vars => Inv'
<1> SUFFICES ASSUME Inv, [Next]_vars PROVE Inv'
  OBVIOUS
<1>1. CASE UNCHANGED vars
  BY <1>1 DEF vars, Inv, TypeOK, FilesOfStores, RegistryNamesWholeFiles, GetsOfStores,
              QueueExact, Waits
<1>2. CASE Pool
  BY <1>2, PutInv, ReadInv DEF Pool
<1> QED
  BY <1>1, <1>2, StoreInv, RetrieveInv, DeleteInv, RestartInv DEF Next

-----------------------------------------------------------------------------
(* For every number of chunks, readers, stores and pool threads, whatever  *)
(* write errors and restarts there are: the registry names whole files of  *)
(* the chunk in question only (async_store_chunk, async_retrieve_chunk,    *)
(* delete_chunk).                                                          *)
THEOREM RegistryAlwaysWhole == Spec => []RegistryNamesWholeFiles
<1>1. Inv => RegistryNamesWholeFiles
  BY DEF Inv
<1> QED
  BY <1>1, InitInv, NextInv, PTL DEF Spec

(* Stores, retrievals, deletions and restarts leave every path, state and  *)
(* job what chunk_service.cpp expects: a path beyond the counter is never  *)
(* registered or read, and the queue holds jobs of stores and readers.     *)
THEOREM StorageAlwaysTyped == Spec => []TypeOK
<1>1. Inv => TypeOK
  BY DEF Inv
<1> QED
  BY <1>1, InitInv, NextInv, PTL DEF Spec

(* The abstract state follows the registry and the completed stores.       *)
LEMMA StoredKept ==
  ASSUME Inv, Inv',
         \A p \in 1 .. seq : /\ p \in 1 .. seq'
                             /\ put'[p].id = put[p].id /\ put'[p].data = put[p].data
                             /\ (put'[p].state = "stored") = (put[p].state = "stored"),
         \A p \in (1 .. seq') \ (1 .. seq) : put'[p].state # "stored"
  PROVE  /\ Past' = Past
         /\ UNCHANGED registry => Value' = Value
         /\ UNCHANGED get => Pending' = Pending /\ Result' = Result
<1>1. DOMAIN put = 1 .. seq /\ DOMAIN put' = 1 .. seq'
  BY DEF Inv, TypeOK
<1>2. ASSUME NEW c \in ChunkIds
      PROVE  {put'[p].data : p \in {q \in DOMAIN put' : put'[q].id = c /\ put'[q].state = "stored"}}
             = {put[p].data : p \in {q \in DOMAIN put : put[q].id = c /\ put[q].state = "stored"}}
  BY <1>1
<1>3. Past' = Past
  BY <1>2 DEF Past
<1>4. \A p \in (1 .. seq) \cup {NoPath} : DataAt(p)' = DataAt(p)
  BY DEF DataAt
<1>5. \A c \in ChunkIds : registry[c] \in (1 .. seq) \cup {NoPath}
  BY <1>1 DEF Inv, RegistryNamesWholeFiles
<1>6. \A r \in Readers : get[r].path \in (1 .. seq) \cup {NoPath}
  BY DEF Inv, GetsOfStores, TypeOK
<1>7. UNCHANGED registry => Value' = Value
  BY <1>4, <1>5 DEF Value
<1>8. UNCHANGED get => Pending' = Pending /\ Result' = Result
  BY <1>4, <1>6 DEF Pending, Result
<1> QED
  BY <1>3, <1>7, <1>8

AbstractUnchanged == UNCHANGED <<Value, Past, Pending, Result>>

(* Submitting, opening and writing are invisible.                          *)
LEMMA InvisibleSteps ==
  ASSUME Inv, Inv',
         \/ \E c \in ChunkIds, d \in Data : AsyncStoreChunk(c, d)
         \/ \E p \in DOMAIN put : OpenChunk(p) \/ WriteChunk(p)
  PROVE  AbstractUnchanged
<1>1. CASE \E c \in ChunkIds, d \in Data : AsyncStoreChunk(c, d)
  <2>1. /\ UNCHANGED <<registry, get>>
        /\ seq \in Nat /\ seq' = seq + 1
        /\ \A p \in 1 .. seq : p \in 1 .. seq' /\ put'[p] = put[p]
        /\ \A p \in (1 .. seq') \ (1 .. seq) : put'[p].state = "queued"
    BY <1>1 DEF AsyncStoreChunk, Inv, TypeOK
  <2> QED
    BY <2>1, StoredKept DEF AbstractUnchanged
<1>2. ASSUME NEW p \in DOMAIN put, OpenChunk(p) \/ WriteChunk(p)
      PROVE  AbstractUnchanged
  <2>1. put[p].state \in {"queued", "writing"}
    BY <1>2, Taken DEF OpenChunk, WriteChunk, Inv, Waits
  <2>2. /\ UNCHANGED <<seq, registry, get>>
        /\ \E state \in {"writing", "written", "failed"} : put' = [put EXCEPT ![p].state = state]
    BY <1>2 DEF OpenChunk, WriteChunk
  <2>3. \A q \in 1 .. seq : /\ put'[q].id = put[q].id /\ put'[q].data = put[q].data
                            /\ (put'[q].state = "stored") = (put[q].state = "stored")
    BY <2>1, <2>2 DEF Inv, TypeOK
  <2> QED
    BY <2>2, <2>3, StoredKept DEF AbstractUnchanged
<1> QED
  BY <1>1, <1>2

(* The registration of a path is the store.                                *)
LEMMA RegisterIsStore ==
  ASSUME Inv, Inv', NEW p \in DOMAIN put, RegisterChunk(p)
  PROVE  Register!Store(put[p].id, put[p].data)
<1> DEFINE c == put[p].id
<1>1. /\ DOMAIN put = 1 .. seq /\ DOMAIN put' = 1 .. seq /\ p \in 1 .. seq /\ p # NoPath
      /\ c \in ChunkIds /\ put[p].state = "written"
      /\ registry' = [registry EXCEPT ![c] = p] /\ UNCHANGED <<seq, file, get, queue>>
      /\ put'[p] = [id |-> c, data |-> put[p].data, state |-> "stored"]
      /\ \A q \in (1 .. seq) \ {p} : put'[q] = put[q]
  BY DEF RegisterChunk, Inv, TypeOK, NoPath
<1>2. \A q \in (1 .. seq) \cup {NoPath} : DataAt(q)' = DataAt(q)
  BY <1>1 DEF DataAt
<1>3. Value' = [Value EXCEPT ![c] = put[p].data]
  <2>1. \A e \in ChunkIds : registry[e] \in (1 .. seq) \cup {NoPath}
    BY <1>1 DEF Inv, RegistryNamesWholeFiles
  <2>2. \A e \in ChunkIds : DataAt(registry[e])' = IF e = c THEN put[p].data ELSE DataAt(registry[e])
    BY <1>1, <1>2, <2>1 DEF DataAt, Inv, TypeOK
  <2> QED
    BY <1>1, <2>2 DEF Value
<1>4. Past' = [Past EXCEPT ![c] = @ \cup {put[p].data}]
  <2> DEFINE Of(e) == {put[q].data : q \in {i \in DOMAIN put : put[i].id = e /\ put[i].state = "stored"}}
  <2>1. ASSUME NEW e \in ChunkIds
        PROVE  Of(e)' = IF e = c THEN Of(e) \cup {put[p].data} ELSE Of(e)
    <3>1. CASE e = c
      BY <1>1, <3>1
    <3>2. CASE e # c
      BY <1>1, <3>2
    <3> QED
      BY <3>1, <3>2
  <2>2. Past = [e \in ChunkIds |-> Of(e)] /\ Past' = [e \in ChunkIds |-> Of(e)']
    BY DEF Past
  <2> HIDE DEF Of
  <2> QED
    BY <1>1, <2>1, <2>2
<1>5. UNCHANGED <<Pending, Result>>
  <2>1. \A r \in Readers : get[r].path \in (1 .. seq) \cup {NoPath}
    BY DEF Inv, GetsOfStores, TypeOK
  <2> QED
    BY <1>1, <1>2, <2>1 DEF Pending, Result
<1> QED
  BY <1>3, <1>4, <1>5 DEF Register!Store

(* A deletion is one, and a restart is one.                                *)
LEMMA DeleteIsDelete ==
  ASSUME Inv, Inv', NEW c \in ChunkIds, DeleteChunk(c)
  PROVE  Register!Delete(c)
<1>1. registry' = [registry EXCEPT ![c] = NoPath] /\ UNCHANGED <<seq, put, get>>
  BY DEF DeleteChunk
<1>2. UNCHANGED <<Past, Pending, Result>>
  BY <1>1, StoredKept
<1>3. Value' = [Value EXCEPT ![c] = NoData]
  BY <1>1 DEF Value, DataAt, Inv, TypeOK
<1> QED
  BY <1>2, <1>3 DEF Register!Delete

LEMMA RestartIsRestart ==
  ASSUME Inv, Inv', Restart
  PROVE  Register!Restart
<1>1. /\ registry' = [c \in ChunkIds |-> NoPath] /\ get' = [r \in Readers |-> NoGet]
      /\ UNCHANGED seq
  BY DEF Restart
<1>2. \A p \in 1 .. seq : /\ put'[p].id = put[p].id /\ put'[p].data = put[p].data
                          /\ (put'[p].state = "stored") = (put[p].state = "stored")
  BY DEF Restart, Inv, TypeOK
<1>3. UNCHANGED Past
  BY <1>1, <1>2, StoredKept
<1>4. Value' = [c \in ChunkIds |-> NoData]
  BY <1>1 DEF Value, DataAt
<1>5. /\ Pending' = [r \in Readers |-> Register!Idle]
      /\ Result' = [r \in Readers |-> NoData]
  BY <1>1 DEF Pending, Result, DataAt, NoGet, Register!Idle
<1> QED
  BY <1>3, <1>4, <1>5 DEF Register!Restart

(* A retrieval that finds a path asks for its data, and one that does not  *)
(* misses.                                                                 *)
LEMMA RetrieveIsAsk ==
  ASSUME Inv, Inv', NEW r \in Readers, NEW c \in ChunkIds, NEW fallback \in Fallbacks(c),
         AsyncRetrieveChunk(r, c, fallback)
  PROVE  Register!Miss(r, c) \/ \E d \in Data : Register!Ask(r, c, d)
<1> DEFINE found == Found(c, fallback)
<1>1. /\ get[r].state = "idle"
      /\ registry' = [registry EXCEPT ![c] = found]
      /\ get' = [get EXCEPT ![r] = [state |-> IF found = NoPath THEN "idle" ELSE "queued",
                                    path |-> found, data |-> NoData]]
      /\ UNCHANGED <<seq, put, file>>
  BY DEF AsyncRetrieveChunk, Found
<1>2. ~Pending[r].asked
  BY <1>1 DEF Pending
<1>3. UNCHANGED Past
  BY <1>1, StoredKept
<1>4. Result' = [Result EXCEPT ![r] = NoData]
  BY <1>1 DEF Result, Inv, TypeOK
<1>5. CASE found = NoPath
  <2>1. registry[c] = NoPath /\ Value[c] = NoData
    BY <1>5 DEF Found, Value, DataAt
  <2>2. UNCHANGED Value
    BY <1>1, <1>5, <2>1 DEF Value, DataAt, Inv, TypeOK
  <2>3. UNCHANGED Pending
    BY <1>1, <1>5 DEF Pending, DataAt, Inv, TypeOK, GetsOfStores
  <2> QED
    BY <1>2, <1>3, <1>4, <2>1, <2>2, <2>3 DEF Register!Miss
<1>6. CASE found # NoPath
  <2>1. found \in 1 .. seq /\ put[found].id = c /\ put[found].state = "stored"
    BY <1>6, FoundIsWhole
  <2>2. registry[c] = found \/ registry[c] = NoPath
    BY <1>6 DEF Found
  <2> HIDE DEF found
  <2>3. put[found].data \in Data /\ put[found].data # NoData
    BY <2>1, ChunkStorageAssumption DEF Inv, TypeOK
  <2>4. Value[c] = put[found].data \/ (Value[c] = NoData /\ put[found].data \in Past[c])
    BY <1>6, <2>1, <2>2 DEF Value, DataAt, Past, Inv, TypeOK
  <2>5. Value' = [Value EXCEPT ![c] = put[found].data]
    BY <1>1, <1>6 DEF Value, DataAt, Inv, TypeOK
  <2>6. Pending' = [Pending EXCEPT ![r] = [asked |-> TRUE, data |-> put[found].data]]
    BY <1>1, <1>6 DEF Pending, DataAt, Inv, TypeOK
  <2> QED
    BY <1>2, <1>3, <1>4, <2>3, <2>4, <2>5, <2>6 DEF Register!Ask
<1> QED
  BY <1>5, <1>6

(* A read returns what was asked for, or nothing.                          *)
LEMMA ReadIsReturn ==
  ASSUME Inv, Inv', NEW r \in Readers, ReadChunk(r)
  PROVE  Register!Return(r)
<1>1. get[r].state = "queued" /\ get[r].path \in 1 .. seq
  BY ReadsWhole
<1>2. PICK d \in {NoData, put[get[r].path].data} :
        get' = [get EXCEPT ![r] = [state |-> "idle", path |-> NoPath, data |-> d]]
  BY ReadsWhole
<1>3. UNCHANGED <<seq, put, file, registry>>
  BY DEF ReadChunk
<1>4. UNCHANGED <<Value, Past>>
  BY <1>3, StoredKept
<1>5. Pending[r].asked /\ Pending[r].data = put[get[r].path].data
  <2>1. DataAt(get[r].path) = put[get[r].path].data
    BY <1>1 DEF DataAt, NoPath
  <2> QED
    BY <1>1, <2>1, Zenon DEF Pending
<1>6. Result' = [Result EXCEPT ![r] = d]
  BY <1>2 DEF Result, Inv, TypeOK
<1>7. Pending' = [Pending EXCEPT ![r] = Register!Idle]
  BY <1>2, <1>3 DEF Pending, DataAt, Register!Idle, Inv, TypeOK
<1> QED
  BY <1>2, <1>4, <1>5, <1>6, <1>7, Zenon DEF Register!Return

(* For every number of chunks, readers, stores and pool threads: a node    *)
(* implements ChunkRegister.  A retrieval returns the data that was        *)
(* current when it was asked or nothing, whatever stores, deletions, write *)
(* errors and restarts come between the request and the read               *)
(* (async_retrieve_chunk).                                                 *)
THEOREM StorageImplementsRegister == Spec => ImplementsRegister
<1>1. Init => Register!Init
  <2> SUFFICES ASSUME Init PROVE Register!Init
    OBVIOUS
  <2>1. Value = [c \in ChunkIds |-> NoData] /\ Result = [r \in Readers |-> NoData]
    BY DEF Init, Value, Result, DataAt, NoGet
  <2>2. Past = [c \in ChunkIds |-> {}]
    BY DEF Init, Past
  <2>3. \A r \in Readers : /\ (get[r].state = "queued") = FALSE
                           /\ DataAt(get[r].path) = NoData
    BY DEF Init, NoGet, DataAt
  <2>4. Pending = [r \in Readers |-> Register!Idle]
    BY <2>3 DEF Pending, Register!Idle
  <2> QED
    BY <2>1, <2>2, <2>4 DEF Register!Init
<1>2. Inv /\ Inv' /\ [Next]_vars => [Register!Next]_Register!vars
  <2> SUFFICES ASSUME Inv, Inv', [Next]_vars
               PROVE  Register!Next \/ AbstractUnchanged
    BY DEF AbstractUnchanged, Register!vars
  <2>1. CASE UNCHANGED vars
    BY <2>1, Zenon DEF vars, AbstractUnchanged, Value, Past, Pending, Result, DataAt
  <2>2. CASE \E c \in ChunkIds, d \in Data : AsyncStoreChunk(c, d)
    BY <2>2, InvisibleSteps
  <2>3. ASSUME NEW r \in Readers, NEW c \in ChunkIds, NEW p \in Fallbacks(c),
               AsyncRetrieveChunk(r, c, p)
        PROVE  Register!Next
    BY <2>3, RetrieveIsAsk DEF Register!Next
  <2>4. CASE \E c \in ChunkIds : DeleteChunk(c)
    BY <2>4, DeleteIsDelete DEF Register!Next
  <2>5. ASSUME NEW p \in DOMAIN put, OpenChunk(p) \/ WriteChunk(p) \/ RegisterChunk(p)
        PROVE  Register!Next \/ AbstractUnchanged
    <3>1. put[p].id \in ChunkIds /\ put[p].data \in Data
      BY DEF Inv, TypeOK
    <3> QED
      BY <2>5, <3>1, InvisibleSteps, RegisterIsStore DEF Register!Next
  <2>6. CASE \E r \in Readers : ReadChunk(r)
    BY <2>6, ReadIsReturn DEF Register!Next
  <2>7. CASE Restart
    BY <2>7, RestartIsRestart DEF Register!Next
  <2> QED
    BY <2>1, <2>2, <2>3, <2>4, <2>5, <2>6, <2>7 DEF Next, Pool
<1>3. Spec => []Inv
  BY InitInv, NextInv, PTL DEF Spec
<1> QED
  BY <1>1, <1>2, <1>3, PTL DEF Spec, ImplementsRegister, Register!Spec
=============================================================================
