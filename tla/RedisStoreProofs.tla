-------------------------- MODULE RedisStoreProofs --------------------------
(***************************************************************************)
(* For every set of files, servers and requests: what interleaved commands *)
(* cannot do to the metadata in Redis, then that requests which come one   *)
(* after another leave what the on-disk backend would hold.                *)
(***************************************************************************)
EXTENDS RedisStore, TLAPS

(* Most leaves are first-order and left to Zenon; the others name SMT.     *)
USE Zenon

(* The shape of the state, as far as the proofs look into it.              *)
IsHash(h) == "chunk" \in DOMAIN h /\ "file_hash" \in DOMAIN h
Hashed == DOMAIN db = Files /\ \A f \in Files : IsHash(db[f])
Sessions ==
  /\ DOMAIN upload = Uploads /\ DOMAIN failover = Failovers
  /\ \A u \in Uploads : /\ "pc" \in DOMAIN upload[u]
                        /\ upload[u].pc # "idle" => "stored" \in DOMAIN upload[u]
  /\ \A s \in Failovers :
       /\ "pc" \in DOMAIN failover[s]
       /\ failover[s].pc # "idle" =>
            DOMAIN failover[s] = {"pc", "files", "healthy", "updates", "pipe"}

(* While a failover runs, no upload that has begun counts as undisturbed.  *)
FailoverDisturbs ==
  FailingOver # {} => \A u \in Uploads : upload[u].pc # "idle" => u \in disturbed

(* An undisturbed upload finds its fields from the HSET of the fields on,  *)
(* and a hash from the HSET of the hash on.                                *)
HasField(u, k) == LET h == db[FileOf[u]]
                  IN /\ k \in DOMAIN h.chunk
                     /\ h.chunk[k] \in Started(FileOf[u])
                     /\ k \in upload[h.chunk[k]].stored
FieldsKept ==
  \A u \in Uploads \ disturbed :
    /\ upload[u].pc \in {"file_hash", "replica_count", "expire", "done"} =>
         \A k \in upload[u].stored : HasField(u, k)
    /\ upload[u].pc \in {"replica_count", "expire", "done"} =>
         db[FileOf[u]].file_hash \in Started(FileOf[u])

(* Beside an undisturbed failover no upload is at work; a failover copies  *)
(* to disturbed servers only; and what is left of the dead server is on    *)
(* the list of what it still has to read or to remove.                     *)
UploadsOver ==
  \A s \in Failovers \ disturbed : failover[s].pc # "idle" =>
    \A u \in Uploads : upload[u].pc \in Over
CopiesDisturb ==
  \A s \in Failovers :
    /\ failover[s].pc = "query" => \A e \in failover[s].updates : e[2].server \in disturbed
    /\ failover[s].pc = "replace" =>
         \A e \in failover[s].pipe : /\ e.rec.server \in disturbed
                                     /\ e.next \in {"hdel", "hset", "count"}
                                     /\ DOMAIN e = {"file", "rec", "next"}
RestIsListed ==
  \A s \in Failovers \ disturbed :
    failover[s].pc = "read" =>
      \A f \in Files : \A k \in DOMAIN db[f].chunk :
        k[2] = s => f \in failover[s].files \/ <<f, k>> \in failover[s].pipe

Inv == /\ Hashed /\ Sessions /\ FailoverDisturbs /\ FieldsKept
       /\ UploadsOver /\ CopiesDisturb /\ RestIsListed /\ DeadServerForgotten

-----------------------------------------------------------------------------
(* The commands on a hash.                                                 *)
LEMMA HDelRemoves ==
  ASSUME NEW h, IsHash(h), NEW k
  PROVE  IsHash(HDel(h, k)) /\ DOMAIN HDel(h, k).chunk \subseteq DOMAIN h.chunk \ {k}
<1> DEFINE rest == [h EXCEPT !.chunk = [i \in DOMAIN h.chunk \ {k} |-> h.chunk[i]]]
<1>1. IsHash(rest) /\ DOMAIN rest.chunk = DOMAIN h.chunk \ {k}
  BY DEF IsHash
<1>2. IsHash(NoKey) /\ DOMAIN NoKey.chunk = {}
  BY DEF IsHash, NoKey
<1>3. HDel(h, k) = rest \/ HDel(h, k) = NoKey
  BY DEF HDel
<1> QED
  BY <1>1, <1>2, <1>3

LEMMA WithAdds ==
  ASSUME NEW h, IsHash(h), NEW k, NEW path
  PROVE  IsHash(With(h, k, path)) /\ DOMAIN With(h, k, path).chunk = DOMAIN h.chunk \cup {k}
BY DEF IsHash, With

LEMMA SetChunksAdds ==
  ASSUME NEW h, IsHash(h), NEW K, NEW path
  PROVE  /\ IsHash(SetChunks(h, K, path))
         /\ SetChunks(h, K, path).file_hash = h.file_hash
         /\ DOMAIN SetChunks(h, K, path).chunk = DOMAIN h.chunk \cup K
         /\ \A k \in K : SetChunks(h, K, path).chunk[k] = path
         /\ \A k \in DOMAIN h.chunk \ K : SetChunks(h, K, path).chunk[k] = h.chunk[k]
BY DEF IsHash, SetChunks

-----------------------------------------------------------------------------
(* A step adds fields only for an upload that is at its chunks, or of a    *)
(* server that a failover copies to.                                       *)
NewFields ==
  \A f \in Files : \A k \in DOMAIN db'[f].chunk :
    \/ k \in DOMAIN db[f].chunk \/ k[2] \in disturbed
    \/ \E u \in Uploads : upload[u].pc = "chunks"

(* What create_entry's commands do to an upload and its file.              *)
Goes(u, pc) == /\ upload[u].pc # "idle" /\ pc # "idle"
               /\ upload' = [upload EXCEPT ![u].pc = pc]
               /\ UNCHANGED failover
ChunksSet(u, f) ==
  /\ upload[u].pc = "chunks" /\ Goes(u, "file_hash")
  /\ db'[f].file_hash = db[f].file_hash
  /\ DOMAIN db'[f].chunk = DOMAIN db[f].chunk \cup upload[u].stored
  /\ \A k \in upload[u].stored : db'[f].chunk[k] = u
  /\ \A k \in DOMAIN db[f].chunk \ upload[u].stored : db'[f].chunk[k] = db[f].chunk[k]
HashSet(u, f) ==
  /\ upload[u].pc = "file_hash" /\ Goes(u, "replica_count")
  /\ db'[f].file_hash = u /\ db'[f].chunk = db[f].chunk
CountSet(u, f) ==
  /\ upload[u].pc = "replica_count" /\ Goes(u, "expire")
  /\ db'[f].file_hash = db[f].file_hash /\ db'[f].chunk = db[f].chunk

LEMMA CreateEntryFields ==
  ASSUME Inv, NEW u \in Uploads, CreateEntry(u)
  PROVE  /\ Hashed' /\ NewFields /\ FileOf[u] \in Files
         /\ \A g \in Files \ {FileOf[u]} : db'[g] = db[g]
         /\ ChunksSet(u, FileOf[u]) \/ HashSet(u, FileOf[u]) \/ CountSet(u, FileOf[u])
<1> DEFINE f == FileOf[u]
<1>1. f \in Files /\ DOMAIN db = Files /\ IsHash(db[f]) /\ UNCHANGED failover
  BY RedisAssumption DEF Inv, Hashed, CreateEntry
<1>2. CASE /\ upload[u].pc = "chunks"
           /\ db' = [db EXCEPT ![f] = SetChunks(db[f], upload[u].stored, u)]
           /\ upload' = [upload EXCEPT ![u].pc = "file_hash"]
  <2>1. db'[f] = SetChunks(db[f], upload[u].stored, u) /\ \A g \in Files \ {f} : db'[g] = db[g]
    BY <1>1, <1>2
  <2>2. ChunksSet(u, f)
    BY <1>1, <1>2, <2>1, SetChunksAdds, SMT DEF ChunksSet, Goes
  <2>3. Hashed'
    BY <1>1, <1>2, <2>1, SetChunksAdds DEF Inv, Hashed
  <2> QED
    BY <1>1, <1>2, <2>1, <2>2, <2>3 DEF NewFields
<1>3. CASE /\ upload[u].pc = "file_hash"
           /\ db' = [db EXCEPT ![f] = [db[f] EXCEPT !.file_hash = u]]
           /\ upload' = [upload EXCEPT ![u].pc = "replica_count"]
  <2>1. db'[f] = [db[f] EXCEPT !.file_hash = u] /\ \A g \in Files \ {f} : db'[g] = db[g]
    BY <1>1, <1>3
  <2>2. IsHash(db'[f]) /\ db'[f].file_hash = u /\ db'[f].chunk = db[f].chunk
    BY <1>1, <2>1 DEF IsHash
  <2> QED
    BY <1>1, <1>3, <2>1, <2>2 DEF Inv, Hashed, NewFields, HashSet, Goes
<1>4. CASE /\ upload[u].pc = "replica_count"
           /\ db' = [db EXCEPT ![f] = SetCount(db[f])]
           /\ upload' = [upload EXCEPT ![u].pc = "expire"]
  <2>1. db'[f] = SetCount(db[f]) /\ \A g \in Files \ {f} : db'[g] = db[g]
    BY <1>1, <1>4
  <2>2. IsHash(db'[f]) /\ db'[f].file_hash = db[f].file_hash /\ db'[f].chunk = db[f].chunk
    BY <1>1, <2>1 DEF IsHash, SetCount
  <2> QED
    BY <1>1, <1>4, <2>1, <2>2 DEF Inv, Hashed, NewFields, CountSet, Goes
<1> QED
  BY <1>2, <1>3, <1>4 DEF CreateEntry

(* The other commands add no field, but for the pipeline's HSET.           *)
LEMMA OtherFields ==
  ASSUME Inv,
         \/ UNCHANGED db
         \/ \E u \in Uploads : Expire(u)
         \/ \E f \in Files : Del(f)
         \/ \E s \in Failovers : AtomicReplace(s) \/ Drop(s)
  PROVE  Hashed' /\ NewFields
<1>1. CASE UNCHANGED db
  BY <1>1 DEF Inv, Hashed, NewFields
<1>2. ASSUME NEW u \in Uploads, Expire(u)
      PROVE  Hashed' /\ NewFields
  <2>1. db' = db \/ db' = [db EXCEPT ![FileOf[u]].ttl = TRUE]
    BY <1>2 DEF Expire
  <2>2. Hashed' /\ \A g \in Files : db'[g].chunk = db[g].chunk
    BY <2>1 DEF Inv, Hashed, IsHash
  <2> QED
    BY <2>2 DEF NewFields
<1>3. ASSUME NEW f \in Files, Del(f)
      PROVE  Hashed' /\ NewFields
  BY <1>3 DEF Del, NoKey, Inv, Hashed, IsHash, NewFields
<1>4. ASSUME NEW s \in Failovers, AtomicReplace(s)
      PROVE  Hashed' /\ NewFields
  <2>1. PICK e \in failover[s].pipe : db' = [db EXCEPT ![e.file] = Replace(@, s, e)]
    BY <1>4 DEF AtomicReplace
  <2>2. e.rec.server \in disturbed /\ e.next \in {"hdel", "hset", "count"}
    BY <1>4, <2>1 DEF AtomicReplace, Inv, CopiesDisturb
  <2> DEFINE h == db[e.file]
             key == <<e.rec.chunk_id, e.rec.server>>
  <2>3. ASSUME IsHash(h)
        PROVE  /\ IsHash(Replace(h, s, e))
               /\ \A k \in DOMAIN Replace(h, s, e).chunk : k \in DOMAIN h.chunk \/ k = key
    <3>1. CASE e.next = "hdel"
      BY <2>3, <3>1, HDelRemoves DEF Replace
    <3>2. CASE e.next = "hset"
      BY <2>3, <3>2, WithAdds, SMT DEF Replace
    <3>3. CASE e.next = "count"
      BY <2>3, <3>3 DEF Replace, IsHash
    <3> QED
      BY <2>2, <3>1, <3>2, <3>3
  <2> QED
    BY <2>1, <2>2, <2>3, SMT DEF Inv, Hashed, NewFields
<1>5. ASSUME NEW s \in Failovers, Drop(s)
      PROVE  Hashed' /\ NewFields
  <2>1. PICK e \in failover[s].pipe : db' = [db EXCEPT ![e[1]] = HDel(@, e[2])]
    BY <1>5 DEF Drop
  <2> QED
    BY <2>1, HDelRemoves DEF Inv, Hashed, NewFields
<1> QED
  BY <1>1, <1>2, <1>3, <1>4, <1>5

-----------------------------------------------------------------------------
LEMMA InitInv == Init => Inv
<1> SUFFICES ASSUME Init PROVE Inv
  OBVIOUS
<1>1. Hashed
  BY DEF Init, Hashed, IsHash, NoKey
<1>2. /\ DOMAIN upload = Uploads /\ \A u \in Uploads : upload[u] = Idle
      /\ DOMAIN failover = Failovers /\ \A s \in Failovers : failover[s] = Idle
  BY DEF Init
<1>3. "pc" \in DOMAIN Idle /\ Idle.pc = "idle"
  BY DEF Idle
<1> QED
  BY <1>1, <1>2, <1>3 DEF Inv, Sessions, FailoverDisturbs, FailingOver, Over, FieldsKept,
     UploadsOver, CopiesDisturb, RestIsListed, DeadServerForgotten

(* A step of something else than a failover, which disturbs the failovers  *)
(* where it begins an upload, keeps what is known of undisturbed ones.     *)
LEMMA FailoversKept ==
  ASSUME Inv, NewFields, UNCHANGED failover, disturbed \subseteq disturbed',
         \A u \in Uploads : upload'[u].pc \in Over \/ upload[u].pc \notin Over
                            \/ \A s \in Failovers : failover[s].pc # "idle" => s \in disturbed'
  PROVE  (UploadsOver /\ CopiesDisturb /\ RestIsListed /\ DeadServerForgotten)'
<1>1. UploadsOver' /\ CopiesDisturb'
  BY DEF Inv, UploadsOver, CopiesDisturb
<1>2. ASSUME NEW s \in Failovers \ disturbed', failover[s].pc # "idle"
      PROVE  \A f \in Files : \A k \in DOMAIN db'[f].chunk : k[2] = s => k \in DOMAIN db[f].chunk
  <2>1. s \notin disturbed /\ \A u \in Uploads : upload[u].pc # "chunks"
    BY <1>2 DEF Inv, UploadsOver, Over
  <2> QED
    BY <2>1 DEF NewFields
<1>3. RestIsListed'
  BY <1>2 DEF Inv, RestIsListed
<1>4. DeadServerForgotten'
  BY <1>2 DEF Inv, DeadServerForgotten
<1> QED
  BY <1>1, <1>3, <1>4

(* Uploads.                                                                *)
LEMMA StartUploadInv ==
  ASSUME Inv, NEW u \in Uploads, NEW K, StartUpload(u, K)
  PROVE  Inv'
<1>1. /\ UNCHANGED <<db, failover>> /\ disturbed \subseteq disturbed'
      /\ \A s \in Failovers : failover[s].pc # "idle" => s \in disturbed'
      /\ FailingOver # {} => u \in disturbed'
  BY DEF StartUpload
<1>2. /\ upload[u].pc = "idle" /\ DOMAIN upload' = Uploads
      /\ upload'[u] = [pc |-> IF K = {} THEN "file_hash" ELSE "chunks", stored |-> K]
      /\ \A v \in Uploads \ {u} : upload'[v] = upload[v]
  BY DEF StartUpload, Idle, Inv, Sessions
<1>3. Hashed' /\ NewFields
  BY <1>1, OtherFields
<1>4. Sessions' /\ FailoverDisturbs'
  BY <1>1, <1>2, SMT DEF Inv, Sessions, FailoverDisturbs, FailingOver
<1>5. FieldsKept'
  BY <1>1, <1>2, SMT DEF Inv, FieldsKept, HasField, Started
<1>6. (UploadsOver /\ CopiesDisturb /\ RestIsListed /\ DeadServerForgotten)'
  BY <1>1, <1>2, <1>3, FailoversKept
<1> QED
  BY <1>3, <1>4, <1>5, <1>6 DEF Inv

(* An upload that goes on keeps its replicas.                              *)
LEMMA GoesKeeps ==
  ASSUME Sessions, NEW u \in Uploads, NEW pc, Goes(u, pc)
  PROVE  /\ Sessions' /\ upload'[u].pc = pc
         /\ \A v \in Uploads : upload[v].pc # "idle" => upload'[v].stored = upload[v].stored
         /\ \A v \in Uploads \ {u} : upload'[v] = upload[v]
         /\ \A f : Started(f)' = Started(f)
<1>1. /\ upload'[u].pc = pc /\ DOMAIN upload' = Uploads
      /\ DOMAIN upload'[u] = DOMAIN upload[u] /\ upload'[u].stored = upload[u].stored
      /\ \A v \in Uploads \ {u} : upload'[v] = upload[v]
  BY DEF Sessions, Goes
<1>2. Sessions'
  BY <1>1 DEF Sessions, Goes
<1>3. \A f : Started(f)' = Started(f)
  BY <1>1 DEF Started, Goes
<1> QED
  BY <1>1, <1>2, <1>3

LEMMA CreateEntryInv ==
  ASSUME Inv, NEW u \in Uploads, CreateEntry(u)
  PROVE  Inv'
<1> DEFINE f == FileOf[u]
<1>1. /\ Hashed' /\ NewFields /\ UNCHANGED <<failover, disturbed>>
      /\ f \in Files /\ \A g \in Files \ {f} : db'[g] = db[g]
      /\ ChunksSet(u, f) \/ HashSet(u, f) \/ CountSet(u, f)
  <2>1. UNCHANGED <<failover, disturbed>>
    BY DEF CreateEntry, history
  <2> QED
    BY <2>1, CreateEntryFields
<1>2. PICK pc \in {"file_hash", "replica_count", "expire"} :
        Goes(u, pc) /\ upload[u].pc \in {"chunks", "file_hash", "replica_count"}
  BY <1>1 DEF ChunksSet, HashSet, CountSet
<1>3. /\ Sessions' /\ upload'[u].pc = pc
      /\ \A v \in Uploads : upload[v].pc # "idle" => upload'[v].stored = upload[v].stored
      /\ \A v \in Uploads \ {u} : upload'[v] = upload[v]
      /\ \A g : Started(g)' = Started(g)
  BY <1>2, GoesKeeps DEF Inv
<1>4. FailoverDisturbs'
  BY <1>1, <1>2, <1>3 DEF Inv, FailoverDisturbs, FailingOver, Goes
<1>5. (UploadsOver /\ CopiesDisturb /\ RestIsListed /\ DeadServerForgotten)'
  BY <1>1, <1>2, <1>3, FailoversKept DEF Over
<1>6. u \in Started(f) /\ \A g : \A v \in Started(g) : v \in Uploads /\ upload[v].pc # "idle"
  BY <1>2 DEF Started, Goes
<1>7. ASSUME NEW v \in Uploads, NEW k \in upload[v].stored,
             HasField(v, k) \/ (v = u /\ ChunksSet(u, f))
      PROVE  HasField(v, k)'
  <2>0. FileOf[v] \in Files
    BY RedisAssumption
  <2>1. CASE v = u /\ ChunksSet(u, f)
    <3>1. k \in DOMAIN db'[f].chunk /\ db'[f].chunk[k] = u
      BY <1>7, <2>1 DEF ChunksSet
    <3>2. k \in upload'[u].stored
      BY <1>3, <1>7, <2>1 DEF ChunksSet
    <3> QED
      BY <1>3, <1>6, <2>1, <3>1, <3>2 DEF HasField
  <2>2. CASE HasField(v, k)
    <3> DEFINE g == FileOf[v]
               w == db[g].chunk[k]
    <3>1. k \in DOMAIN db[g].chunk /\ w \in Started(g) /\ k \in upload[w].stored
      BY <2>2 DEF HasField
    <3>2. w \in Uploads /\ k \in upload'[w].stored
      BY <1>3, <1>6, <3>1
    <3>3. /\ k \in DOMAIN db'[g].chunk
          /\ db'[g].chunk[k] = w \/ (db'[g].chunk[k] = u /\ g = f /\ k \in upload[u].stored)
      <4>1. CASE g # f
        BY <1>1, <2>0, <3>1, <4>1
      <4>2. CASE g = f
        BY <1>1, <3>1, <4>2 DEF ChunksSet, HashSet, CountSet
      <4> QED
        BY <4>1, <4>2
    <3>4. CASE db'[g].chunk[k] = w
      BY <1>3, <3>1, <3>2, <3>3, <3>4 DEF HasField
    <3>5. CASE db'[g].chunk[k] = u /\ g = f /\ k \in upload[u].stored
      <4>1. k \in upload'[u].stored
        BY <1>3, <1>6, <3>5
      <4> QED
        BY <1>3, <1>6, <3>3, <3>5, <4>1 DEF HasField
    <3> QED
      BY <3>3, <3>4, <3>5
  <2> QED
    BY <1>7, <2>1, <2>2
<1>8. ASSUME NEW v \in Uploads,
             db[FileOf[v]].file_hash \in Started(FileOf[v]) \/ (v = u /\ HashSet(u, f))
      PROVE  db'[FileOf[v]].file_hash \in Started(FileOf[v])'
  <2>1. FileOf[v] \in Files
    BY RedisAssumption
  <2>2. CASE FileOf[v] # f
    BY <1>1, <1>3, <1>8, <2>1, <2>2
  <2>3. CASE FileOf[v] = f
    BY <1>1, <1>3, <1>6, <1>8, <2>3 DEF ChunksSet, HashSet, CountSet
  <2> QED
    BY <2>2, <2>3
<1>9. FieldsKept'
  <2> SUFFICES ASSUME NEW v \in Uploads \ disturbed
               PROVE  /\ upload'[v].pc \in {"file_hash", "replica_count", "expire", "done"} =>
                           \A k \in upload'[v].stored : HasField(v, k)'
                      /\ upload'[v].pc \in {"replica_count", "expire", "done"} =>
                           db'[FileOf[v]].file_hash \in Started(FileOf[v])'
    BY <1>1 DEF FieldsKept
  <2>1. CASE v # u
    BY <1>3, <1>7, <1>8, <2>1 DEF Inv, FieldsKept
  <2>2. CASE v = u
    <3>1. upload'[u].stored = upload[u].stored
      BY <1>2, <1>3
    <3>2. \A k \in upload[u].stored : HasField(u, k)'
      BY <1>1, <1>7, <2>2 DEF Inv, FieldsKept, HashSet, CountSet
    <3>3. pc # "file_hash" => HashSet(u, f) \/ CountSet(u, f)
      BY <1>1, <1>3, GoesKeeps DEF ChunksSet, Inv
    <3>4. pc # "file_hash" => db'[f].file_hash \in Started(f)'
      BY <1>8, <2>2, <3>3 DEF Inv, FieldsKept, CountSet
    <3> QED
      BY <1>3, <2>2, <3>1, <3>2, <3>4
  <2> QED
    BY <2>1, <2>2
<1> QED
  BY <1>1, <1>3, <1>4, <1>5, <1>9 DEF Inv

(* EXPIRE, and an upload whose command throws.                             *)
LEMMA EndUploadInv ==
  ASSUME Inv, NEW u \in Uploads, Expire(u) \/ CreateEntryThrows(u)
  PROVE  Inv'
<1>1. UNCHANGED <<failover, disturbed>>
  BY DEF Expire, CreateEntryThrows
<1>2. PICK pc \in {"done", "error"} : /\ Goes(u, pc) /\ upload[u].pc \notin Over
                                      /\ pc = "done" => upload[u].pc = "expire"
  BY <1>1 DEF Expire, CreateEntryThrows, Goes, Over
<1>3. /\ Sessions' /\ upload'[u].pc = pc
      /\ \A v \in Uploads : upload[v].pc # "idle" => upload'[v].stored = upload[v].stored
      /\ \A v \in Uploads \ {u} : upload'[v] = upload[v]
      /\ \A g : Started(g)' = Started(g)
  BY <1>2, GoesKeeps DEF Inv
<1>4. Hashed' /\ NewFields
  BY OtherFields DEF CreateEntryThrows
<1>5. \A g \in Files : db'[g].chunk = db[g].chunk /\ db'[g].file_hash = db[g].file_hash
  <2>1. db' = db \/ db' = [db EXCEPT ![FileOf[u]].ttl = TRUE]
    BY DEF Expire, CreateEntryThrows
  <2> QED
    BY <2>1, SMT DEF Inv, Hashed, IsHash
<1>6. FailoverDisturbs'
  BY <1>1, <1>2, <1>3 DEF Inv, FailoverDisturbs, FailingOver, Goes
<1>7. (UploadsOver /\ CopiesDisturb /\ RestIsListed /\ DeadServerForgotten)'
  BY <1>1, <1>2, <1>3, <1>4, FailoversKept DEF Over
<1>8. ASSUME NEW v \in Uploads, NEW k, HasField(v, k)
      PROVE  HasField(v, k)'
  <2>1. FileOf[v] \in Files
    BY RedisAssumption
  <2>2. /\ k \in DOMAIN db[FileOf[v]].chunk
        /\ db[FileOf[v]].chunk[k] \in Started(FileOf[v])
        /\ k \in upload[db[FileOf[v]].chunk[k]].stored
        /\ db[FileOf[v]].chunk[k] \in Uploads /\ upload[db[FileOf[v]].chunk[k]].pc # "idle"
    BY <1>8 DEF HasField, Started
  <2> QED
    BY <1>3, <1>5, <2>1, <2>2 DEF HasField
<1>9. FieldsKept'
  <2> SUFFICES ASSUME NEW v \in Uploads \ disturbed
               PROVE  /\ upload'[v].pc \in {"file_hash", "replica_count", "expire", "done"} =>
                           \A k \in upload'[v].stored : HasField(v, k)'
                      /\ upload'[v].pc \in {"replica_count", "expire", "done"} =>
                           db'[FileOf[v]].file_hash \in Started(FileOf[v])'
    BY <1>1 DEF FieldsKept
  <2>1. FileOf[v] \in Files
    BY RedisAssumption
  <2>2. CASE v # u
    BY <1>3, <1>5, <1>8, <2>1, <2>2 DEF Inv, FieldsKept
  <2>3. CASE v = u /\ pc = "done"
    BY <1>2, <1>3, <1>5, <1>8, <2>1, <2>3 DEF Inv, FieldsKept
  <2>4. CASE v = u /\ pc = "error"
    BY <1>3, <2>4
  <2> QED
    BY <2>2, <2>3, <2>4
<1> QED
  BY <1>3, <1>4, <1>6, <1>7, <1>9 DEF Inv

(* Deletions and expiry: every upload of the file counts as disturbed when *)
(* the key goes.                                                           *)
LEMMA DeleteInv ==
  ASSUME Inv,
         \/ \E f \in Files : KeyExpires(f)
         \/ \E x \in Deletes : \/ StartDelete(x) \/ DeleteEntry(x)
                               \/ DeleteEntryThrows(x) \/ DeleteFails(x)
  PROVE  Inv'
<1>1. /\ UNCHANGED <<upload, failover>> /\ disturbed \subseteq disturbed'
      /\ \/ UNCHANGED db
         \/ \E f \in Files : Del(f) /\ Started(f) \subseteq disturbed'
  BY RedisAssumption
  DEF KeyExpires, StartDelete, DeleteEntry, DeleteEntryThrows, DeleteFails, history
<1>2. Hashed' /\ NewFields
  BY <1>1, OtherFields
<1>3. Sessions' /\ FailoverDisturbs'
  BY <1>1 DEF Inv, Sessions, FailoverDisturbs, FailingOver
<1>4. (UploadsOver /\ CopiesDisturb /\ RestIsListed /\ DeadServerForgotten)'
  BY <1>1, <1>2, FailoversKept
<1>5. FieldsKept'
  <2>1. CASE UNCHANGED db
    BY <1>1, <2>1 DEF Inv, FieldsKept, HasField, Started
  <2>2. ASSUME NEW f \in Files, Del(f), Started(f) \subseteq disturbed'
        PROVE  FieldsKept'
    <3>1. \A g \in Files \ {f} : db'[g] = db[g]
      BY <2>2 DEF Del, Inv, Hashed
    <3>2. \A v \in Uploads \ disturbed' : upload[v].pc # "idle" => FileOf[v] # f
      BY <2>2 DEF Started
    <3>3. \A v \in Uploads : FileOf[v] \in Files
      BY RedisAssumption
    <3> QED
      BY <1>1, <3>1, <3>2, <3>3 DEF Inv, FieldsKept, HasField, Started
  <2> QED
    BY <1>1, <2>1, <2>2
<1> QED
  BY <1>2, <1>3, <1>4, <1>5 DEF Inv

-----------------------------------------------------------------------------
(* What a step of the failover of s has to show.                           *)
StepOf(s) ==
  /\ UNCHANGED upload /\ disturbed \subseteq disturbed'
  /\ DOMAIN failover' = Failovers /\ \A t \in Failovers \ {s} : failover'[t] = failover[t]
  /\ DOMAIN failover'[s] = {"pc", "files", "healthy", "updates", "pipe"}
  /\ failover'[s].pc # "idle"
  /\ \/ failover[s].pc \notin Over
     \/ /\ failover[s].pc = "idle"
        /\ \A u \in Uploads : upload[u].pc # "idle" => u \in disturbed'
        /\ s \in disturbed' \/ \A u \in Uploads : upload[u].pc \in Over
CopiesOf(s) ==
  /\ failover'[s].pc = "query" => \A e \in failover'[s].updates : e[2].server \in disturbed'
  /\ failover'[s].pc = "replace" =>
       \A e \in failover'[s].pipe : /\ e.rec.server \in disturbed'
                                    /\ e.next \in {"hdel", "hset", "count"}
                                    /\ DOMAIN e = {"file", "rec", "next"}
RestOf(s) ==
  s \notin disturbed' =>
    /\ failover'[s].pc = "read" =>
         \A f \in Files : \A k \in DOMAIN db'[f].chunk :
           k[2] = s => f \in failover'[s].files \/ <<f, k>> \in failover'[s].pipe
    /\ failover'[s].pc = "done" => \A f \in Files : \A k \in DOMAIN db'[f].chunk : k[2] # s

LEMMA FailoverInv ==
  ASSUME Inv, NEW s \in Failovers, Hashed', NewFields, StepOf(s), CopiesOf(s), RestOf(s)
  PROVE  Inv'
<1>1. Sessions'
  BY DEF Inv, Sessions, StepOf
<1>2. \A u \in Uploads : upload[u].pc # "idle" => u \in disturbed'
  BY DEF Inv, FailoverDisturbs, FailingOver, StepOf
<1>3. FailoverDisturbs' /\ FieldsKept'
  BY <1>2 DEF FailoverDisturbs, FieldsKept, StepOf
<1>4. UploadsOver'
  BY DEF Inv, UploadsOver, StepOf, Over
<1>5. CopiesDisturb'
  BY SMT DEF Inv, CopiesDisturb, StepOf, CopiesOf
<1>6. ASSUME NEW t \in Failovers \ disturbed', t # s, failover[t].pc # "idle"
      PROVE  \A f \in Files : \A k \in DOMAIN db'[f].chunk : k[2] = t => k \in DOMAIN db[f].chunk
  <2>1. t \notin disturbed /\ \A u \in Uploads : upload[u].pc # "chunks"
    BY <1>6 DEF Inv, UploadsOver, Over, StepOf
  <2> QED
    BY <2>1 DEF NewFields
<1>7. RestIsListed'
  BY <1>6 DEF Inv, RestIsListed, StepOf, RestOf
<1>8. DeadServerForgotten'
  BY <1>6 DEF Inv, DeadServerForgotten, StepOf, RestOf
<1> QED
  BY <1>1, <1>3, <1>4, <1>5, <1>7, <1>8 DEF Inv

(* The beginning of a failover.                                            *)
LEMMA StartFailoverInv ==
  ASSUME Inv, NEW s \in Failovers,
         \/ \E healthy \in SUBSET (Servers \ {s}) : StartFailover(s, healthy)
         \/ failover[s] = Idle /\ CommandThrows(s, Failing("list", {}, {}))
  PROVE  Inv'
<1>1. PICK rec : /\ failover' = [failover EXCEPT ![s] = rec]
                 /\ rec.pc \in {"list", "error", "query"}
                 /\ rec.updates = {}
                 /\ DOMAIN rec = {"pc", "files", "healthy", "updates", "pipe"}
  <2>1. PICK pc \in {"list", "error", "query"} : \E files, healthy :
          failover' = [failover EXCEPT ![s] = Failing(pc, files, healthy)]
    BY DEF StartFailover, CommandThrows
  <2>2. PICK files, healthy : failover' = [failover EXCEPT ![s] = Failing(pc, files, healthy)]
    BY <2>1
  <2>3. /\ Failing(pc, files, healthy).pc = pc /\ Failing(pc, files, healthy).updates = {}
        /\ DOMAIN Failing(pc, files, healthy) = {"pc", "files", "healthy", "updates", "pipe"}
    BY DEF Failing
  <2> QED
    BY <2>2, <2>3
<1>2. /\ DOMAIN failover' = Failovers /\ \A t \in Failovers \ {s} : failover'[t] = failover[t]
      /\ failover'[s] = rec
  BY <1>1 DEF Inv, Sessions
<1>4. /\ failover[s].pc = "idle" /\ UNCHANGED <<db, upload>> /\ disturbed \subseteq disturbed'
      /\ \A u \in Uploads : upload[u].pc # "idle" => u \in disturbed'
      /\ s \in disturbed' \/ \A f \in Files : Uploading(f) = {}
  BY SMT DEF StartFailover, CommandThrows, Idle
<1>5. s \in disturbed' \/ \A u \in Uploads : upload[u].pc \in Over
  BY <1>4, RedisAssumption DEF Uploading
<1>6. StepOf(s)
  BY <1>1, <1>2, <1>4, <1>5 DEF StepOf
<1>7. CopiesOf(s) /\ RestOf(s)
  BY <1>1, <1>2 DEF CopiesOf, RestOf
<1> QED
  BY <1>4, <1>6, <1>7, OtherFields, FailoverInv

(* A step of a failover that has begun changes its own record only.        *)
LEMMA StepOfFailover ==
  ASSUME Inv, NEW s \in Failovers, failover[s].pc \notin Over, UNCHANGED upload,
         disturbed \subseteq disturbed', NEW rec, failover' = [failover EXCEPT ![s] = rec],
         DOMAIN rec = DOMAIN failover[s], rec.pc # "idle"
  PROVE  StepOf(s) /\ failover'[s] = rec
BY DEF Inv, Sessions, StepOf, Over

(* The copies.                                                             *)
LEMMA QueryFileInv ==
  ASSUME Inv, NEW s \in Failovers, NEW f \in Files, QueryFile(s, f)
  PROVE  Inv'
<1> DEFINE t == failover[s]
<1>1. /\ t.pc = "query" /\ t.pc \notin Over /\ UNCHANGED <<db, upload>>
      /\ DOMAIN t = {"pc", "files", "healthy", "updates", "pipe"}
  BY DEF QueryFile, Over, Inv, Sessions
<1>2. PICK C \in SUBSET Lost(f, s) : \E to \in [C -> t.healthy] :
        /\ failover' = [failover EXCEPT ![s].files = @ \ {f},
              ![s].updates = @ \cup {<<f, Record(<<c, to[c]>>, s)>> : c \in C}]
        /\ disturbed' = disturbed \cup {to[c] : c \in C}
  BY DEF QueryFile
<1>3. PICK to \in [C -> t.healthy] :
        /\ failover' = [failover EXCEPT ![s].files = @ \ {f},
              ![s].updates = @ \cup {<<f, Record(<<c, to[c]>>, s)>> : c \in C}]
        /\ disturbed' = disturbed \cup {to[c] : c \in C}
  BY <1>2
<1> DEFINE new == {<<f, Record(<<c, to[c]>>, s)>> : c \in C}
<1>4. \A e \in new : e[2].server \in disturbed'
  BY <1>3, SMT DEF Record
<1> DEFINE rec == [t EXCEPT !.files = @ \ {f}, !.updates = @ \cup new]
<1>5. failover' = [failover EXCEPT ![s] = rec]
  BY <1>3 DEF Inv, Sessions
<1> HIDE DEF new
<1>6. DOMAIN rec = DOMAIN t /\ rec.pc = "query" /\ rec.updates = t.updates \cup new
  BY <1>1
<1> HIDE DEF rec
<1>7. StepOf(s) /\ failover'[s] = rec
  BY <1>1, <1>3, <1>5, <1>6, StepOfFailover
<1>8. CopiesOf(s) /\ RestOf(s)
  BY <1>1, <1>3, <1>4, <1>6, <1>7 DEF CopiesOf, RestOf, Inv, CopiesDisturb
<1> QED
  BY <1>1, <1>7, <1>8, OtherFields, FailoverInv

(* The pipeline is built and goes on command by command.                   *)
LEMMA BuildPipeInv ==
  ASSUME Inv, NEW s \in Failovers, BuildPipe(s)
  PROVE  Inv'
<1> DEFINE t == failover[s]
           pipe == {[file |-> e[1], rec |-> e[2], next |-> "hdel"] : e \in t.updates}
           pc == IF t.updates = {} THEN "list" ELSE "replace"
           rec == [t EXCEPT !.pc = pc, !.pipe = pipe]
<1>1. /\ t.pc = "query" /\ t.pc \notin Over /\ UNCHANGED <<db, upload, disturbed>>
      /\ DOMAIN t = {"pc", "files", "healthy", "updates", "pipe"}
  BY DEF BuildPipe, Over, Inv, Sessions, history
<1>2. failover' = [failover EXCEPT ![s] = rec]
  BY DEF BuildPipe, Inv, Sessions
<1>3. \A e \in pipe : /\ e.rec.server \in disturbed /\ e.next = "hdel"
                      /\ DOMAIN e = {"file", "rec", "next"}
  BY <1>1, SMT DEF Inv, CopiesDisturb
<1> HIDE DEF pipe
<1>4. DOMAIN rec = DOMAIN t /\ rec.pc \in {"list", "replace"} /\ rec.pipe = pipe
  BY <1>1
<1> HIDE DEF rec
<1>5. StepOf(s) /\ failover'[s] = rec
  BY <1>1, <1>2, <1>4, StepOfFailover
<1>6. CopiesOf(s) /\ RestOf(s)
  BY <1>1, <1>3, <1>4, <1>5 DEF CopiesOf, RestOf
<1> QED
  BY <1>1, <1>5, <1>6, OtherFields, FailoverInv

LEMMA AtomicReplaceInv ==
  ASSUME Inv, NEW s \in Failovers, AtomicReplace(s)
  PROVE  Inv'
<1> DEFINE t == failover[s]
           Next1(e) == CASE e.next = "hdel" -> {[e EXCEPT !.next = "hset"]}
                         [] e.next = "hset" -> {[e EXCEPT !.next = "count"]}
                         [] e.next = "count" -> {}
           Rest(e) == (t.pipe \ {e}) \cup Next1(e)
           Rec(e) == [t EXCEPT !.pipe = Rest(e), !.pc = IF Rest(e) = {} THEN "list" ELSE @]
<1>1. /\ t.pc = "replace" /\ t.pc \notin Over /\ UNCHANGED <<upload, disturbed>>
      /\ DOMAIN t = {"pc", "files", "healthy", "updates", "pipe"}
  BY DEF AtomicReplace, Over, Inv, Sessions, history
<1>2. PICK e \in t.pipe : failover' = [failover EXCEPT ![s] = Rec(e)]
  BY DEF AtomicReplace, Inv, Sessions
<1>3. \A i \in t.pipe : /\ i.rec.server \in disturbed /\ i.next \in {"hdel", "hset", "count"}
                        /\ DOMAIN i = {"file", "rec", "next"}
  BY <1>1 DEF Inv, CopiesDisturb
<1>4. \A i \in Next1(e) : /\ i.rec.server \in disturbed /\ i.next \in {"hdel", "hset", "count"}
                          /\ DOMAIN i = {"file", "rec", "next"}
  BY <1>2, <1>3
<1> HIDE DEF Next1
<1>5. DOMAIN Rec(e) = DOMAIN t /\ Rec(e).pc \in {"list", "replace"} /\ Rec(e).pipe = Rest(e)
  BY <1>1
<1> HIDE DEF Rec
<1>6. StepOf(s) /\ failover'[s] = Rec(e)
  BY <1>1, <1>2, <1>5, StepOfFailover
<1>7. CopiesOf(s) /\ RestOf(s)
  BY <1>1, <1>3, <1>4, <1>5, <1>6 DEF CopiesOf, RestOf
<1> QED
  BY <1>6, <1>7, OtherFields, FailoverInv

(* delete_server_metadata: what is listed, read and removed.               *)
LEMMA ListForDropInv ==
  ASSUME Inv, NEW s \in Failovers, ListForDrop(s)
  PROVE  Inv'
<1> DEFINE t == failover[s]
           rec == [t EXCEPT !.pc = "read", !.files = Keys]
<1>1. /\ t.pc = "list" /\ t.pc \notin Over /\ UNCHANGED <<db, upload, disturbed>>
      /\ DOMAIN t = {"pc", "files", "healthy", "updates", "pipe"}
  BY DEF ListForDrop, Over, Inv, Sessions, history
<1>2. failover' = [failover EXCEPT ![s] = rec]
  BY DEF ListForDrop, Inv, Sessions
<1>3. DOMAIN rec = DOMAIN t /\ rec.pc = "read" /\ rec.files = Keys
  BY <1>1
<1> HIDE DEF rec
<1>4. StepOf(s) /\ failover'[s] = rec
  BY <1>1, <1>2, <1>3, StepOfFailover
<1>5. \A f \in Files : DOMAIN db[f].chunk # {} => f \in Keys
  BY DEF Keys, Exists, HasFields
<1>6. CopiesOf(s) /\ RestOf(s)
  BY <1>1, <1>3, <1>4, <1>5 DEF CopiesOf, RestOf
<1> QED
  BY <1>1, <1>4, <1>6, OtherFields, FailoverInv

LEMMA ReadForDropInv ==
  ASSUME Inv, NEW s \in Failovers, NEW f \in Files, ReadForDrop(s, f)
  PROVE  Inv'
<1> DEFINE t == failover[s]
           found == {<<f, k>> : k \in {i \in DOMAIN db[f].chunk : i[2] = s}}
           rec == [t EXCEPT !.files = @ \ {f}, !.pipe = @ \cup found]
<1>1. /\ t.pc = "read" /\ t.pc \notin Over /\ UNCHANGED <<db, upload, disturbed>>
      /\ DOMAIN t = {"pc", "files", "healthy", "updates", "pipe"}
  BY DEF ReadForDrop, Over, Inv, Sessions, history
<1>2. failover' = [failover EXCEPT ![s] = rec]
  BY DEF ReadForDrop, Inv, Sessions
<1>3. \A k \in DOMAIN db[f].chunk : k[2] = s => <<f, k>> \in found
  OBVIOUS
<1> HIDE DEF found
<1>4. /\ DOMAIN rec = DOMAIN t /\ rec.pc = "read"
      /\ rec.files = t.files \ {f} /\ rec.pipe = t.pipe \cup found
  BY <1>1
<1> HIDE DEF rec
<1>5. StepOf(s) /\ failover'[s] = rec
  BY <1>1, <1>2, <1>4, StepOfFailover
<1>6. CopiesOf(s) /\ RestOf(s)
  BY <1>1, <1>3, <1>4, <1>5 DEF CopiesOf, RestOf, Inv, RestIsListed
<1> QED
  BY <1>1, <1>5, <1>6, OtherFields, FailoverInv

LEMMA DropInv ==
  ASSUME Inv, NEW s \in Failovers, Drop(s)
  PROVE  Inv'
<1> DEFINE t == failover[s]
           Rec(e) == [t EXCEPT !.pipe = @ \ {e}]
<1>1. /\ t.pc = "read" /\ t.pc \notin Over /\ t.files = {} /\ UNCHANGED <<upload, disturbed>>
      /\ DOMAIN t = {"pc", "files", "healthy", "updates", "pipe"}
  BY DEF Drop, Over, Inv, Sessions, history
<1>2. PICK e \in t.pipe : /\ db' = [db EXCEPT ![e[1]] = HDel(@, e[2])]
                          /\ failover' = [failover EXCEPT ![s] = Rec(e)]
  BY DEF Drop, Inv, Sessions
<1>3. /\ DOMAIN Rec(e) = DOMAIN t /\ Rec(e).pc = "read" /\ Rec(e).files = {}
      /\ Rec(e).pipe = t.pipe \ {e}
  BY <1>1
<1> HIDE DEF Rec
<1>4. StepOf(s) /\ failover'[s] = Rec(e)
  BY <1>1, <1>2, <1>3, StepOfFailover
<1>5. ASSUME NEW f \in Files, NEW k \in DOMAIN db'[f].chunk
      PROVE  k \in DOMAIN db[f].chunk /\ <<f, k>> # e
  <2>1. CASE f = e[1]
    <3>1. db'[f] = HDel(db[f], e[2]) /\ IsHash(db[f])
      BY <1>2, <2>1 DEF Inv, Hashed
    <3> QED
      BY <1>5, <3>1, HDelRemoves, SMT
  <2>2. CASE f # e[1]
    BY <1>2, <1>5, <2>2, SMT DEF Inv, Hashed
  <2> QED
    BY <2>1, <2>2
<1>6. CopiesOf(s) /\ RestOf(s)
  BY <1>1, <1>3, <1>4, <1>5 DEF CopiesOf, RestOf, Inv, RestIsListed
<1> QED
  BY <1>4, <1>6, OtherFields, FailoverInv

LEMMA EndFailoverInv ==
  ASSUME Inv, NEW s \in Failovers, EndFailover(s)
  PROVE  Inv'
<1> DEFINE t == failover[s]
           rec == [t EXCEPT !.pc = "done"]
<1>1. /\ t.pc = "read" /\ t.pc \notin Over /\ UNCHANGED <<db, upload, disturbed>>
      /\ DOMAIN t = {"pc", "files", "healthy", "updates", "pipe"}
      /\ t.files = {} /\ t.pipe = {}
  BY DEF EndFailover, Over, Inv, Sessions
<1>2. failover' = [failover EXCEPT ![s] = rec]
  BY DEF EndFailover, Inv, Sessions
<1>3. DOMAIN rec = DOMAIN t /\ rec.pc = "done"
  BY <1>1
<1> HIDE DEF rec
<1>4. StepOf(s) /\ failover'[s] = rec
  BY <1>1, <1>2, <1>3, StepOfFailover
<1>5. CopiesOf(s) /\ RestOf(s)
  BY <1>1, <1>3, <1>4 DEF CopiesOf, RestOf, Inv, RestIsListed
<1> QED
  BY <1>1, <1>4, <1>5, OtherFields, FailoverInv

(* A command that throws disturbs the failover it belongs to.              *)
LEMMA ThrowInv ==
  ASSUME Inv, NEW s \in Failovers,
         \/ ListThrows(s) \/ PipeThrows(s)
         \/ \E f \in Files : QueryThrows(s, f)
  PROVE  Inv'
<1> DEFINE t == failover[s]
<1>1. CASE t = Idle /\ CommandThrows(s, Failing("list", {}, {}))
  BY <1>1, StartFailoverInv
<1>2. ASSUME NEW rec, CommandThrows(s, rec), t.pc \notin Over, DOMAIN rec = DOMAIN t,
             \/ rec.pc \in {"list", "read"}
             \/ rec.pc = "query" /\ t.pc = "query" /\ rec.updates = t.updates
      PROVE  Inv'
  <2>1. /\ UNCHANGED <<db, upload>> /\ disturbed \subseteq disturbed' /\ s \in disturbed'
        /\ failover' = [failover EXCEPT ![s] = rec]
    BY <1>2 DEF CommandThrows
  <2>2. StepOf(s) /\ failover'[s] = rec
    BY <1>2, <2>1, StepOfFailover
  <2>3. CopiesOf(s) /\ RestOf(s)
    BY <1>2, <2>1, <2>2 DEF CopiesOf, RestOf, Inv, CopiesDisturb
  <2> QED
    BY <2>1, <2>2, <2>3, OtherFields, FailoverInv
<1>3. t.pc # "idle" => DOMAIN t = {"pc", "files", "healthy", "updates", "pipe"}
  BY DEF Inv, Sessions
<1>4. CASE t.pc = "list" /\ CommandThrows(s, [t EXCEPT !.pc = "read"])
  BY <1>2, <1>3, <1>4 DEF Over
<1>5. CASE t.pc = "replace" /\ CommandThrows(s, [t EXCEPT !.pc = "list", !.pipe = {}])
  BY <1>2, <1>3, <1>5 DEF Over
<1>6. CASE t.pc = "read" /\ CommandThrows(s, [t EXCEPT !.pipe = {}])
  BY <1>2, <1>3, <1>6 DEF Over
<1>7. ASSUME NEW f \in Files, t.pc \in {"query", "read"},
             CommandThrows(s, [t EXCEPT !.files = @ \ {f}])
      PROVE  Inv'
  BY <1>2, <1>3, <1>7 DEF Over
<1> QED
  BY <1>1, <1>4, <1>5, <1>6, <1>7 DEF ListThrows, PipeThrows, QueryThrows

LEMMA NextInv == Inv /\ [Next]_vars => Inv'
<1> SUFFICES ASSUME Inv, [Next]_vars PROVE Inv'
  OBVIOUS
<1>1. CASE UNCHANGED vars
  BY <1>1, SMT DEF vars, history, Inv, Hashed, Sessions, FailoverDisturbs, FailingOver, FieldsKept,
     HasField, Started, UploadsOver, CopiesDisturb, RestIsListed, DeadServerForgotten
<1>2. CASE \E u \in Uploads : \/ \E K \in Vectors : StartUpload(u, K)
                              \/ CreateEntry(u) \/ Expire(u) \/ CreateEntryThrows(u)
  BY <1>2, StartUploadInv, CreateEntryInv, EndUploadInv
<1>3. CASE \/ \E f \in Files : KeyExpires(f)
           \/ \E x \in Deletes : \/ StartDelete(x) \/ DeleteEntry(x)
                                 \/ DeleteEntryThrows(x) \/ DeleteFails(x)
  BY <1>3, DeleteInv
<1>4. ASSUME NEW s \in Failovers,
             \/ \E healthy \in SUBSET (Servers \ {s}) : StartFailover(s, healthy)
             \/ \E f \in Files : \/ QueryFile(s, f) \/ ReadForDrop(s, f) \/ QueryThrows(s, f)
             \/ BuildPipe(s) \/ AtomicReplace(s) \/ ListForDrop(s)
             \/ Drop(s) \/ EndFailover(s) \/ ListThrows(s) \/ PipeThrows(s)
      PROVE  Inv'
  BY <1>4, StartFailoverInv, QueryFileInv, ReadForDropInv, BuildPipeInv, AtomicReplaceInv,
     ListForDropInv, DropInv, EndFailoverInv, ThrowInv
<1> QED
  BY <1>1, <1>2, <1>3, <1>4 DEF Next

-----------------------------------------------------------------------------
(* For every set of files, servers and uploads, however the commands of    *)
(* several create_entry interleave: what a finished upload recorded is     *)
(* there, unless a deletion, a failover or the expiry of the key took it.  *)
THEOREM ReplicasAlwaysKept == Spec => []ReplicasKept
<1>1. Inv => ReplicasKept
  BY DEF Inv, FieldsKept, HasField, ReplicasKept
<1> QED
  BY <1>1, InitInv, NextInv, PTL DEF Spec

(* For every set of files, servers and failovers, whatever deletions,      *)
(* expiries and other failovers come between the reads of                  *)
(* delete_server_metadata and its commands: an undisturbed failover leaves *)
(* no replica of the dead server.                                          *)
THEOREM DeadServerAlwaysForgotten == Spec => []DeadServerForgotten
<1>1. Inv => DeadServerForgotten
  BY DEF Inv
<1> QED
  BY <1>1, InitInv, NextInv, PTL DEF Spec

-----------------------------------------------------------------------------
(* The two backends side by side.  The shape of what Redis holds, of the   *)
(* requests at work, and of the on-disk store:                             *)
Key == ChunkIds \X Servers
Good(h) ==
  /\ DOMAIN h = {"chunk", "replicas", "file_hash", "replica_count", "ttl"}
  /\ DOMAIN h.chunk \subseteq Key
  /\ \A k \in DOMAIN h.chunk : h.chunk[k] \in Paths
  /\ h.replicas \subseteq ChunkIds
  /\ h.file_hash \in Hashes \cup {NoHash}
  /\ h.replica_count \in {0, ReplicationFactor}
  /\ ~HasFields(h) => h = NoKey

UploadOK(r) ==
  r.pc # "idle" =>
    /\ r.pc \in Over \cup {"chunks", "file_hash", "replica_count", "expire"}
    /\ r.stored \subseteq Key
    /\ r.pc = "chunks" => r.stored # {}

CopiesBy(s) == {Record(<<c, to>>, s) : c \in ChunkIds, to \in Servers \ {s}}
FailoverOK(s, t) ==
  t.pc # "idle" =>
    /\ t.pc \in Over \cup {"query", "replace", "list", "read"}
    /\ t.healthy \subseteq Servers \ {s}
    /\ t.updates \subseteq Files \X CopiesBy(s)
    /\ t.pc = "list" => t.pipe = {}
    /\ t.pc = "replace" =>
         /\ \A p \in t.pipe : <<p.file, p.rec>> \in t.updates
         /\ \A p, q \in t.pipe : p.file = q.file /\ p.rec = q.rec => p = q
    /\ t.pc = "read" => t.pipe \subseteq Files \X {k \in Key : k[2] = s}

Shapes ==
  /\ \A f \in Files : Good(db[f])
  /\ DOMAIN delete = Deletes /\ \A x \in Deletes : "pc" \in DOMAIN delete[x]
  /\ \A u \in Uploads : UploadOK(upload[u])
  /\ \A s \in Failovers : FailoverOK(s, failover[s])
  /\ \A f \in DOMAIN local : DOMAIN local[f] = {"file_hash", "replica_count", "chunks"}

(* The requests about a file that is not set apart come one at a time.     *)
OneAtATime(f) ==
  /\ \A s, t \in FailingOver : s = t
  /\ \A u, v \in Uploading(f) : u = v
  /\ FailingOver # {} => Uploading(f) = {} /\ Deleting(f) = {}
  /\ Uploading(f) # {} => Deleting(f) = {}

(* An upload at work has written just what it has got to.                  *)
Written(u, f) ==
  /\ upload[u].pc = "chunks" => DOMAIN db[f].chunk = {}
  /\ upload[u].pc \in {"file_hash", "replica_count", "expire"} =>
       DOMAIN db[f].chunk = upload[u].stored /\ \A k \in DOMAIN db[f].chunk : db[f].chunk[k] = u
  /\ upload[u].pc \in {"replica_count", "expire"} => db[f].file_hash = u

(* A failover at work: away from the dead server, Redis has what the       *)
(* on-disk store has and the copies whose HSET is over; on the dead server *)
(* it has what it will still read or remove.                               *)
Away(R, s) == {r \in R : r.server # s}
CopiesIn(t, f) == {e[2] : e \in {d \in t.updates : d[1] = f}}
IsSet(t, f, r) == t.pc = "replace" =>
                    \A p \in t.pipe : p.file = f /\ p.rec = r => p.next = "count"
Copied(s, f) ==
  LET t == failover[s]
  IN /\ db[f].file_hash = LocalHash(f)
     /\ \A r \in CopiesIn(t, f) : \A l \in LocalRecords(f) :
          l.chunk_id # r.chunk_id \/ l.server # r.server
     /\ CopiesIn(t, f) # {} => f \in DOMAIN local
     /\ t.pc = "query" => QueryMetadata(f) = LocalRecords(f)
     /\ t.pc # "query" => Away(QueryMetadata(f), s) =
                            Away(LocalRecords(f), s) \cup {r \in CopiesIn(t, f) : IsSet(t, f, r)}
     /\ t.pc = "read" => \A k \in DOMAIN db[f].chunk :
                           k[2] = s => f \in t.files \/ <<f, k>> \in t.pipe

Matches(f) == QueryMetadata(f) = LocalRecords(f) /\ db[f].file_hash = LocalHash(f)

SideBySide(f) ==
  /\ \A u \in Uploading(f) : Written(u, f)
  /\ \A s \in FailingOver : Copied(s, f)
  /\ Uploading(f) = {} /\ FailingOver = {} => Matches(f)

Agreeing == Shapes /\ \A f \in Files \ apart : OneAtATime(f) /\ SideBySide(f)

-----------------------------------------------------------------------------
(* The commands keep the shape of a hash; what they do to its fields.      *)
SameFields(h, g) == /\ h.chunk = g.chunk /\ h.file_hash = g.file_hash

LEMMA GoodNoKey == Good(NoKey) /\ DOMAIN NoKey.chunk = {} /\ NoKey.file_hash = NoHash
BY DEF Good, NoKey

LEMMA GoodHDel ==
  ASSUME NEW h, Good(h), NEW k
  PROVE  /\ Good(HDel(h, k)) /\ HDel(h, k).file_hash = h.file_hash
         /\ DOMAIN HDel(h, k).chunk = DOMAIN h.chunk \ {k}
         /\ \A i \in DOMAIN h.chunk \ {k} : HDel(h, k).chunk[i] = h.chunk[i]
<1> DEFINE rest == [h EXCEPT !.chunk = [i \in DOMAIN h.chunk \ {k} |-> h.chunk[i]]]
<1>1. /\ DOMAIN rest = DOMAIN h /\ rest.chunk = [i \in DOMAIN h.chunk \ {k} |-> h.chunk[i]]
      /\ rest.replicas = h.replicas /\ rest.file_hash = h.file_hash
      /\ rest.replica_count = h.replica_count
  BY DEF Good
<1>2. HDel(h, k) = IF HasFields(rest) THEN rest ELSE NoKey
  BY DEF HDel
<1> HIDE DEF rest
<1>3. CASE HasFields(rest)
  BY <1>1, <1>2, <1>3 DEF Good
<1>4. CASE ~HasFields(rest)
  <2>1. DOMAIN rest.chunk = {} /\ rest.file_hash = NoHash
    BY <1>4 DEF HasFields
  <2> QED
    BY <1>1, <1>2, <1>4, <2>1, GoodNoKey
<1> QED
  BY <1>3, <1>4

LEMMA GoodWith ==
  ASSUME NEW h, Good(h), NEW k \in Key, NEW path \in Paths
  PROVE  /\ Good(With(h, k, path)) /\ With(h, k, path).file_hash = h.file_hash
         /\ DOMAIN With(h, k, path).chunk = DOMAIN h.chunk \cup {k}
         /\ With(h, k, path).chunk[k] = path
         /\ \A i \in DOMAIN h.chunk : i # k => With(h, k, path).chunk[i] = h.chunk[i]
<1> DEFINE g == With(h, k, path)
<1>1. /\ DOMAIN g = DOMAIN h
      /\ g.chunk = [i \in DOMAIN h.chunk \cup {k} |-> IF i = k THEN path ELSE h.chunk[i]]
      /\ g.replicas = h.replicas /\ g.file_hash = h.file_hash
      /\ g.replica_count = h.replica_count
  BY DEF Good, With
<1> HIDE DEF g
<1>2. HasFields(g)
  BY <1>1 DEF HasFields
<1>3. Good(g)
  BY <1>1, <1>2 DEF Good
<1> QED
  BY <1>1, <1>3 DEF g

LEMMA GoodSetChunks ==
  ASSUME NEW h, Good(h), NEW K \in SUBSET Key, K # {}, NEW path \in Paths
  PROVE  Good(SetChunks(h, K, path))
<1> DEFINE g == SetChunks(h, K, path)
<1>1. /\ DOMAIN g = DOMAIN h
      /\ g.chunk = [i \in DOMAIN h.chunk \cup K |-> IF i \in K THEN path ELSE h.chunk[i]]
      /\ g.replicas = h.replicas \cup {i[1] : i \in K} /\ g.file_hash = h.file_hash
      /\ g.replica_count = h.replica_count
  BY DEF Good, SetChunks
<1>2. {i[1] : i \in K} \subseteq ChunkIds
  BY DEF Key
<1> HIDE DEF g
<1>3. HasFields(g)
  BY <1>1 DEF HasFields
<1>4. Good(g)
  BY <1>1, <1>2, <1>3 DEF Good
<1> QED
  BY <1>4 DEF g

LEMMA GoodHash ==
  ASSUME NEW h, Good(h), NEW u \in Uploads
  PROVE  Good([h EXCEPT !.file_hash = u])
<1> DEFINE g == [h EXCEPT !.file_hash = u]
<1>1. /\ DOMAIN g = DOMAIN h /\ g.chunk = h.chunk /\ g.replicas = h.replicas
      /\ g.file_hash = u /\ g.replica_count = h.replica_count
  BY DEF Good
<1> HIDE DEF g
<1>2. u \in Hashes /\ u # NoHash
  BY RedisAssumption, MetadataAssumption
<1>3. HasFields(g)
  BY <1>1, <1>2 DEF HasFields
<1>4. Good(g)
  BY <1>1, <1>2, <1>3 DEF Good
<1> QED
  BY <1>4 DEF g

LEMMA GoodCount ==
  ASSUME NEW h, Good(h)
  PROVE  Good(SetCount(h)) /\ SameFields(SetCount(h), h)
<1> DEFINE g == SetCount(h)
<1>1. /\ DOMAIN g = DOMAIN h /\ g.chunk = h.chunk /\ g.replicas = h.replicas
      /\ g.file_hash = h.file_hash /\ g.replica_count = ReplicationFactor
  BY DEF Good, SetCount
<1> HIDE DEF g
<1>2. HasFields(g)
  BY <1>1, RedisAssumption DEF HasFields
<1>3. Good(g)
  BY <1>1, <1>2 DEF Good
<1> QED
  BY <1>1, <1>3 DEF g, SameFields

LEMMA GoodReplicas ==
  ASSUME NEW h, Good(h), NEW c \in ChunkIds
  PROVE  LET g == [h EXCEPT !.replicas = @ \cup {c}] IN Good(g) /\ SameFields(g, h)
<1> DEFINE g == [h EXCEPT !.replicas = @ \cup {c}]
<1>1. /\ DOMAIN g = DOMAIN h /\ g.chunk = h.chunk /\ g.replicas = h.replicas \cup {c}
      /\ g.file_hash = h.file_hash /\ g.replica_count = h.replica_count
  BY DEF Good
<1> HIDE DEF g
<1>2. HasFields(g)
  BY <1>1 DEF HasFields
<1>3. Good(g)
  BY <1>1, <1>2 DEF Good
<1> QED
  BY <1>1, <1>3 DEF g, SameFields

LEMMA GoodTtl ==
  ASSUME NEW h, Good(h), HasFields(h)
  PROVE  Good([h EXCEPT !.ttl = TRUE]) /\ SameFields([h EXCEPT !.ttl = TRUE], h)
<1> DEFINE g == [h EXCEPT !.ttl = TRUE]
<1>1. /\ DOMAIN g = DOMAIN h /\ g.chunk = h.chunk /\ g.replicas = h.replicas
      /\ g.file_hash = h.file_hash /\ g.replica_count = h.replica_count
  BY DEF Good
<1> HIDE DEF g
<1>2. HasFields(g)
  BY <1>1 DEF HasFields
<1>3. Good(g)
  BY <1>1, <1>2 DEF Good
<1> QED
  BY <1>1, <1>3 DEF g, SameFields

(* The records read from a hash.                                           *)
LEMMA RecordFields ==
  /\ \A k, path : Record(k, path).chunk_id = k[1] /\ Record(k, path).server = k[2]
  /\ \A k \in Key, l \in Key : \A p, q : Record(k, p) = Record(l, q) => k = l /\ p = q
  /\ \A s : \A r \in CopiesBy(s) : /\ r = Record(<<r.chunk_id, r.server>>, s) /\ r.server # s
                                   /\ <<r.chunk_id, r.server>> \in Key
BY SMT DEF Record, Key, CopiesBy

-----------------------------------------------------------------------------
(* A file whose fields, records and requests stay as they are.             *)
LEMMA Untouched ==
  ASSUME NEW f \in Files, OneAtATime(f), SideBySide(f), SameFields(db'[f], db[f]),
         LocalRecords(f)' = LocalRecords(f), LocalHash(f)' = LocalHash(f),
         f \in DOMAIN local => f \in DOMAIN local',
         \A u \in Uploads : FileOf[u] = f => upload'[u] = upload[u],
         FailingOver' = FailingOver, \A s \in FailingOver : failover'[s] = failover[s],
         Deleting(f)' \subseteq Deleting(f)
  PROVE  OneAtATime(f)' /\ SideBySide(f)'
<1>1. Uploading(f)' = Uploading(f)
  BY DEF Uploading
<1>2. OneAtATime(f)'
  BY <1>1 DEF OneAtATime
<1>3. QueryMetadata(f)' = QueryMetadata(f)
  BY DEF QueryMetadata, SameFields
<1>4. \A u \in Uploading(f) : Written(u, f)'
  <2> TAKE u \in Uploading(f)
  <2>1. upload'[u] = upload[u] /\ Written(u, f)
    BY DEF Uploading, SideBySide
  <2> QED
    BY <2>1 DEF Written, SameFields
<1>5. \A s \in FailingOver : Copied(s, f)'
  <2> TAKE s \in FailingOver
  <2>1. failover'[s] = failover[s] /\ Copied(s, f)
    BY DEF SideBySide
  <2> QED
    BY <1>3, <2>1 DEF Copied, SameFields
<1>6. Uploading(f) = {} /\ FailingOver = {} => Matches(f)'
  BY <1>3 DEF SideBySide, Matches, SameFields
<1> QED
  BY <1>1, <1>2, <1>4, <1>5, <1>6 DEF SideBySide

(* The same for all files a step of an upload or a deletion is not about.  *)
LEMMA OthersUntouched ==
  ASSUME Agreeing, NEW g, UNCHANGED failover,
         \A f \in Files \ {g} : /\ SameFields(db'[f], db[f]) /\ Deleting(f)' \subseteq Deleting(f)
                                /\ LocalRecords(f)' = LocalRecords(f) /\ LocalHash(f)' = LocalHash(f)
                                /\ f \in DOMAIN local => f \in DOMAIN local',
         \A u \in Uploads : FileOf[u] # g => upload'[u] = upload[u],
         apart \ {g} \subseteq apart'
  PROVE  \A f \in Files \ apart' : f # g => OneAtATime(f)' /\ SideBySide(f)'
<1> TAKE f \in Files \ apart'
<1> HAVE f # g
<1>1. OneAtATime(f) /\ SideBySide(f)
  BY DEF Agreeing
<1>2. FailingOver' = FailingOver /\ \A s \in FailingOver : failover'[s] = failover[s]
  BY DEF FailingOver
<1> QED
  BY <1>1, <1>2, Untouched

(* What stays where the on-disk store stays.                               *)
LEMMA LocalSame ==
  ASSUME UNCHANGED local
  PROVE  \A f \in Files : /\ LocalRecords(f)' = LocalRecords(f) /\ LocalHash(f)' = LocalHash(f)
                          /\ f \in DOMAIN local => f \in DOMAIN local'
BY DEF LocalRecords, LocalHash

LEMMA StartUploadAgrees ==
  ASSUME Inv, Agreeing, NEW u \in Uploads, NEW K \in Vectors, StartUpload(u, K)
  PROVE  Agreeing'
<1> DEFINE g == FileOf[u]
<1>1. /\ UNCHANGED <<db, delete, failover, local>> /\ g \in Files /\ apart \subseteq apart'
      /\ g \notin apart' => ~Busy(g) /\ ~Exists(g)
  BY RedisAssumption DEF StartUpload
<1>2. /\ upload[u].pc = "idle" /\ DOMAIN upload' = Uploads
      /\ upload'[u] = [pc |-> IF K = {} THEN "file_hash" ELSE "chunks", stored |-> K]
      /\ \A v \in Uploads \ {u} : upload'[v] = upload[v]
  BY DEF StartUpload, Idle, Inv, Sessions
<1>3. Shapes'
  <2>1. UploadOK(upload'[u])
    BY <1>2, RedisAssumption, SMT DEF UploadOK, Key
  <2> QED
    BY <1>1, <1>2, <2>1 DEF Agreeing, Shapes
<1>4. \A f \in Files : SameFields(db'[f], db[f]) /\ Deleting(f)' = Deleting(f)
  BY <1>1 DEF SameFields, Deleting
<1>5. \A f \in Files \ apart' : f # g => OneAtATime(f)' /\ SideBySide(f)'
  BY <1>1, <1>2, <1>4, LocalSame, OthersUntouched
<1>6. ASSUME g \notin apart' PROVE OneAtATime(g)' /\ SideBySide(g)'
  <2>1. Uploading(g) = {} /\ Deleting(g) = {} /\ FailingOver = {} /\ DOMAIN db[g].chunk = {}
    BY <1>1, <1>6 DEF Busy, Exists, HasFields
  <2>2. Uploading(g)' = {u} /\ FailingOver' = {} /\ Deleting(g)' = {}
    <3>1. upload'[u].pc \notin Over
      BY <1>2, SMT DEF Over
    <3> QED
      BY <1>1, <1>2, <1>4, <2>1, <3>1 DEF Uploading, FailingOver
  <2>3. Written(u, g)'
    BY <1>1, <1>2, <2>1, SMT DEF Written
  <2> QED
    BY <2>2, <2>3 DEF OneAtATime, SideBySide
<1> QED
  BY <1>1, <1>3, <1>5, <1>6 DEF Agreeing

LEMMA CreateEntryAgrees ==
  ASSUME Inv, Agreeing, NEW u \in Uploads, CreateEntry(u)
  PROVE  Agreeing'
<1> DEFINE g == FileOf[u]
<1>1. /\ UNCHANGED <<delete, failover, local, apart>> /\ g \in Files
      /\ \A f \in Files \ {g} : db'[f] = db[f]
      /\ ChunksSet(u, g) \/ HashSet(u, g) \/ CountSet(u, g)
  BY CreateEntryFields DEF CreateEntry, history
<1>2. PICK pc \in {"file_hash", "replica_count", "expire"} : Goes(u, pc)
  BY <1>1 DEF ChunksSet, HashSet, CountSet
<1>3. /\ upload'[u].pc = pc /\ upload'[u].stored = upload[u].stored
      /\ \A v \in Uploads \ {u} : upload'[v] = upload[v]
      /\ upload[u].pc \in {"chunks", "file_hash", "replica_count"}
      /\ UploadOK(upload[u])
  BY <1>1, <1>2, GoesKeeps DEF Inv, Goes, ChunksSet, HashSet, CountSet, Agreeing, Shapes
<1>4. Good(db'[g])
  <2>1. DOMAIN db = Files /\ Good(db[g]) /\ u \in Paths
    BY <1>1, RedisAssumption DEF Inv, Hashed, Agreeing, Shapes
  <2>2. \/ upload[u].pc = "chunks" /\ db'[g] = SetChunks(db[g], upload[u].stored, u)
        \/ db'[g] = [db[g] EXCEPT !.file_hash = u]
        \/ db'[g] = SetCount(db[g])
    BY <1>1, <2>1 DEF CreateEntry
  <2> QED
    BY <1>3, <2>1, <2>2, GoodSetChunks, GoodHash, GoodCount, SMT DEF UploadOK
<1>5. Shapes'
  <2>1. UploadOK(upload'[u])
    BY <1>2, <1>3 DEF UploadOK, Over
  <2> QED
    BY <1>1, <1>3, <1>4, <2>1 DEF Agreeing, Shapes
<1>6. \A f \in Files \ apart' : f # g => OneAtATime(f)' /\ SideBySide(f)'
  <2>1. \A f \in Files \ {g} : SameFields(db'[f], db[f]) /\ Deleting(f)' = Deleting(f)
    BY <1>1 DEF SameFields, Deleting
  <2> QED
    BY <1>1, <1>3, <2>1, LocalSame, OthersUntouched
<1>7. ASSUME g \notin apart PROVE OneAtATime(g)' /\ SideBySide(g)'
  <2>1. u \in Uploading(g) /\ OneAtATime(g) /\ SideBySide(g)
    BY <1>1, <1>3, <1>7 DEF Uploading, Over, Agreeing
  <2>2. Uploading(g) = {u} /\ Deleting(g) = {} /\ FailingOver = {} /\ Written(u, g)
    BY <2>1 DEF OneAtATime, SideBySide
  <2>3. Uploading(g)' = {u} /\ FailingOver' = {} /\ Deleting(g)' = {}
    <3>1. upload'[u].pc \notin Over
      BY <1>2, <1>3 DEF Over
    <3> QED
      BY <1>1, <1>3, <2>2, <3>1, SMT DEF Uploading, FailingOver, Deleting
  <2>4. Written(u, g)'
    <3>1. CASE ChunksSet(u, g)
      BY <1>3, <2>2, <3>1, GoesKeeps, SMT DEF ChunksSet, Written, Inv
    <3>2. CASE HashSet(u, g)
      BY <1>3, <2>2, <3>2, GoesKeeps DEF HashSet, Written, Inv
    <3>3. CASE CountSet(u, g)
      BY <1>3, <2>2, <3>3, GoesKeeps DEF CountSet, Written, Inv
    <3> QED
      BY <1>1, <3>1, <3>2, <3>3
  <2> QED
    BY <2>3, <2>4 DEF OneAtATime, SideBySide
<1> QED
  BY <1>1, <1>5, <1>6, <1>7 DEF Agreeing

LEMMA ExpireAgrees ==
  ASSUME Inv, Agreeing, NEW u \in Uploads, Expire(u)
  PROVE  Agreeing'
<1> DEFINE g == FileOf[u]
           K == {Record(k, u) : k \in upload[u].stored}
<1>1. /\ UNCHANGED <<delete, failover, apart>> /\ g \in Files /\ upload[u].pc = "expire"
      /\ DOMAIN db = Files /\ Good(db[g])
  BY RedisAssumption DEF Expire, Inv, Hashed, Agreeing, Shapes
<1>2. /\ upload'[u].pc = "done" /\ upload'[u].stored = upload[u].stored
      /\ \A v \in Uploads \ {u} : upload'[v] = upload[v]
  BY <1>1 DEF Expire, Inv, Sessions
<1>3. \A f \in Files : Good(db'[f]) /\ SameFields(db'[f], db[f])
  <2>1. \/ db' = db
        \/ HasFields(db[g]) /\ db' = [db EXCEPT ![g] = [db[g] EXCEPT !.ttl = TRUE]]
    <3>1. [db EXCEPT ![g].ttl = TRUE] = [db EXCEPT ![g] = [db[g] EXCEPT !.ttl = TRUE]]
      OBVIOUS
    <3> QED
      BY <3>1 DEF Expire, Exists
  <2>2. CASE db' = db
    BY <2>2 DEF Agreeing, Shapes, SameFields
  <2>3. CASE HasFields(db[g]) /\ db' = [db EXCEPT ![g] = [db[g] EXCEPT !.ttl = TRUE]]
    <3>1. Good([db[g] EXCEPT !.ttl = TRUE]) /\ SameFields([db[g] EXCEPT !.ttl = TRUE], db[g])
      BY <1>1, <2>3, GoodTtl
    <3>2. db'[g] = [db[g] EXCEPT !.ttl = TRUE] /\ \A f \in Files \ {g} : db'[f] = db[f]
      BY <1>1, <2>3
    <3> QED
      BY <3>1, <3>2 DEF Agreeing, Shapes, SameFields
  <2> QED
    BY <2>1, <2>2, <2>3
<1>4. /\ DOMAIN local' = DOMAIN local \cup {g}
      /\ DOMAIN local'[g] = {"file_hash", "replica_count", "chunks"}
      /\ local'[g].file_hash = u /\ DOMAIN local'[g].chunks = K
      /\ \A f \in DOMAIN local \ {g} : local'[f] = local[f]
  BY DEF Expire, ReplaceFileChunks, Recount
<1>5. Shapes'
  <2>1. UploadOK(upload'[u])
    BY <1>1, <1>2 DEF UploadOK, Over, Agreeing, Shapes
  <2> QED
    BY <1>1, <1>2, <1>3, <1>4, <2>1 DEF Agreeing, Shapes
<1>6. \A f \in Files \ apart' : f # g => OneAtATime(f)' /\ SideBySide(f)'
  <2>1. \A f \in Files \ {g} : LocalRecords(f)' = LocalRecords(f) /\ LocalHash(f)' = LocalHash(f)
    BY <1>4 DEF LocalRecords, LocalHash
  <2>2. \A f \in Files : Deleting(f)' = Deleting(f)
    BY <1>1 DEF Deleting
  <2> QED
    BY <1>1, <1>2, <1>3, <1>4, <2>1, <2>2, OthersUntouched
<1>7. ASSUME g \notin apart PROVE OneAtATime(g)' /\ SideBySide(g)'
  <2>1. u \in Uploading(g) /\ OneAtATime(g) /\ SideBySide(g)
    BY <1>1, <1>7 DEF Uploading, Over, Agreeing
  <2>2. Uploading(g) = {u} /\ Deleting(g) = {} /\ FailingOver = {} /\ Written(u, g)
    BY <2>1 DEF OneAtATime, SideBySide
  <2>3. Uploading(g)' = {} /\ FailingOver' = {} /\ Deleting(g)' = {}
    BY <1>1, <1>2, <2>2, SMT DEF Uploading, FailingOver, Deleting, Over
  <2>4. /\ DOMAIN db[g].chunk = upload[u].stored /\ \A k \in DOMAIN db[g].chunk : db[g].chunk[k] = u
        /\ db[g].file_hash = u
    BY <1>1, <2>2 DEF Written
  <2>5. QueryMetadata(g)' = K
    BY <1>1, <1>3, <2>4, SMT DEF QueryMetadata, SameFields
  <2>6. LocalRecords(g)' = K /\ LocalHash(g)' = u
    BY <1>4 DEF LocalRecords, LocalHash
  <2>7. Matches(g)'
    BY <1>1, <1>3, <2>4, <2>5, <2>6 DEF Matches, SameFields
  <2> QED
    BY <2>3, <2>7 DEF OneAtATime, SideBySide
<1> QED
  BY <1>1, <1>5, <1>6, <1>7 DEF Agreeing

LEMMA UploadEndsAgrees ==
  ASSUME Inv, Agreeing, \/ \E u \in Uploads : CreateEntryThrows(u)
                        \/ \E f \in Files : KeyExpires(f)
  PROVE  Agreeing'
<1>1. ASSUME NEW u \in Uploads, CreateEntryThrows(u) PROVE Agreeing'
  <2> DEFINE g == FileOf[u]
  <2>1. /\ UNCHANGED <<db, delete, failover, local>> /\ g \in Files /\ apart' = apart \cup {g}
        /\ upload[u].pc \notin Over
    BY <1>1, RedisAssumption DEF CreateEntryThrows
  <2>2. /\ upload'[u].pc = "error" /\ upload'[u].stored = upload[u].stored
        /\ \A v \in Uploads \ {u} : upload'[v] = upload[v]
    BY <1>1, SMT DEF CreateEntryThrows, Inv, Sessions
  <2>3. Shapes'
    <3>1. UploadOK(upload'[u])
      BY <2>1, <2>2 DEF UploadOK, Over, Agreeing, Shapes
    <3> QED
      BY <2>1, <2>2, <3>1 DEF Agreeing, Shapes
  <2>4. \A f \in Files : SameFields(db'[f], db[f]) /\ Deleting(f)' = Deleting(f)
    BY <2>1 DEF SameFields, Deleting
  <2>5. \A f \in Files \ apart' : f # g => OneAtATime(f)' /\ SideBySide(f)'
    BY <2>1, <2>2, <2>4, LocalSame, OthersUntouched
  <2> QED
    BY <2>1, <2>3, <2>5 DEF Agreeing
<1>2. ASSUME NEW g \in Files, KeyExpires(g) PROVE Agreeing'
  <2>1. /\ UNCHANGED <<upload, delete, failover, local>> /\ apart' = apart \cup {g}
        /\ db'[g] = NoKey /\ \A f \in Files \ {g} : db'[f] = db[f]
    BY <1>2 DEF KeyExpires, Del, Inv, Hashed
  <2>2. Shapes'
    BY <2>1, GoodNoKey DEF Agreeing, Shapes
  <2>3. \A f \in Files \ {g} : SameFields(db'[f], db[f]) /\ Deleting(f)' = Deleting(f)
    BY <2>1 DEF SameFields, Deleting
  <2>4. \A f \in Files \ apart' : f # g => OneAtATime(f)' /\ SideBySide(f)'
    BY <2>1, <2>3, LocalSame, OthersUntouched
  <2> QED
    BY <2>1, <2>2, <2>4 DEF Agreeing
<1> QED
  BY <1>1, <1>2

LEMMA StartDeleteAgrees ==
  ASSUME Inv, Agreeing, NEW x \in Deletes, StartDelete(x)
  PROVE  Agreeing'
<1> DEFINE g == FileOf[x]
<1>1. /\ UNCHANGED <<db, upload, failover, local>> /\ g \in Files /\ apart \subseteq apart'
      /\ g \notin apart' => ~Busy(g)
  BY RedisAssumption DEF StartDelete
<1>2. /\ DOMAIN delete' = Deletes /\ "pc" \in DOMAIN delete'[x]
      /\ \A y \in Deletes \ {x} : delete'[y] = delete[y]
  BY DEF StartDelete, Agreeing, Shapes
<1>3. Shapes'
  BY <1>1, <1>2 DEF Agreeing, Shapes
<1>4. \A f \in Files \ {g} : SameFields(db'[f], db[f]) /\ Deleting(f)' = Deleting(f)
  BY <1>1, <1>2 DEF SameFields, Deleting
<1>5. \A f \in Files \ apart' : f # g => OneAtATime(f)' /\ SideBySide(f)'
  BY <1>1, <1>4, LocalSame, OthersUntouched
<1>6. ASSUME g \notin apart' PROVE OneAtATime(g)' /\ SideBySide(g)'
  <2>1. Uploading(g)' = {} /\ FailingOver' = {} /\ Matches(g)
    BY <1>1, <1>6 DEF Busy, Uploading, FailingOver, Agreeing, SideBySide
  <2>2. Matches(g)'
    BY <1>1, <2>1 DEF Matches, QueryMetadata, LocalRecords, LocalHash
  <2> QED
    BY <2>1, <2>2 DEF OneAtATime, SideBySide
<1> QED
  BY <1>1, <1>3, <1>5, <1>6 DEF Agreeing

LEMMA EndDeleteAgrees ==
  ASSUME Inv, Agreeing, NEW x \in Deletes,
         DeleteEntry(x) \/ DeleteEntryThrows(x) \/ DeleteFails(x)
  PROVE  Agreeing'
<1> DEFINE g == FileOf[x]
<1>1. UNCHANGED <<upload, failover>> /\ g \in Files /\ DOMAIN db = Files /\ apart \ {g} \subseteq apart'
  BY RedisAssumption DEF DeleteEntry, DeleteEntryThrows, DeleteFails, Inv, Hashed, history
<1>2. /\ DOMAIN delete' = Deletes /\ "pc" \in DOMAIN delete'[x] /\ delete'[x].pc \in Over
      /\ \A y \in Deletes \ {x} : delete'[y] = delete[y]
  BY DEF DeleteEntry, DeleteEntryThrows, DeleteFails, Agreeing, Shapes, Over
<1>3. db' = db \/ db' = [db EXCEPT ![g] = NoKey]
  BY DEF DeleteEntry, DeleteEntryThrows, DeleteFails, Del
<1>4. local' = local \/ local' = RemoveFile(local, g)
  BY DEF DeleteEntry, DeleteEntryThrows, DeleteFails, history
<1>5. Shapes'
  <2>1. \A f \in Files : Good(db'[f])
    BY <1>1, <1>3, GoodNoKey DEF Agreeing, Shapes
  <2>2. \A f \in DOMAIN local' : f \in DOMAIN local /\ local'[f] = local[f]
    BY <1>4 DEF RemoveFile
  <2> QED
    BY <1>1, <1>2, <2>1, <2>2 DEF Agreeing, Shapes
<1>6. \A f \in Files : Deleting(f)' \subseteq Deleting(f)
  BY <1>2 DEF Deleting
<1>7. \A f \in Files \ apart' : f # g => OneAtATime(f)' /\ SideBySide(f)'
  <2>1. \A f \in Files \ {g} : SameFields(db'[f], db[f])
    BY <1>1, <1>3 DEF SameFields
  <2>2. \A f \in Files \ {g} : /\ LocalRecords(f)' = LocalRecords(f) /\ LocalHash(f)' = LocalHash(f)
                               /\ f \in DOMAIN local => f \in DOMAIN local'
    BY <1>4 DEF LocalRecords, LocalHash, RemoveFile
  <2> QED
    BY <1>1, <1>6, <2>1, <2>2, OthersUntouched
<1>8. ASSUME g \notin apart' PROVE OneAtATime(g)' /\ SideBySide(g)'
  <2>1. CASE DeleteEntry(x)
    <3>1. x \in Deleting(g)
      BY <2>1 DEF DeleteEntry, Deleting, Over
    <3>2. Uploading(g) = {} /\ FailingOver = {}
      <4>1. CASE g \in apart
        BY <1>8, <2>1, <4>1 DEF DeleteEntry
      <4>2. CASE g \notin apart
        BY <1>1, <3>1, <4>2 DEF Agreeing, OneAtATime
      <4> QED
        BY <4>1, <4>2
    <3>3. Uploading(g)' = {} /\ FailingOver' = {}
      BY <1>1, <3>2 DEF Uploading, FailingOver
    <3>4. db'[g] = NoKey /\ g \notin DOMAIN local'
      BY <1>1, <2>1 DEF DeleteEntry, Del, RemoveFile
    <3>5. Matches(g)'
      BY <3>4, GoodNoKey DEF Matches, QueryMetadata, LocalRecords, LocalHash
    <3> QED
      BY <3>3, <3>5 DEF OneAtATime, SideBySide
  <2>2. CASE DeleteEntryThrows(x)
    BY <1>8, <2>2 DEF DeleteEntryThrows
  <2>3. CASE DeleteFails(x)
    <3>1. UNCHANGED <<db, local>> /\ g \notin apart
      BY <1>8, <2>3 DEF DeleteFails, history
    <3>2. OneAtATime(g) /\ SideBySide(g) /\ SameFields(db'[g], db[g])
      BY <1>1, <3>1 DEF Agreeing, SameFields
    <3>3. FailingOver' = FailingOver
      BY <1>1 DEF FailingOver
    <3> QED
      BY <1>1, <1>6, <3>1, <3>2, <3>3, LocalSame, Untouched
  <2> QED
    BY <2>1, <2>2, <2>3
<1> QED
  BY <1>1, <1>5, <1>7, <1>8 DEF Agreeing

-----------------------------------------------------------------------------
(* A failover that starts.                                                 *)
LEMMA StartFailoverAgrees ==
  ASSUME Inv, Agreeing, NEW s \in Failovers, NEW healthy \in SUBSET (Servers \ {s}),
         StartFailover(s, healthy)
  PROVE  Agreeing'
<1>1. /\ UNCHANGED <<db, upload, delete, local>> /\ apart \subseteq apart'
      /\ failover[s].pc = "idle" /\ s \notin FailingOver
      /\ \A t \in Failovers \ {s} : failover'[t] = failover[t]
  BY SMT DEF StartFailover, Inv, Sessions, Idle, FailingOver, Over
<1>2. failover'[s] = IF Keys = {} THEN Failing("list", {}, {})
                     ELSE IF healthy = {} THEN Failing("error", {}, {})
                     ELSE Failing("query", Keys, healthy)
  BY DEF StartFailover, Inv, Sessions
<1>3. Shapes'
  <2>1. FailoverOK(s, failover'[s])
    BY <1>2, SMT DEF FailoverOK, Failing, Over
  <2> QED
    BY <1>1, <2>1 DEF Agreeing, Shapes
<1>4. ASSUME NEW f \in Files \ apart' PROVE OneAtATime(f)' /\ SideBySide(f)'
  <2>1. OneAtATime(f) /\ SideBySide(f)
    BY <1>1, <1>4 DEF Agreeing
  <2>2. SameFields(db'[f], db[f]) /\ Deleting(f)' = Deleting(f) /\ Uploading(f)' = Uploading(f)
    BY <1>1 DEF SameFields, Deleting, Uploading
  <2>3. CASE Keys # {} /\ healthy = {}
    <3>1. failover'[s].pc \in Over
      BY <1>2, <2>3, SMT DEF Failing, Over
    <3>2. FailingOver' = FailingOver /\ \A t \in FailingOver : failover'[t] = failover[t]
      BY <1>1, <3>1 DEF FailingOver
    <3>3. \A u \in Uploads : upload'[u] = upload[u]
      BY <1>1
    <3> QED
      BY <1>1, <2>1, <2>2, <3>2, <3>3, LocalSame, Untouched
  <2>4. CASE ~(Keys # {} /\ healthy = {})
    <3>1. Uploading(f) = {} /\ Deleting(f) = {} /\ FailingOver = {}
      BY <1>4, <2>4 DEF StartFailover, Busy
    <3>2. /\ failover'[s].pc \in {"list", "query"} /\ failover'[s].updates = {}
          /\ failover'[s].pc = "list" => Keys = {}
      BY <1>2, <2>4, SMT DEF Failing
    <3>3. FailingOver' = {s}
      BY <1>1, <3>1, <3>2 DEF FailingOver, Over
    <3>4. QueryMetadata(f)' = LocalRecords(f)' /\ db'[f].file_hash = LocalHash(f)'
      BY <1>1, <2>1, <3>1 DEF SideBySide, Matches, QueryMetadata, LocalRecords, LocalHash
    <3>5. CopiesIn(failover'[s], f) = {}
      BY <3>2 DEF CopiesIn
    <3>6. Copied(s, f)'
      <4>1. failover'[s].pc # "read"
        BY <3>2
      <4> QED
        BY <3>4, <3>5, <4>1 DEF Copied
    <3> QED
      BY <2>2, <3>1, <3>3, <3>6 DEF OneAtATime, SideBySide
  <2> QED
    BY <2>3, <2>4
<1> QED
  BY <1>3, <1>4 DEF Agreeing

(* A failover at work goes on.                                             *)
GoesOn(s) ==
  /\ failover[s].pc \notin Over /\ failover'[s].pc \notin Over
  /\ UNCHANGED <<upload, delete, local, apart>>
  /\ \A t \in Failovers \ {s} : failover'[t] = failover[t]

LEMMA FailoverAgrees ==
  ASSUME Inv, Agreeing, NEW s \in Failovers, GoesOn(s), \A f \in Files : Good(db'[f]),
         FailoverOK(s, failover'[s]), \A f \in Files \ apart : Copied(s, f) => Copied(s, f)'
  PROVE  Agreeing'
<1>1. Shapes'
  BY DEF GoesOn, Agreeing, Shapes
<1>2. ASSUME NEW f \in Files \ apart PROVE OneAtATime(f)' /\ SideBySide(f)'
  <2>1. OneAtATime(f) /\ SideBySide(f) /\ s \in FailingOver
    BY DEF Agreeing, GoesOn, FailingOver
  <2>2. FailingOver = {s} /\ Uploading(f) = {} /\ Deleting(f) = {} /\ Copied(s, f)
    BY <2>1 DEF OneAtATime, SideBySide
  <2>3. FailingOver' = {s} /\ Uploading(f)' = {} /\ Deleting(f)' = {}
    BY <2>2 DEF GoesOn, FailingOver, Uploading, Deleting
  <2> QED
    BY <2>2, <2>3 DEF OneAtATime, SideBySide
<1> QED
  BY <1>1, <1>2 DEF Agreeing, GoesOn

(* What the records of a step's copies are.                                *)
LEMMA UpdatesAreCopies ==
  ASSUME Agreeing, NEW s \in Failovers, failover[s].pc \notin Over
  PROVE  /\ FailoverOK(s, failover[s]) /\ failover[s].pc # "idle"
         /\ \A e \in failover[s].updates : e = <<e[1], e[2]>> /\ e[1] \in Files /\ e[2] \in CopiesBy(s)
         /\ \A f : CopiesIn(failover[s], f) \subseteq CopiesBy(s)
<1>1. FailoverOK(s, failover[s]) /\ failover[s].pc # "idle"
  BY DEF Agreeing, Shapes, Over
<1>2. failover[s].updates \subseteq Files \X CopiesBy(s)
  BY <1>1 DEF FailoverOK
<1>3. \A e \in failover[s].updates : e = <<e[1], e[2]>> /\ e[1] \in Files /\ e[2] \in CopiesBy(s)
  BY <1>2, SMT
<1> QED
  BY <1>1, <1>3 DEF CopiesIn

LEMMA QueryFileAgrees ==
  ASSUME Inv, Agreeing, NEW s \in Failovers, NEW f \in Files, QueryFile(s, f)
  PROVE  Agreeing'
<1> DEFINE t == failover[s]
<1>1. /\ t.pc = "query" /\ UNCHANGED <<db, upload, delete, local, apart>>
      /\ DOMAIN t = {"pc", "files", "healthy", "updates", "pipe"} /\ DOMAIN failover = Failovers
  BY DEF QueryFile, Inv, Sessions
<1>2. PICK C \in SUBSET Lost(f, s) : \E to \in [C -> t.healthy] :
        /\ \A c \in C : to[c] \notin On(f, c)
        /\ failover' = [failover EXCEPT ![s].files = @ \ {f},
                ![s].updates = @ \cup {<<f, Record(<<c, to[c]>>, s)>> : c \in C}]
  BY DEF QueryFile
<1>3. PICK to \in [C -> t.healthy] :
        /\ \A c \in C : to[c] \notin On(f, c)
        /\ failover' = [failover EXCEPT ![s].files = @ \ {f},
                ![s].updates = @ \cup {<<f, Record(<<c, to[c]>>, s)>> : c \in C}]
  BY <1>2
<1> DEFINE R == [c \in C |-> Record(<<c, to[c]>>, s)]
           new == {<<f, R[c]>> : c \in C}
<1>4. /\ failover'[s].pc = "query" /\ failover'[s].healthy = t.healthy
      /\ failover'[s].updates = t.updates \cup new /\ failover'[s].pipe = t.pipe
      /\ \A r \in Failovers \ {s} : failover'[r] = failover[r]
  BY <1>1, <1>3
<1>5. GoesOn(s) /\ t.pc \notin Over
  BY <1>1, <1>4 DEF GoesOn, Over
<1>6. FailoverOK(s, t) /\ t.pc # "idle"
  BY <1>5, UpdatesAreCopies
<1>7. t.healthy \subseteq Servers \ {s} /\ t.updates \subseteq Files \X CopiesBy(s)
  BY <1>6 DEF FailoverOK
<1>8. new \subseteq Files \X CopiesBy(s)
  <2>1. \A c \in C : c \in ChunkIds /\ to[c] \in Servers \ {s}
    BY <1>2, <1>3, <1>7 DEF Lost
  <2>2. \A c \in C : R[c] \in CopiesBy(s)
    BY <2>1, SMT DEF CopiesBy
  <2> HIDE DEF R
  <2> QED
    BY <2>2, SMT
<1>9. FailoverOK(s, failover'[s])
  BY <1>4, <1>7, <1>8 DEF FailoverOK
<1>a. \A c \in C : R[c].chunk_id = c /\ R[c].server = to[c]
  BY RecordFields
<1> HIDE DEF R
<1>10. ASSUME NEW g \in Files \ apart, Copied(s, g) PROVE Copied(s, g)'
  <2>1. /\ QueryMetadata(g)' = QueryMetadata(g) /\ LocalRecords(g)' = LocalRecords(g)
        /\ LocalHash(g)' = LocalHash(g)
    BY <1>1 DEF QueryMetadata, LocalRecords, LocalHash
  <2>2. QueryMetadata(g) = LocalRecords(g)
    BY <1>1, <1>10 DEF Copied
  <2>3. \A r \in CopiesIn(failover'[s], g) :
          r \in CopiesIn(t, g) \/ (g = f /\ \E c \in C : r = R[c])
    <3> TAKE r \in CopiesIn(failover'[s], g)
    <3>1. PICK e \in t.updates \cup new : e[1] = g /\ r = e[2]
      BY <1>4 DEF CopiesIn
    <3>2. CASE e \in t.updates
      BY <3>1, <3>2 DEF CopiesIn
    <3>3. CASE e \in new
      BY <3>1, <3>3, SMT
    <3> QED
      BY <3>1, <3>2, <3>3
  <2>4. ASSUME g = f, NEW c \in C
        PROVE  /\ g \in DOMAIN local
               /\ \A l \in LocalRecords(g) : l.chunk_id # c \/ l.server # to[c]
    <3>1. s \in On(f, c)
      BY <1>2 DEF Lost
    <3>2. DOMAIN db[f].chunk # {}
      BY <3>1 DEF On
    <3>3. LocalRecords(g) # {}
      BY <2>2, <2>4, <3>2 DEF QueryMetadata
    <3>4. ASSUME NEW l \in LocalRecords(g), l.chunk_id = c PROVE l.server # to[c]
      <4>1. PICK k \in DOMAIN db[f].chunk : l = Record(k, db[f].chunk[k])
        BY <2>2, <2>4 DEF QueryMetadata
      <4>2. l.server \in On(f, c)
        BY <3>4, <4>1, RecordFields, SMT DEF On
      <4> QED
        BY <1>3, <4>2
    <3> QED
      BY <3>3, <3>4 DEF LocalRecords
  <2>5. CopiesIn(failover'[s], g) # {} => g \in DOMAIN local'
    BY <1>1, <1>10, <2>3, <2>4 DEF Copied
  <2>6. \A r \in CopiesIn(failover'[s], g) : \A l \in LocalRecords(g) :
          l.chunk_id # r.chunk_id \/ l.server # r.server
    <3>2. \A r \in CopiesIn(t, g) : \A l \in LocalRecords(g) :
            l.chunk_id # r.chunk_id \/ l.server # r.server
      BY <1>10 DEF Copied
    <3>3. g = f => \A c \in C : \A l \in LocalRecords(g) :
            l.chunk_id # R[c].chunk_id \/ l.server # R[c].server
      BY <1>a, <2>4, SMT
    <3> QED
      BY <2>3, <3>2, <3>3, SMT
  <2> QED
    BY <1>1, <1>4, <1>10, <2>1, <2>2, <2>5, <2>6 DEF Copied
<1>11. \A g \in Files : Good(db'[g])
  BY <1>1 DEF Agreeing, Shapes
<1> QED
  BY <1>5, <1>9, <1>10, <1>11, FailoverAgrees

(* Where a step changes neither hashes nor records nor copies.             *)
LEMMA StoresSame ==
  ASSUME UNCHANGED <<db, local>>
  PROVE  \A f \in Files : /\ QueryMetadata(f)' = QueryMetadata(f)
                          /\ LocalRecords(f)' = LocalRecords(f) /\ LocalHash(f)' = LocalHash(f)
BY DEF QueryMetadata, LocalRecords, LocalHash

LEMMA BuildPipeAgrees ==
  ASSUME Inv, Agreeing, NEW s \in Failovers, BuildPipe(s)
  PROVE  Agreeing'
<1> DEFINE t == failover[s]
           pipe == {[file |-> e[1], rec |-> e[2], next |-> "hdel"] : e \in t.updates}
<1>1. /\ t.pc = "query" /\ UNCHANGED <<db, upload, delete, local, apart>>
      /\ DOMAIN t = {"pc", "files", "healthy", "updates", "pipe"} /\ DOMAIN failover = Failovers
  BY DEF BuildPipe, Inv, Sessions, history
<1>2. /\ failover'[s].pc = IF t.updates = {} THEN "list" ELSE "replace"
      /\ failover'[s].healthy = t.healthy
      /\ failover'[s].updates = t.updates /\ failover'[s].pipe = pipe
      /\ \A r \in Failovers \ {s} : failover'[r] = failover[r]
  BY <1>1 DEF BuildPipe
<1>3. GoesOn(s) /\ t.pc \notin Over
  BY <1>1, <1>2 DEF GoesOn, Over
<1>4. /\ FailoverOK(s, t) /\ t.pc # "idle"
      /\ \A e \in t.updates : e = <<e[1], e[2]>> /\ e[1] \in Files /\ e[2] \in CopiesBy(s)
  BY <1>3, UpdatesAreCopies
<1>5. \A p \in pipe : \E e \in t.updates : p.file = e[1] /\ p.rec = e[2] /\ p.next = "hdel"
                                           /\ p = [file |-> p.file, rec |-> p.rec, next |-> "hdel"]
  BY SMT
<1>6. \A e \in t.updates : \E p \in pipe : p.file = e[1] /\ p.rec = e[2] /\ p.next = "hdel"
  <2> TAKE e \in t.updates
  <2> WITNESS [file |-> e[1], rec |-> e[2], next |-> "hdel"] \in pipe
  <2> QED
    OBVIOUS
<1>7. t.updates = {} => pipe = {}
  OBVIOUS
<1> HIDE DEF pipe
<1>8. FailoverOK(s, failover'[s])
  <2>1. \A p \in pipe : <<p.file, p.rec>> \in t.updates
    BY <1>4, <1>5
  <2>2. \A p, q \in pipe : p.file = q.file /\ p.rec = q.rec => p = q
    BY <1>5
  <2> QED
    BY <1>2, <1>4, <1>7, <2>1, <2>2 DEF FailoverOK, Over
<1>9. ASSUME NEW g \in Files \ apart, Copied(s, g) PROVE Copied(s, g)'
  <2>1. CopiesIn(failover'[s], g) = CopiesIn(t, g)
    BY <1>2 DEF CopiesIn
  <2>2. {r \in CopiesIn(t, g) : IsSet(failover'[s], g, r)} = {}
    <3>1. ASSUME NEW r \in CopiesIn(t, g), IsSet(failover'[s], g, r) PROVE FALSE
      <4>1. PICK e \in t.updates : e[1] = g /\ r = e[2]
        BY Zenon DEF CopiesIn
      <4>2. failover'[s].pc = "replace"
        BY <1>2, <4>1
      <4>3. PICK p \in pipe : p.file = g /\ p.rec = r /\ p.next = "hdel"
        BY <1>6, <4>1
      <4> QED
        BY <1>2, <3>1, <4>2, <4>3 DEF IsSet
    <3> QED
      BY <3>1
  <2>3. QueryMetadata(g) = LocalRecords(g)
    BY <1>1, <1>9 DEF Copied
  <2>4. failover'[s].pc # "read" /\ failover'[s].pc # "query"
    BY <1>2
  <2>5. Away(QueryMetadata(g), s) = Away(LocalRecords(g), s) \cup
          {r \in CopiesIn(failover'[s], g) : IsSet(failover'[s], g, r)}
    BY <2>1, <2>2, <2>3
  <2> QED
    BY <1>1, <1>9, <2>1, <2>4, <2>5, StoresSame DEF Copied
<1>10. \A g \in Files : Good(db'[g])
  BY <1>1 DEF Agreeing, Shapes
<1> QED
  BY <1>3, <1>8, <1>9, <1>10, FailoverAgrees

LEMMA ListForDropAgrees ==
  ASSUME Inv, Agreeing, NEW s \in Failovers, ListForDrop(s)
  PROVE  Agreeing'
<1> DEFINE t == failover[s]
<1>1. /\ t.pc = "list" /\ UNCHANGED <<db, upload, delete, local, apart>>
      /\ DOMAIN t = {"pc", "files", "healthy", "updates", "pipe"} /\ DOMAIN failover = Failovers
  BY DEF ListForDrop, Inv, Sessions, history
<1>2. /\ failover'[s].pc = "read" /\ failover'[s].files = Keys
      /\ failover'[s].healthy = t.healthy
      /\ failover'[s].updates = t.updates /\ failover'[s].pipe = t.pipe
      /\ \A r \in Failovers \ {s} : failover'[r] = failover[r]
  BY <1>1 DEF ListForDrop
<1>3. GoesOn(s) /\ t.pc \notin Over
  BY <1>1, <1>2 DEF GoesOn, Over
<1>4. FailoverOK(s, t) /\ t.pc # "idle"
  BY <1>3, UpdatesAreCopies
<1>5. FailoverOK(s, failover'[s])
  BY <1>1, <1>2, <1>4 DEF FailoverOK
<1>6. ASSUME NEW g \in Files \ apart, Copied(s, g) PROVE Copied(s, g)'
  <2>1. /\ CopiesIn(failover'[s], g) = CopiesIn(t, g)
        /\ \A r : IsSet(failover'[s], g, r) /\ IsSet(t, g, r)
    BY <1>1, <1>2 DEF CopiesIn, IsSet
  <2>2. DOMAIN db[g].chunk # {} => g \in Keys
    BY DEF Keys, Exists, HasFields
  <2>3. Away(QueryMetadata(g), s) = Away(LocalRecords(g), s) \cup
          {r \in CopiesIn(failover'[s], g) : IsSet(failover'[s], g, r)}
    BY <1>1, <1>6, <2>1 DEF Copied
  <2> QED
    BY <1>1, <1>2, <1>6, <2>1, <2>2, <2>3, StoresSame DEF Copied
<1>7. \A g \in Files : Good(db'[g])
  BY <1>1 DEF Agreeing, Shapes
<1> QED
  BY <1>3, <1>5, <1>6, <1>7, FailoverAgrees

LEMMA ReadForDropAgrees ==
  ASSUME Inv, Agreeing, NEW s \in Failovers, NEW f \in Files, ReadForDrop(s, f)
  PROVE  Agreeing'
<1> DEFINE t == failover[s]
           new == {<<f, k>> : k \in {i \in DOMAIN db[f].chunk : i[2] = s}}
<1>1. /\ t.pc = "read" /\ UNCHANGED <<db, upload, delete, local, apart>>
      /\ DOMAIN t = {"pc", "files", "healthy", "updates", "pipe"} /\ DOMAIN failover = Failovers
  BY DEF ReadForDrop, Inv, Sessions, history
<1>2. /\ failover'[s].pc = "read" /\ failover'[s].files = t.files \ {f}
      /\ failover'[s].healthy = t.healthy
      /\ failover'[s].updates = t.updates /\ failover'[s].pipe = t.pipe \cup new
      /\ \A r \in Failovers \ {s} : failover'[r] = failover[r]
  BY <1>1 DEF ReadForDrop
<1>3. GoesOn(s) /\ t.pc \notin Over
  BY <1>1, <1>2 DEF GoesOn, Over
<1>4. FailoverOK(s, t) /\ t.pc # "idle" /\ DOMAIN db[f].chunk \subseteq Key
  BY <1>3, UpdatesAreCopies DEF Agreeing, Shapes, Good
<1>5. new \subseteq Files \X {k \in Key : k[2] = s}
  BY <1>4, SMT
<1>6. FailoverOK(s, failover'[s])
  <2> HIDE DEF new
  <2> QED
    BY <1>1, <1>2, <1>4, <1>5 DEF FailoverOK
<1>7. ASSUME NEW g \in Files \ apart, Copied(s, g) PROVE Copied(s, g)'
  <2>1. /\ CopiesIn(failover'[s], g) = CopiesIn(t, g)
        /\ \A r : IsSet(failover'[s], g, r) /\ IsSet(t, g, r)
    BY <1>1, <1>2 DEF CopiesIn, IsSet
  <2>2. \A k \in DOMAIN db[g].chunk :
          k[2] = s => g \in failover'[s].files \/ <<g, k>> \in failover'[s].pipe
    BY <1>1, <1>2, <1>7 DEF Copied
  <2>3. Away(QueryMetadata(g), s) = Away(LocalRecords(g), s) \cup
          {r \in CopiesIn(failover'[s], g) : IsSet(failover'[s], g, r)}
    BY <1>1, <1>7, <2>1 DEF Copied
  <2> QED
    BY <1>1, <1>2, <1>7, <2>1, <2>2, <2>3, StoresSame DEF Copied
<1>8. \A g \in Files : Good(db'[g])
  BY <1>1 DEF Agreeing, Shapes
<1> QED
  BY <1>3, <1>6, <1>7, <1>8, FailoverAgrees

(* A field of the dead server that goes leaves the others' records.        *)
LEMMA AwayKept ==
  ASSUME NEW s, NEW f \in Files, Good(db[f]), NEW k, k[2] = s, db'[f] = HDel(db[f], k)
  PROVE  Away(QueryMetadata(f)', s) = Away(QueryMetadata(f), s)
<1>1. /\ DOMAIN db'[f].chunk = DOMAIN db[f].chunk \ {k}
      /\ \A i \in DOMAIN db[f].chunk \ {k} : db'[f].chunk[i] = db[f].chunk[i]
  BY GoodHDel, SMT
<1>2. ASSUME NEW r \in Away(QueryMetadata(f)', s) PROVE r \in Away(QueryMetadata(f), s)
  BY <1>1 DEF Away, QueryMetadata
<1>3. ASSUME NEW r \in Away(QueryMetadata(f), s) PROVE r \in Away(QueryMetadata(f)', s)
  <2>1. PICK i \in DOMAIN db[f].chunk : r = Record(i, db[f].chunk[i])
    BY DEF Away, QueryMetadata
  <2>2. i # k
    BY <2>1, RecordFields DEF Away
  <2> QED
    BY <1>1, <2>1, <2>2 DEF Away, QueryMetadata
<1> QED
  BY <1>2, <1>3

LEMMA DropAgrees ==
  ASSUME Inv, Agreeing, NEW s \in Failovers, Drop(s)
  PROVE  Agreeing'
<1> DEFINE t == failover[s]
<1>1. /\ t.pc = "read" /\ UNCHANGED <<upload, delete, local, apart>>
      /\ DOMAIN t = {"pc", "files", "healthy", "updates", "pipe"} /\ DOMAIN failover = Failovers
      /\ DOMAIN db = Files
  BY DEF Drop, Inv, Sessions, history, Hashed
<1>2. PICK e \in t.pipe : /\ db' = [db EXCEPT ![e[1]] = HDel(@, e[2])]
                          /\ failover' = [failover EXCEPT ![s].pipe = @ \ {e}]
  BY DEF Drop
<1>3. /\ failover'[s].pc = "read" /\ failover'[s].files = t.files
      /\ failover'[s].healthy = t.healthy
      /\ failover'[s].updates = t.updates /\ failover'[s].pipe = t.pipe \ {e}
      /\ \A r \in Failovers \ {s} : failover'[r] = failover[r]
  BY <1>1, <1>2
<1>4. GoesOn(s) /\ t.pc \notin Over
  BY <1>1, <1>3 DEF GoesOn, Over
<1>5. FailoverOK(s, t) /\ t.pc # "idle"
  BY <1>4, UpdatesAreCopies
<1>6. FailoverOK(s, failover'[s])
  BY <1>1, <1>3, <1>5 DEF FailoverOK
<1>7. /\ e = <<e[1], e[2]>> /\ e[1] \in Files /\ e[2][2] = s
  BY <1>1, <1>5, SMT DEF FailoverOK
<1>8. /\ db'[e[1]] = HDel(db[e[1]], e[2]) /\ \A f \in Files \ {e[1]} : db'[f] = db[f]
      /\ \A f \in Files : Good(db[f])
  BY <1>1, <1>2, <1>7 DEF Agreeing, Shapes
<1>9. ASSUME NEW g \in Files \ apart, Copied(s, g) PROVE Copied(s, g)'
  <2>1. /\ CopiesIn(failover'[s], g) = CopiesIn(t, g)
        /\ \A r : IsSet(failover'[s], g, r) /\ IsSet(t, g, r)
    BY <1>1, <1>3 DEF CopiesIn, IsSet
  <2>2. /\ db'[g].file_hash = db[g].file_hash
        /\ DOMAIN db'[g].chunk = DOMAIN db[g].chunk \ (IF g = e[1] THEN {e[2]} ELSE {})
    BY <1>7, <1>8, GoodHDel, SMT
  <2>3. \A k \in DOMAIN db'[g].chunk :
          k[2] = s => g \in failover'[s].files \/ <<g, k>> \in failover'[s].pipe
    BY <1>1, <1>3, <1>7, <1>9, <2>2, SMT DEF Copied
  <2>4. Away(QueryMetadata(g)', s) = Away(QueryMetadata(g), s)
    <3>1. CASE g = e[1]
      BY <1>7, <1>8, <3>1, AwayKept
    <3>2. CASE g # e[1]
      BY <1>8, <3>2, SMT DEF QueryMetadata
    <3> QED
      BY <3>1, <3>2
  <2>5. Away(QueryMetadata(g)', s) = Away(LocalRecords(g), s) \cup
          {r \in CopiesIn(failover'[s], g) : IsSet(failover'[s], g, r)}
    BY <1>1, <1>9, <2>1, <2>4 DEF Copied
  <2>6. LocalRecords(g)' = LocalRecords(g) /\ LocalHash(g)' = LocalHash(g)
    BY <1>1 DEF LocalRecords, LocalHash
  <2> QED
    BY <1>1, <1>3, <1>9, <2>1, <2>2, <2>3, <2>5, <2>6 DEF Copied
<1>10. \A g \in Files : Good(db'[g])
  BY <1>8, GoodHDel, SMT
<1> QED
  BY <1>4, <1>6, <1>9, <1>10, FailoverAgrees

(* The pipeline's commands.  A command of the failover's pipeline leaves   *)
(* the commands of other records alone, and only an HSET sets a record.    *)
PipeStep(t, u, e) ==
  LET rest == (t.pipe \ {e}) \cup
              (CASE e.next = "hdel" -> {[e EXCEPT !.next = "hset"]}
                 [] e.next = "hset" -> {[e EXCEPT !.next = "count"]}
                 [] e.next = "count" -> {})
  IN /\ e \in t.pipe /\ t.pc = "replace"
     /\ u.pipe = rest /\ u.pc = IF rest = {} THEN "list" ELSE t.pc
     /\ u.healthy = t.healthy /\ u.updates = t.updates

LEMMA PipeStepSets ==
  ASSUME NEW s, NEW t, NEW u, NEW e, FailoverOK(s, t), PipeStep(t, u, e),
         DOMAIN e = {"file", "rec", "next"}, e.next \in {"hdel", "hset", "count"}
  PROVE  /\ FailoverOK(s, u) /\ u.pc \in {"replace", "list"}
         /\ \A f, r : IsSet(u, f, r) <=>
                        IsSet(t, f, r) \/ (e.next = "hset" /\ f = e.file /\ r = e.rec)
<1>1. /\ e \in t.pipe /\ t.pc = "replace" /\ u.healthy = t.healthy /\ u.updates = t.updates
      /\ u.pc = IF u.pipe = {} THEN "list" ELSE "replace"
  BY DEF PipeStep
<1>2. /\ \A p \in t.pipe : <<p.file, p.rec>> \in t.updates
      /\ \A p, q \in t.pipe : p.file = q.file /\ p.rec = q.rec => p = q
  BY <1>1 DEF FailoverOK
<1>3. FailoverOK(s, u) <=> /\ \A p \in u.pipe : <<p.file, p.rec>> \in t.updates
                           /\ \A p, q \in u.pipe : p.file = q.file /\ p.rec = q.rec => p = q
  <2>1. u.pc = "list" => u.pipe = {}
    BY <1>1
  <2>2. u.pc \in {"list", "replace"} /\ t.pc = "replace"
    BY <1>1
  <2> QED
    BY <1>1, <2>1, <2>2 DEF FailoverOK, Over
<1>4. CASE e.next = "count"
  <2>1. u.pipe = t.pipe \ {e}
    BY <1>4 DEF PipeStep
  <2>2. FailoverOK(s, u)
    BY <1>2, <1>3, <2>1
  <2>3. ASSUME NEW f, NEW r PROVE IsSet(u, f, r) <=> IsSet(t, f, r)
    BY <1>1, <1>2, <1>4, <2>1 DEF IsSet
  <2> QED
    BY <1>1, <1>4, <2>2, <2>3
<1>5. ASSUME NEW n \in {"hset", "count"}, u.pipe = (t.pipe \ {e}) \cup {[e EXCEPT !.next = n]},
             n = "count" <=> e.next = "hset", e.next # "count"
      PROVE  /\ FailoverOK(s, u) /\ u.pc = "replace"
             /\ \A f, r : IsSet(u, f, r) <=>
                            IsSet(t, f, r) \/ (e.next = "hset" /\ f = e.file /\ r = e.rec)
  <2> DEFINE d == [e EXCEPT !.next = n]
  <2>1. d.file = e.file /\ d.rec = e.rec /\ d.next = n
    OBVIOUS
  <2> HIDE DEF d
  <2>2. u.pipe = (t.pipe \ {e}) \cup {d} /\ u.pc = "replace"
    BY <1>1, <1>5 DEF d
  <2>3. FailoverOK(s, u)
    BY <1>1, <1>2, <1>3, <2>1, <2>2, SMT
  <2>4. ASSUME NEW f, NEW r
        PROVE  IsSet(u, f, r) <=> IsSet(t, f, r) \/ (e.next = "hset" /\ f = e.file /\ r = e.rec)
    <3>1. CASE f = e.file /\ r = e.rec
      <4>1. IsSet(t, f, r) <=> FALSE
        BY <1>1, <1>5, <3>1 DEF IsSet
      <4>2. IsSet(u, f, r) <=> n = "count"
        BY <1>1, <1>2, <2>1, <2>2, <3>1 DEF IsSet
      <4> QED
        BY <1>5, <3>1, <4>1, <4>2
    <3>2. CASE ~(f = e.file /\ r = e.rec)
      BY <1>1, <2>1, <2>2, <3>2 DEF IsSet
    <3> QED
      BY <3>1, <3>2
  <2> QED
    BY <2>2, <2>3, <2>4
<1>6. CASE e.next = "hdel"
  <2>1. u.pipe = (t.pipe \ {e}) \cup {[e EXCEPT !.next = "hset"]}
    BY <1>6 DEF PipeStep
  <2> QED
    BY <1>5, <1>6, <2>1
<1>7. CASE e.next = "hset"
  <2>1. u.pipe = (t.pipe \ {e}) \cup {[e EXCEPT !.next = "count"]}
    BY <1>7 DEF PipeStep
  <2> QED
    BY <1>5, <1>7, <2>1
<1> QED
  BY <1>4, <1>6, <1>7

LEMMA AtomicReplaceAgrees ==
  ASSUME Inv, Agreeing, NEW s \in Failovers, AtomicReplace(s)
  PROVE  Agreeing'
<1> DEFINE t == failover[s]
<1>1. /\ t.pc = "replace" /\ UNCHANGED <<upload, delete, local, apart>>
      /\ DOMAIN t = {"pc", "files", "healthy", "updates", "pipe"} /\ DOMAIN failover = Failovers
      /\ DOMAIN db = Files
  BY DEF AtomicReplace, Inv, Sessions, history, Hashed
<1>2. PICK e \in t.pipe :
        LET rest == (t.pipe \ {e}) \cup
                    (CASE e.next = "hdel" -> {[e EXCEPT !.next = "hset"]}
                       [] e.next = "hset" -> {[e EXCEPT !.next = "count"]}
                       [] e.next = "count" -> {})
        IN /\ db' = [db EXCEPT ![e.file] = Replace(@, s, e)]
           /\ failover' = [failover EXCEPT ![s].pipe = rest,
                                           ![s].pc = IF rest = {} THEN "list" ELSE @]
  BY DEF AtomicReplace
<1>3. PipeStep(t, failover'[s], e) /\ \A r \in Failovers \ {s} : failover'[r] = failover[r]
  BY <1>1, <1>2 DEF PipeStep
<1>4. /\ t.pc \notin Over /\ DOMAIN e = {"file", "rec", "next"}
      /\ e.next \in {"hdel", "hset", "count"}
  BY <1>1, <1>2 DEF Inv, CopiesDisturb, Over
<1>5. FailoverOK(s, t) /\ t.pc # "idle" /\ \A f : CopiesIn(t, f) \subseteq CopiesBy(s)
  BY <1>4, UpdatesAreCopies
<1>6. /\ FailoverOK(s, failover'[s]) /\ failover'[s].pc \in {"replace", "list"}
      /\ \A f, r : IsSet(failover'[s], f, r) <=>
                     IsSet(t, f, r) \/ (e.next = "hset" /\ f = e.file /\ r = e.rec)
  BY <1>3, <1>4, <1>5, PipeStepSets, SMT
<1>7. GoesOn(s)
  BY <1>1, <1>3, <1>4, <1>6 DEF GoesOn, Over
<1>8. /\ <<e.file, e.rec>> \in t.updates /\ e.file \in Files /\ e.rec \in CopiesBy(s)
      /\ e.rec \in CopiesIn(t, e.file)
  <2>1. <<e.file, e.rec>> \in t.updates
    BY <1>1, <1>2, <1>5 DEF FailoverOK
  <2> QED
    BY <1>4, <2>1, UpdatesAreCopies DEF CopiesIn
<1> DEFINE c == e.rec.chunk_id
           key == <<e.rec.chunk_id, e.rec.server>>
<1>9. key \in Key /\ c \in ChunkIds /\ e.rec = Record(key, s) /\ key[2] # s /\ e.rec.path = s
      /\ s \in Paths
  <2>1. key \in Key /\ e.rec = Record(key, s) /\ e.rec.server # s
    BY <1>8, RecordFields
  <2>2. key[1] = c /\ key[2] = e.rec.server /\ s \in Paths
    BY RedisAssumption
  <2>3. c \in ChunkIds
    BY <2>1 DEF Key
  <2>4. e.rec.path = s
    <3> HIDE DEF key
    <3> QED
      BY <2>1, SMT DEF Record
  <2> QED
    BY <2>1, <2>2, <2>3, <2>4
<1>10. /\ db'[e.file] = Replace(db[e.file], s, e) /\ \A f \in Files \ {e.file} : db'[f] = db[f]
       /\ \A f \in Files : Good(db[f])
  BY <1>1, <1>2, <1>8 DEF Agreeing, Shapes
<1> DEFINE h == db[e.file]
<1>11. /\ e.next = "hdel" => db'[e.file] = HDel(h, <<c, s>>)
       /\ e.next = "hset" => db'[e.file] = With(h, key, s)
       /\ e.next = "count" => db'[e.file] = [h EXCEPT !.replicas = @ \cup {c}]
  BY <1>9, <1>10 DEF Replace
<1>12. /\ Good(db'[e.file]) /\ db'[e.file].file_hash = h.file_hash
       /\ e.next = "count" => db'[e.file].chunk = h.chunk
  <2>1. Good(h)
    BY <1>8, <1>10
  <2>2. CASE e.next = "hdel"
    BY <1>11, <2>1, <2>2, GoodHDel, SMT
  <2>3. CASE e.next = "hset"
    BY <1>9, <1>11, <2>1, <2>3, GoodWith, SMT
  <2>4. CASE e.next = "count"
    <3> DEFINE k == [h EXCEPT !.replicas = @ \cup {c}]
    <3>1. Good(k) /\ SameFields(k, h)
      BY <1>9, <2>1, GoodReplicas
    <3>2. db'[e.file] = k
      BY <1>11, <2>4
    <3> QED
      BY <3>1, <3>2 DEF SameFields
  <2> QED
    BY <1>4, <2>2, <2>3, <2>4
<1>13. ASSUME NEW g \in Files \ apart, Copied(s, g) PROVE Copied(s, g)'
  <2> DEFINE new == IF e.next = "hset" /\ g = e.file THEN {e.rec} ELSE {}
  <2>1. /\ CopiesIn(failover'[s], g) = CopiesIn(t, g)
        /\ LocalRecords(g)' = LocalRecords(g) /\ LocalHash(g)' = LocalHash(g)
    BY <1>1, <1>3 DEF PipeStep, CopiesIn, LocalRecords, LocalHash
  <2>2. {r \in CopiesIn(t, g) : IsSet(failover'[s], g, r)} =
          {r \in CopiesIn(t, g) : IsSet(t, g, r)} \cup new
    BY <1>6, <1>8
  <2>3. Away(QueryMetadata(g), s) = Away(LocalRecords(g), s) \cup {r \in CopiesIn(t, g) : IsSet(t, g, r)}
    BY <1>1, <1>13 DEF Copied
  <2>4. Away(QueryMetadata(g)', s) = Away(QueryMetadata(g), s) \cup new
    <3>1. CASE g # e.file
      BY <1>10, <3>1 DEF QueryMetadata
    <3>2. CASE g = e.file /\ e.next = "hdel"
      BY <1>10, <1>11, <3>2, AwayKept
    <3>3. CASE g = e.file /\ e.next = "count"
      BY <1>12, <3>3 DEF QueryMetadata
    <3>4. CASE g = e.file /\ e.next = "hset"
      <4>1. /\ DOMAIN db'[g].chunk = DOMAIN db[g].chunk \cup {key} /\ db'[g].chunk[key] = s
            /\ \A i \in DOMAIN db[g].chunk : i # key => db'[g].chunk[i] = db[g].chunk[i]
        BY <1>9, <1>10, <1>11, <3>4, GoodWith, SMT
      <4>2. key \in DOMAIN db[g].chunk => db[g].chunk[key] = s
        <5> HAVE key \in DOMAIN db[g].chunk
        <5> DEFINE q == Record(key, db[g].chunk[key])
        <5>1. q \in Away(QueryMetadata(g), s) /\ q.chunk_id = e.rec.chunk_id /\ q.server = e.rec.server
          BY <1>9, RecordFields, SMT DEF Away, QueryMetadata
        <5>2. q \notin LocalRecords(g)
          BY <1>8, <1>13, <3>4, <5>1 DEF Copied
        <5>3. q \in CopiesBy(s)
          BY <1>5, <2>3, <5>1, <5>2 DEF Away
        <5>4. q = Record(key, s)
          BY <1>9, <5>1, <5>3, RecordFields, SMT
        <5> QED
          BY <1>9, <5>4, RecordFields, SMT
      <4>3. QueryMetadata(g)' = QueryMetadata(g) \cup {e.rec}
        <5>1. ASSUME NEW r \in QueryMetadata(g)' PROVE r \in QueryMetadata(g) \cup {e.rec}
          BY <1>9, <4>1 DEF QueryMetadata
        <5>2. ASSUME NEW r \in QueryMetadata(g) \cup {e.rec} PROVE r \in QueryMetadata(g)'
          BY <1>9, <4>1, <4>2, SMT DEF QueryMetadata
        <5> QED
          BY <5>1, <5>2
      <4>4. e.rec.server # s
        BY <1>8, RecordFields
      <4> QED
        BY <3>4, <4>3, <4>4 DEF Away
    <3> QED
      BY <1>4, <3>1, <3>2, <3>3, <3>4
  <2>5. db'[g].file_hash = db[g].file_hash
    BY <1>10, <1>12
  <2>6. Away(QueryMetadata(g)', s) = Away(LocalRecords(g)', s) \cup
          {r \in CopiesIn(failover'[s], g) : IsSet(failover'[s], g, r)}
    BY <2>1, <2>2, <2>3, <2>4
  <2>7. failover'[s].pc # "query" /\ failover'[s].pc # "read"
    BY <1>6
  <2> QED
    BY <1>1, <1>13, <2>1, <2>5, <2>6, <2>7 DEF Copied
<1>14. \A g \in Files : Good(db'[g])
  BY <1>10, <1>12
<1> QED
  BY <1>6, <1>7, <1>13, <1>14, FailoverAgrees

(* The end of a failover: the on-disk store's two updates remove the dead  *)
(* server's records and add the copies, which is what Redis has by now.    *)
LEMMA EndFailoverAgrees ==
  ASSUME Inv, Agreeing, NEW s \in Failovers, EndFailover(s)
  PROVE  Agreeing'
<1> DEFINE t == failover[s]
           new == [f \in {e[1] : e \in t.updates} |-> CopiesIn(t, f)]
           mid == AtomicReplaceServerChunks(local, s, new)
<1>1. /\ t.pc = "read" /\ t.files = {} /\ t.pipe = {} /\ UNCHANGED <<db, upload, delete, apart>>
      /\ DOMAIN t = {"pc", "files", "healthy", "updates", "pipe"} /\ DOMAIN failover = Failovers
      /\ local' = DeleteServerMetadata(mid, s)
  BY DEF EndFailover, Inv, Sessions, CopiesIn
<1>2. /\ failover'[s].pc = "done" /\ failover'[s].healthy = t.healthy
      /\ failover'[s].updates = t.updates
      /\ \A r \in Failovers \ {s} : failover'[r] = failover[r]
  BY <1>1 DEF EndFailover
<1>3. s \in FailingOver /\ t.pc \notin Over
  BY <1>1 DEF FailingOver, Over
<1>4. FailoverOK(s, t) /\ t.pc # "idle" /\ \A f : CopiesIn(t, f) \subseteq CopiesBy(s)
  BY <1>3, UpdatesAreCopies
<1>5. FailoverOK(s, failover'[s])
  BY <1>2, <1>4 DEF FailoverOK, Over
<1>6. /\ DOMAIN new = {e[1] : e \in t.updates} /\ \A f \in DOMAIN new : new[f] = CopiesIn(t, f)
      /\ \A f : f \notin DOMAIN new => CopiesIn(t, f) = {}
  BY DEF CopiesIn
<1> HIDE DEF new
<1>7. /\ DOMAIN mid = DOMAIN local
      /\ \A f \in DOMAIN local :
           /\ DOMAIN mid[f] = {"file_hash", "replica_count", "chunks"}
           /\ mid[f].file_hash = local[f].file_hash
           /\ NotOn(mid[f], s) = NotOn(local[f], s) \cup CopiesIn(t, f)
  <2>1. DOMAIN mid = DOMAIN local
    BY DEF AtomicReplaceServerChunks
  <2> SUFFICES ASSUME NEW f \in DOMAIN local
               PROVE  /\ DOMAIN mid[f] = {"file_hash", "replica_count", "chunks"}
                      /\ mid[f].file_hash = local[f].file_hash
                      /\ NotOn(mid[f], s) = NotOn(local[f], s) \cup CopiesIn(t, f)
    BY <2>1
  <2>2. CASE f \notin DOMAIN new
    <3>1. mid[f] = local[f]
      BY <2>2 DEF AtomicReplaceServerChunks
    <3> QED
      BY <1>6, <2>2, <3>1 DEF Agreeing, Shapes
  <2>3. CASE f \in DOMAIN new
    <3>1. mid[f] = ReplaceServer(local[f], s, CopiesIn(t, f))
      BY <1>6, <2>3 DEF AtomicReplaceServerChunks
    <3>2. /\ DOMAIN mid[f] = {"file_hash", "replica_count", "chunks"}
          /\ mid[f].file_hash = local[f].file_hash
          /\ DOMAIN mid[f].chunks = NotOn(local[f], s) \cup CopiesIn(t, f)
      BY <3>1, SMT DEF ReplaceServer, Recount
    <3>3. \A r \in CopiesIn(t, f) : r.server # s
      BY <1>4, RecordFields
    <3> QED
      BY <3>2, <3>3 DEF NotOn
  <2> QED
    BY <2>2, <2>3
<1> HIDE DEF mid
<1>8. /\ DOMAIN local' = DOMAIN local
      /\ \A f \in DOMAIN local : /\ DOMAIN local'[f] = {"file_hash", "replica_count", "chunks"}
                                 /\ local'[f].file_hash = local[f].file_hash
                                 /\ DOMAIN local'[f].chunks = NotOn(local[f], s) \cup CopiesIn(t, f)
  <2>1. DOMAIN local' = DOMAIN local
    BY <1>1, <1>7 DEF DeleteServerMetadata
  <2>2. \A f \in DOMAIN local : local'[f] = [mid[f] EXCEPT !.chunks = Recount(NotOn(mid[f], s))]
    BY <1>1, <1>7 DEF DeleteServerMetadata
  <2>3. \A K : DOMAIN Recount(K) = K
    BY DEF Recount
  <2> QED
    BY <1>7, <2>1, <2>2, <2>3
<1>9. Shapes'
  BY <1>1, <1>2, <1>5, <1>8 DEF Agreeing, Shapes
<1>10. ASSUME NEW f \in Files \ apart PROVE OneAtATime(f)' /\ SideBySide(f)'
  <2>1. OneAtATime(f) /\ SideBySide(f)
    BY DEF Agreeing
  <2>2. FailingOver = {s} /\ Uploading(f) = {} /\ Deleting(f) = {} /\ Copied(s, f)
    BY <1>3, <2>1 DEF OneAtATime, SideBySide
  <2>3. FailingOver' = {} /\ Uploading(f)' = {} /\ Deleting(f)' = {}
    BY <1>1, <1>2, <2>2, SMT DEF FailingOver, Uploading, Deleting, Over
  <2>4. \A r \in QueryMetadata(f) : r.server # s
    <3>1. \A k \in DOMAIN db[f].chunk : k[2] # s
      BY <1>1, <2>2 DEF Copied
    <3> QED
      BY <3>1, RecordFields, SMT DEF QueryMetadata
  <2>5. QueryMetadata(f) = Away(LocalRecords(f), s) \cup CopiesIn(t, f)
    <3>1. \A r : IsSet(t, f, r)
      BY <1>1 DEF IsSet
    <3>2. Away(QueryMetadata(f), s) = Away(LocalRecords(f), s) \cup {r \in CopiesIn(t, f) : IsSet(t, f, r)}
      BY <1>1, <2>2 DEF Copied
    <3>3. Away(QueryMetadata(f), s) = QueryMetadata(f)
      BY <2>4 DEF Away
    <3> QED
      BY <3>1, <3>2, <3>3
  <2>6. LocalRecords(f)' = Away(LocalRecords(f), s) \cup CopiesIn(t, f) /\ LocalHash(f)' = LocalHash(f)
    <3>1. CASE f \in DOMAIN local
      BY <1>8, <3>1 DEF LocalRecords, LocalHash, NotOn, Away
    <3>2. CASE f \notin DOMAIN local
      BY <1>8, <2>2, <3>2 DEF LocalRecords, LocalHash, Away, Copied
    <3> QED
      BY <3>1, <3>2
  <2>7. db[f].file_hash = LocalHash(f)
    BY <2>2 DEF Copied
  <2>8. Matches(f)'
    BY <1>1, <2>5, <2>6, <2>7 DEF Matches, QueryMetadata
  <2> QED
    BY <2>3, <2>8 DEF OneAtATime, SideBySide
<1> QED
  BY <1>1, <1>9, <1>10 DEF Agreeing

(* After a command that threw no file's backends need agree.               *)
LEMMA ThrowAgrees ==
  ASSUME Inv, Agreeing, NEW s \in Failovers,
         \/ ListThrows(s) \/ PipeThrows(s)
         \/ \E f \in Files : QueryThrows(s, f)
  PROVE  Agreeing'
<1> DEFINE t == failover[s]
<1>1. PICK next : CommandThrows(s, next) /\
        \/ next = Failing("list", {}, {})
        \/ t.pc = "list" /\ next = [t EXCEPT !.pc = "read"]
        \/ t.pc \in {"query", "read"} /\ \E f \in Files : next = [t EXCEPT !.files = @ \ {f}]
        \/ t.pc = "replace" /\ next = [t EXCEPT !.pc = "list", !.pipe = {}]
        \/ t.pc = "read" /\ next = [t EXCEPT !.pipe = {}]
  BY DEF ListThrows, PipeThrows, QueryThrows
<1>2. /\ UNCHANGED <<db, upload, delete, local>> /\ apart' = Files
      /\ failover'[s] = next /\ \A r \in Failovers \ {s} : failover'[r] = failover[r]
  BY <1>1 DEF CommandThrows, Inv, Sessions
<1>3. FailoverOK(s, t) /\ (t.pc # "idle" => DOMAIN t = {"pc", "files", "healthy", "updates", "pipe"})
  BY DEF Agreeing, Shapes, Inv, Sessions
<1>4. FailoverOK(s, next)
  <2>1. CASE next = Failing("list", {}, {})
    BY <2>1 DEF Failing, FailoverOK, Over
  <2>2. CASE t.pc = "list" /\ next = [t EXCEPT !.pc = "read"]
    <3>1. /\ next.pc = "read" /\ next.healthy = t.healthy /\ next.updates = t.updates
          /\ next.pipe = t.pipe
      BY <1>3, <2>2
    <3> QED
      BY <1>3, <2>2, <3>1 DEF FailoverOK
  <2>3. ASSUME t.pc \in {"query", "read"}, NEW f \in Files, next = [t EXCEPT !.files = @ \ {f}]
        PROVE  FailoverOK(s, next)
    <3>1. /\ next.pc = t.pc /\ next.healthy = t.healthy /\ next.updates = t.updates
          /\ next.pipe = t.pipe
      BY <1>3, <2>3
    <3> QED
      BY <1>3, <2>3, <3>1 DEF FailoverOK
  <2>4. CASE t.pc = "replace" /\ next = [t EXCEPT !.pc = "list", !.pipe = {}]
    <3>1. /\ next.pc = "list" /\ next.healthy = t.healthy /\ next.updates = t.updates
          /\ next.pipe = {}
      BY <1>3, <2>4
    <3> QED
      BY <1>3, <2>4, <3>1 DEF FailoverOK
  <2>5. CASE t.pc = "read" /\ next = [t EXCEPT !.pipe = {}]
    <3>1. /\ next.pc = "read" /\ next.healthy = t.healthy /\ next.updates = t.updates
          /\ next.pipe = {}
      BY <1>3, <2>5
    <3> QED
      BY <1>3, <2>5, <3>1 DEF FailoverOK
  <2> QED
    BY <1>1, <2>1, <2>2, <2>3, <2>4, <2>5
<1>5. Shapes'
  BY <1>2, <1>4 DEF Agreeing, Shapes
<1> QED
  BY <1>2, <1>5 DEF Agreeing

-----------------------------------------------------------------------------
LEMMA InitAgrees == Init => Agreeing
<1> SUFFICES ASSUME Init PROVE Agreeing
  OBVIOUS
<1>1. /\ \A f \in Files : db[f] = NoKey
      /\ \A u \in Uploads : upload[u].pc = "idle"
      /\ DOMAIN delete = Deletes
      /\ \A x \in Deletes : "pc" \in DOMAIN delete[x] /\ delete[x].pc = "idle"
      /\ \A s \in Failovers : failover[s].pc = "idle"
      /\ DOMAIN local = {} /\ apart = {}
  BY DEF Init, Idle
<1>2. Shapes
  BY <1>1, GoodNoKey DEF Shapes, UploadOK, FailoverOK
<1>3. ASSUME NEW f \in Files PROVE OneAtATime(f) /\ SideBySide(f)
  <2>1. Uploading(f) = {} /\ Deleting(f) = {} /\ FailingOver = {}
    BY <1>1 DEF Uploading, Deleting, FailingOver, Over
  <2>2. Matches(f)
    BY <1>1, GoodNoKey DEF Matches, QueryMetadata, LocalRecords, LocalHash
  <2> QED
    BY <2>1, <2>2 DEF OneAtATime, SideBySide
<1> QED
  BY <1>2, <1>3 DEF Agreeing

LEMMA NextAgrees == Inv /\ Agreeing /\ [Next]_vars => Agreeing'
<1> SUFFICES ASSUME Inv, Agreeing, [Next]_vars PROVE Agreeing'
  OBVIOUS
<1>1. ASSUME NEW u \in Uploads,
             \/ \E K \in Vectors : StartUpload(u, K)
             \/ CreateEntry(u) \/ Expire(u) \/ CreateEntryThrows(u)
      PROVE  Agreeing'
  BY <1>1, StartUploadAgrees, CreateEntryAgrees, ExpireAgrees, UploadEndsAgrees
<1>2. ASSUME NEW f \in Files, KeyExpires(f) PROVE Agreeing'
  BY <1>2, UploadEndsAgrees
<1>3. ASSUME NEW x \in Deletes,
             StartDelete(x) \/ DeleteEntry(x) \/ DeleteEntryThrows(x) \/ DeleteFails(x)
      PROVE  Agreeing'
  BY <1>3, StartDeleteAgrees, EndDeleteAgrees
<1>4. ASSUME NEW s \in Failovers,
             \/ \E healthy \in SUBSET (Servers \ {s}) : StartFailover(s, healthy)
             \/ \E f \in Files : QueryFile(s, f) \/ ReadForDrop(s, f) \/ QueryThrows(s, f)
             \/ BuildPipe(s) \/ AtomicReplace(s) \/ ListForDrop(s)
             \/ Drop(s) \/ EndFailover(s) \/ ListThrows(s) \/ PipeThrows(s)
      PROVE  Agreeing'
  BY <1>4, StartFailoverAgrees, QueryFileAgrees, ReadForDropAgrees, BuildPipeAgrees,
     AtomicReplaceAgrees, ListForDropAgrees, DropAgrees, EndFailoverAgrees, ThrowAgrees
<1>5. CASE UNCHANGED vars
  <2>1. UNCHANGED <<db, upload, delete, failover, local, apart>>
    BY <1>5 DEF vars, history
  <2>2. Shapes'
    BY <2>1 DEF Agreeing, Shapes
  <2>3. \A f \in Files : SameFields(db'[f], db[f]) /\ Deleting(f)' = Deleting(f)
    BY <2>1 DEF SameFields, Deleting
  <2>4. FailingOver' = FailingOver
    BY <2>1 DEF FailingOver
  <2>5. ASSUME NEW f \in Files \ apart PROVE OneAtATime(f)' /\ SideBySide(f)'
    BY <2>1, <2>3, <2>4, LocalSame, Untouched DEF Agreeing
  <2> QED
    BY <2>1, <2>2, <2>5 DEF Agreeing
<1> QED
  BY <1>1, <1>2, <1>3, <1>4, <1>5 DEF Next

LEMMA AlwaysAgreeing == Spec => [](Inv /\ Agreeing)
<1>1. Init => Inv /\ Agreeing
  BY InitInv, InitAgrees
<1>2. Inv /\ Agreeing /\ [Next]_vars => (Inv /\ Agreeing)'
  BY NextInv, NextAgrees
<1> QED
  BY <1>1, <1>2, PTL DEF Spec

(* Whatever commands interleave or throw, and whenever keys expire, every  *)
(* hash in Redis is one the head server can decode: known chunks, servers, *)
(* paths and counts, and no key without fields (redis_handler.hpp's HSET,  *)
(* HDEL, DEL and EXPIRE commands together).                                *)
THEOREM HashesAlwaysTyped == Spec => []TypeOK
<1>1. Agreeing => TypeOK
  BY DEF Agreeing, Shapes, Good, Key, TypeOK, Exists
<1> QED
  BY <1>1, AlwaysAgreeing, PTL

(* The Redis backend's command sequences for create_entry, delete_entry,   *)
(* atomic_replace_server_chunks and delete_server_metadata end with the    *)
(* records the on-disk backend's atomic updates give, for every file whose *)
(* requests came one after another and none of them failed or expired.     *)
THEOREM BackendsAlwaysAgree == Spec => []BackendsAgree
<1>1. Agreeing => BackendsAgree
  BY DEF Agreeing, SideBySide, Matches, BackendsAgree, Busy
<1> QED
  BY <1>1, AlwaysAgreeing, PTL
=============================================================================
