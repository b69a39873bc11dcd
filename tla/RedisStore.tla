----------------------------- MODULE RedisStore -----------------------------
(***************************************************************************)
(* The metadata store on Redis (redis_handler.hpp built WITH_REDIS).  A    *)
(* file is a hash with a field per replica, and every operation of the     *)
(* head server is a series of commands: Redis runs one command at a time,  *)
(* and the commands of other threads come in between.  A pipeline is sent  *)
(* as a whole and is no transaction.                                       *)
(*                                                                         *)
(* The variable local carries along what the on-disk backend would hold    *)
(* (module Metadata), with every operation in one step.  Counts of chunk   *)
(* records and checksums are left out of the hash: no reader decides by    *)
(* them.                                                                   *)
(***************************************************************************)
EXTENDS Metadata

CONSTANTS
  Files,              \* names of files
  Uploads,            \* upload requests, which are also their hashes
  Deletes,            \* delete requests
  Failovers,          \* servers that may be declared dead
  FileOf,             \* the file a request is about
  Vectors,            \* the replicas an upload can have stored
  ReplicationFactor,  \* config_replication_factor()
  MaxFaults           \* bound: commands that throw

ASSUME RedisAssumption ==
  /\ Hashes = Uploads /\ Paths = Uploads \cup Failovers
  /\ FileOf \in [Uploads \cup Deletes -> Files]
  /\ Vectors \subseteq SUBSET (ChunkIds \X Servers)
  /\ Failovers \subseteq Servers
  /\ ReplicationFactor \in Nat \ {0} /\ MaxFaults \in Nat

VARIABLES
  db,        \* the hashes in Redis
  upload,    \* per upload: create_entry
  delete,    \* per deletion: handle_client_delete
  failover,  \* per dead server: rereplicate_dead_server_chunks
  faults,    \* how many commands threw
  local,     \* history: the same requests, one at a time, on the on-disk backend
  apart,     \* history: files whose records may differ from local
  disturbed  \* history: uploads and failovers that others may have undone

history == <<local, apart, disturbed>>
vars == <<db, upload, delete, failover, faults, history>>

(* A hash: "chunk:<id>:<server>" fields with their path, the ids that have *)
(* a "chunk_replicas:<id>" field, and whether EXPIRE was set on the key.   *)
NoKey == [chunk |-> [k \in {} |-> 0], replicas |-> {}, file_hash |-> NoHash,
          replica_count |-> 0, ttl |-> FALSE]
HasFields(h) == \/ DOMAIN h.chunk # {} \/ h.replicas # {}
                \/ h.file_hash # NoHash \/ h.replica_count # 0
Exists(f) == HasFields(db[f])
Keys == {f \in Files : Exists(f)}

Record(k, path) == [chunk_id |-> k[1], server |-> k[2], path |-> path, cut |-> FALSE]

(* query_metadata: one HGETALL, decoded.                                   *)
QueryMetadata(f) == {Record(k, db[f].chunk[k]) : k \in DOMAIN db[f].chunk}
LocalRecords(f) == IF f \in DOMAIN local THEN DOMAIN local[f].chunks ELSE {}
LocalHash(f) == IF f \in DOMAIN local THEN local[f].file_hash ELSE NoHash

Idle == [pc |-> "idle"]
Over == {"idle", "done", "error"}

Init ==
  /\ db = [f \in Files |-> NoKey]
  /\ upload = [u \in Uploads |-> Idle]
  /\ delete = [x \in Deletes |-> Idle]
  /\ failover = [s \in Failovers |-> Idle]
  /\ faults = 0
  /\ local = [f \in {} |-> 0] /\ apart = {} /\ disturbed = {}

(* The operations at work on file f, and those that touch every file.      *)
Uploading(f) == {u \in Uploads : FileOf[u] = f /\ upload[u].pc \notin Over}
Deleting(f) == {x \in Deletes : FileOf[x] = f /\ delete[x].pc \notin Over}
FailingOver == {s \in Failovers : failover[s].pc \notin Over}
Started(f) == {u \in Uploads : FileOf[u] = f /\ upload[u].pc # "idle"}
Busy(f) == Uploading(f) # {} \/ Deleting(f) # {} \/ FailingOver # {}

Fault == faults < MaxFaults /\ faults' = faults + 1

-----------------------------------------------------------------------------
(* Commands.                                                               *)
With(h, k, path) == [h EXCEPT !.chunk = [i \in DOMAIN @ \cup {k} |-> IF i = k THEN path ELSE @[i]]]

(* HDEL of the last field removes the key, and its time to live with it.   *)
HDel(h, k) ==
  LET rest == [h EXCEPT !.chunk = [i \in DOMAIN @ \ {k} |-> @[i]]]
  IN IF HasFields(rest) THEN rest ELSE NoKey

Del(f) == db' = [db EXCEPT ![f] = NoKey]

(* A faulty variant: the field is named after the chunk alone.             *)
SetChunksUnkeyed(h, K, path) ==
  LET Last(c) == CHOOSE k \in K : k[1] = c
      kept == {k \in DOMAIN h.chunk : \A l \in K : l[1] # k[1]}
      K1 == {Last(k[1]) : k \in K}
  IN [h EXCEPT !.chunk = [k \in kept \cup K1 |-> IF k \in K1 THEN path ELSE @[k]],
               !.replicas = @ \cup {k[1] : k \in K}]

(* The HSET of all chunk fields: fields of other replicas stay.            *)
SetChunks(h, K, path) ==
  [h EXCEPT !.chunk = [k \in DOMAIN @ \cup K |-> IF k \in K THEN path ELSE @[k]],
            !.replicas = @ \cup {k[1] : k \in K}]

(* A faulty variant: the count adds up.                                    *)
SetCountAdds(h) == [h EXCEPT !.replica_count = @ + ReplicationFactor]

SetCount(h) == [h EXCEPT !.replica_count = ReplicationFactor]

-----------------------------------------------------------------------------
(* create_entry at the end of an upload that has stored the replicas K.    *)
(* The on-disk backend replaces the record; here an existing hash keeps    *)
(* its other fields.                                                       *)
StartUpload(u, K) ==
  /\ upload[u] = Idle
  /\ upload' = [upload EXCEPT ![u] =
                  [pc |-> IF K = {} THEN "file_hash" ELSE "chunks", stored |-> K]]
  /\ apart' = IF Busy(FileOf[u]) \/ Exists(FileOf[u]) THEN apart \cup {FileOf[u]} ELSE apart
  /\ disturbed' = disturbed \cup {s \in Failovers : failover[s].pc # "idle"}
                          \cup (IF FailingOver = {} THEN {} ELSE {u})
  /\ UNCHANGED <<db, delete, failover, faults, local>>

(* The commands in their order: HSET of the fields, of file_hash, of       *)
(* replica_count, and EXPIRE, since store_metadata asks for TTL=3600.      *)
CreateEntry(u) ==
  LET f == FileOf[u]
      s == upload[u]
      After(pc, next, h) == s.pc = pc /\ db' = [db EXCEPT ![f] = h]
                            /\ upload' = [upload EXCEPT ![u].pc = next]
  IN /\ \/ After("chunks", "file_hash", SetChunks(db[f], s.stored, u))
        \/ After("file_hash", "replica_count", [db[f] EXCEPT !.file_hash = u])
        \/ After("replica_count", "expire", SetCount(db[f]))
     /\ UNCHANGED <<delete, failover, faults, history>>

Expire(u) ==
  LET f == FileOf[u]
      K == {Record(k, u) : k \in upload[u].stored}
  IN /\ upload[u].pc = "expire"
     /\ db' = IF Exists(f) THEN [db EXCEPT ![f].ttl = TRUE] ELSE db
     /\ upload' = [upload EXCEPT ![u].pc = "done"]
     /\ local' = ReplaceFileChunks(local, f, u, Recount(K), ReplicationFactor)
     /\ UNCHANGED <<delete, failover, faults, apart, disturbed>>

(* A command throws: create_entry catches, and the upload is answered with *)
(* SUCCESS all the same.                                                   *)
CreateEntryThrows(u) ==
  /\ upload[u].pc \notin Over
  /\ Fault
  /\ upload' = [upload EXCEPT ![u].pc = "error"]
  /\ apart' = apart \cup {FileOf[u]}
  /\ UNCHANGED <<db, delete, failover, local, disturbed>>

(* The key's time to live is over.                                         *)
KeyExpires(f) ==
  /\ Exists(f) /\ db[f].ttl
  /\ Del(f)
  /\ apart' = apart \cup {f}
  /\ disturbed' = disturbed \cup Started(f)
  /\ UNCHANGED <<upload, delete, failover, faults, local>>

-----------------------------------------------------------------------------
(* handle_client_delete: the locations are read, the replicas deleted one  *)
(* by one, and the key when all of them confirmed.                         *)
StartDelete(x) ==
  LET f == FileOf[x]
  IN /\ delete[x] = Idle
     /\ delete' = [delete EXCEPT ![x].pc = IF QueryMetadata(f) = {} THEN "error" ELSE "deleting"]
     /\ apart' = IF Busy(f) THEN apart \cup {f} ELSE apart
     /\ UNCHANGED <<db, upload, failover, faults, local, disturbed>>

DeleteEntry(x) ==
  LET f == FileOf[x]
  IN /\ delete[x].pc = "deleting"
     /\ delete' = [delete EXCEPT ![x].pc = "done"]
     /\ Del(f)
     /\ local' = RemoveFile(local, f)
     /\ apart' = IF Uploading(f) = {} /\ Deleting(f) = {x} /\ FailingOver = {}
                 THEN apart \ {f} ELSE apart
     /\ disturbed' = disturbed \cup Started(f)
     /\ UNCHANGED <<upload, failover, faults>>

(* DEL throws: the key stays and the client is told SUCCESS.               *)
DeleteEntryThrows(x) ==
  LET f == FileOf[x]
  IN /\ delete[x].pc = "deleting"
     /\ Fault
     /\ delete' = [delete EXCEPT ![x].pc = "done"]
     /\ local' = RemoveFile(local, f)
     /\ apart' = apart \cup {f}
     /\ UNCHANGED <<db, upload, failover, disturbed>>

(* Not every replica confirmed.                                            *)
DeleteFails(x) ==
  /\ delete[x].pc = "deleting"
  /\ delete' = [delete EXCEPT ![x].pc = "error"]
  /\ UNCHANGED <<db, upload, failover, faults, history>>

-----------------------------------------------------------------------------
(* rereplicate_dead_server_chunks.  list_all_files is taken in one step.   *)
(* Without a file it goes on to delete_server_metadata, without a healthy  *)
(* server it returns.                                                      *)
Failing(pc, files, healthy) ==
  [pc |-> pc, files |-> files, healthy |-> healthy, updates |-> {}, pipe |-> {}]

StartFailover(s, healthy) ==
  /\ failover[s] = Idle
  /\ failover' = [failover EXCEPT ![s] =
                    IF Keys = {} THEN Failing("list", {}, {})
                    ELSE IF healthy = {} THEN Failing("error", {}, {})
                    ELSE Failing("query", Keys, healthy)]
  /\ apart' = IF Keys # {} /\ healthy = {} THEN apart
              ELSE apart \cup {f \in Files : Busy(f)}
  /\ disturbed' = disturbed \cup {u \in Uploads : upload[u].pc # "idle"}
                  \cup (IF \E f \in Files : Uploading(f) # {} THEN {s} ELSE {})
  /\ UNCHANGED <<db, upload, delete, faults, local>>

(* The chunks of f the dead server had and another server still has, each  *)
(* with the healthy servers that do not host it.                           *)
On(f, c) == {k[2] : k \in {i \in DOMAIN db[f].chunk : i[1] = c}}
Lost(f, s) == {c \in ChunkIds : s \in On(f, c) /\ On(f, c) # {s}}

(* One file: its locations are read, and every chunk that is copied gives  *)
(* a record for the update.  The path is the failover's own.               *)
QueryFile(s, f) ==
  LET t == failover[s]
  IN /\ t.pc = "query" /\ f \in t.files
     /\ \E C \in SUBSET Lost(f, s) : \E to \in [C -> t.healthy] :
          /\ \A c \in C : to[c] \notin On(f, c)
          /\ failover' = [failover EXCEPT ![s].files = @ \ {f},
                ![s].updates = @ \cup {<<f, Record(<<c, to[c]>>, s)>> : c \in C}]
          /\ disturbed' = disturbed \cup {to[c] : c \in C}
     /\ UNCHANGED <<db, upload, delete, faults, local, apart>>

(* atomic_replace_server_chunks: HDEL of the dead server's field, HSET of  *)
(* the new one, HSET of the chunk's count, chunk by chunk.  Nothing asks   *)
(* whether the file still exists.                                          *)
BuildPipe(s) ==
  LET t == failover[s]
  IN /\ t.pc = "query" /\ t.files = {}
     /\ failover' = [failover EXCEPT
          ![s].pc = IF t.updates = {} THEN "list" ELSE "replace",
          ![s].pipe = {[file |-> e[1], rec |-> e[2], next |-> "hdel"] : e \in t.updates}]
     /\ UNCHANGED <<db, upload, delete, faults, history>>

Replace(h, dead, e) ==
  LET k == <<e.rec.chunk_id, e.rec.server>>
  IN CASE e.next = "hdel" -> HDel(h, <<k[1], dead>>)
       [] e.next = "hset" -> With(h, k, e.rec.path)
       [] e.next = "count" -> [h EXCEPT !.replicas = @ \cup {k[1]}]

AtomicReplace(s) ==
  LET t == failover[s]
      Begun == {e \in t.pipe : e.next # "hdel"}
  IN /\ t.pc = "replace"
     /\ \E e \in IF Begun = {} THEN t.pipe ELSE Begun :
          LET rest == (t.pipe \ {e}) \cup
                      (CASE e.next = "hdel" -> {[e EXCEPT !.next = "hset"]}
                         [] e.next = "hset" -> {[e EXCEPT !.next = "count"]}
                         [] e.next = "count" -> {})
          IN /\ db' = [db EXCEPT ![e.file] = Replace(@, s, e)]
             /\ failover' = [failover EXCEPT ![s].pipe = rest,
                                             ![s].pc = IF rest = {} THEN "list" ELSE @]
     /\ UNCHANGED <<upload, delete, faults, history>>

(* delete_server_metadata: list the files, read each of them, and send the *)
(* HDELs collected.                                                        *)
ListForDrop(s) ==
  /\ failover[s].pc = "list"
  /\ failover' = [failover EXCEPT ![s].pc = "read", ![s].files = Keys]
  /\ UNCHANGED <<db, upload, delete, faults, history>>

(* A faulty variant: only the files that got new records are looked at.    *)
ReadForDropUpdated(s, f) ==
  /\ failover[s].pc = "read" /\ f \in failover[s].files
  /\ failover' = [failover EXCEPT ![s].files = @ \ {f},
       ![s].pipe = @ \cup {<<f, k>> : k \in {i \in DOMAIN db[f].chunk :
                                               i[2] = s /\ \E e \in failover[s].updates : e[1] = f}}]
  /\ UNCHANGED <<db, upload, delete, faults, history>>

ReadForDrop(s, f) ==
  /\ failover[s].pc = "read" /\ f \in failover[s].files
  /\ failover' = [failover EXCEPT ![s].files = @ \ {f},
       ![s].pipe = @ \cup {<<f, k>> : k \in {i \in DOMAIN db[f].chunk : i[2] = s}}]
  /\ UNCHANGED <<db, upload, delete, faults, history>>

Drop(s) ==
  LET t == failover[s]
  IN /\ t.pc = "read" /\ t.files = {}
     /\ \E e \in t.pipe :
          /\ db' = [db EXCEPT ![e[1]] = HDel(@, e[2])]
          /\ failover' = [failover EXCEPT ![s].pipe = @ \ {e}]
     /\ UNCHANGED <<upload, delete, faults, history>>

(* The failover ends; the on-disk backend does its two updates.            *)
EndFailover(s) ==
  LET t == failover[s]
      new == [f \in {e[1] : e \in t.updates} |-> {e[2] : e \in {d \in t.updates : d[1] = f}}]
  IN /\ t.pc = "read" /\ t.files = {} /\ t.pipe = {}
     /\ failover' = [failover EXCEPT ![s].pc = "done"]
     /\ local' = DeleteServerMetadata(AtomicReplaceServerChunks(local, s, new), s)
     /\ UNCHANGED <<db, upload, delete, faults, apart, disturbed>>

(* A command throws.  list_all_files and query_metadata catch and return   *)
(* nothing; a pipeline that fails drops what it had left, and the failover *)
(* goes on.                                                                *)
CommandThrows(s, next) ==
  /\ Fault
  /\ failover' = [failover EXCEPT ![s] = next]
  /\ apart' = Files
  /\ disturbed' = disturbed \cup {s} \cup {u \in Uploads : upload[u].pc # "idle"}
  /\ UNCHANGED <<db, upload, delete, local>>

ListThrows(s) ==
  \/ failover[s] = Idle /\ CommandThrows(s, Failing("list", {}, {}))
  \/ failover[s].pc = "list" /\ CommandThrows(s, [failover[s] EXCEPT !.pc = "read"])

QueryThrows(s, f) ==
  /\ failover[s].pc \in {"query", "read"} /\ f \in failover[s].files
  /\ CommandThrows(s, [failover[s] EXCEPT !.files = @ \ {f}])

PipeThrows(s) ==
  LET t == failover[s]
  IN \/ t.pc = "replace" /\ CommandThrows(s, [t EXCEPT !.pc = "list", !.pipe = {}])
     \/ /\ t.pc = "read" /\ t.files = {} /\ t.pipe # {}
        /\ CommandThrows(s, [t EXCEPT !.pipe = {}])

-----------------------------------------------------------------------------
Next ==
  \/ \E u \in Uploads : \/ \E K \in Vectors : StartUpload(u, K)
                        \/ CreateEntry(u) \/ Expire(u) \/ CreateEntryThrows(u)
  \/ \E f \in Files : KeyExpires(f)
  \/ \E x \in Deletes : \/ StartDelete(x) \/ DeleteEntry(x)
                        \/ DeleteEntryThrows(x) \/ DeleteFails(x)
  \/ \E s \in Failovers : \/ \E healthy \in SUBSET (Servers \ {s}) : StartFailover(s, healthy)
                          \/ \E f \in Files : \/ QueryFile(s, f) \/ ReadForDrop(s, f)
                                             \/ QueryThrows(s, f)
                          \/ BuildPipe(s) \/ AtomicReplace(s) \/ ListForDrop(s)
                          \/ Drop(s) \/ EndFailover(s) \/ ListThrows(s) \/ PipeThrows(s)

Spec == Init /\ [][Next]_vars

-----------------------------------------------------------------------------
(* Every hash holds fields of known chunks and servers, paths some upload  *)
(* or failover made, and a count that is absent or the configured one; a   *)
(* key without fields has no time to live.                                 *)
TypeOK ==
  \A f \in Files :
    /\ DOMAIN db[f].chunk \subseteq ChunkIds \X Servers
    /\ \A k \in DOMAIN db[f].chunk : db[f].chunk[k] \in Paths
    /\ db[f].replicas \subseteq ChunkIds
    /\ db[f].file_hash \in Hashes \cup {NoHash}
    /\ db[f].replica_count \in {0, ReplicationFactor}
    /\ ~Exists(f) => db[f] = NoKey

(* The two backends agree: a file whose requests came one after another,   *)
(* each into a state without an older record of it, none failing and none  *)
(* expired, reads the same from Redis as from the on-disk store: the same  *)
(* replicas at the same paths, and the same hash.  The failover's pipeline *)
(* and removal reach what the on-disk store does in two atomic updates.    *)
BackendsAgree ==
  \A f \in Files \ apart :
    Busy(f) \/ ( /\ QueryMetadata(f) = LocalRecords(f)
                 /\ db[f].file_hash = LocalHash(f) )

(* Replicas have keys of their own, so that uploads cannot push out each   *)
(* other's replicas: whatever else is uploaded under the name, before,     *)
(* after or meanwhile, every replica a finished create_entry recorded has  *)
(* a record, of an upload that stored it, and the hash is the hash of an   *)
(* upload of this file, unless a deletion, a failover or the expiry of the *)
(* key took it away.                                                       *)
ReplicasKept ==
  \A u \in Uploads \ disturbed :
    upload[u].pc = "done" =>
      LET h == db[FileOf[u]]
      IN /\ \A k \in upload[u].stored :
              /\ k \in DOMAIN h.chunk
              /\ h.chunk[k] \in Started(FileOf[u]) /\ k \in upload[h.chunk[k]].stored
         /\ h.file_hash \in Started(FileOf[u])

(* A failover leaves nothing of the dead server behind, whatever deletions *)
(* and expiries happen between its reads and its commands, as long as no   *)
(* upload runs beside it or comes after it, no other failover copies to    *)
(* that server and no command throws.                                      *)
DeadServerForgotten ==
  \A s \in Failovers \ disturbed :
    failover[s].pc = "done" =>
      \A f \in Files : \A k \in DOMAIN db[f].chunk : k[2] # s

(* Redis is the "Persistent metadata store": the metadata of a file goes   *)
(* only because a client deleted the file.                                 *)
OnlyDeletionForgets ==
  [][\A f \in Files :
       Exists(f) /\ ~HasFields(db'[f]) =>
         \E x \in Deletes : FileOf[x] = f /\ delete[x].pc = "deleting" /\ delete'[x].pc = "done"]_vars
=============================================================================
