---------------------------- MODULE MetadataStore ----------------------------
(***************************************************************************)
(* The head server's metadata store (redis_handler.hpp, on-disk backend):  *)
(* a map in memory, guarded by one mutex, that every operation changes and *)
(* then rewrites in full to the database file while it holds the mutex.    *)
(* The process can stop at any moment, also in the middle of the rewrite,  *)
(* and reads the file again when it starts.                                *)
(***************************************************************************)
EXTENDS Metadata

CONSTANTS Files,               \* names of files
          Vectors,             \* per file: the sets of new records callers supply
          ReplicationFactor,   \* config_replication_factor()
          DiskFaults           \* whether opening or writing the file can fail

AllVectors == UNION {Vectors[f] : f \in Files}

ASSUME MetadataStoreAssumption ==
  /\ \A K \in AllVectors : /\ K \subseteq ChunkRecord /\ IsFiniteSet(K)
                         /\ \A k \in K : ~k.cut
  /\ ReplicationFactor \in Nat \ {0}
  /\ DiskFaults \in BOOLEAN

VARIABLES
  store,     \* store(): the map in memory; when down, as the process left it
  disk,      \* the database file, as the records its lines read as
  phase,     \* "up": mutex free; "writing": in persist_locked; "down"
  written,   \* history: the map the file was last (re)written from
  faulted    \* history: the last rewrite met an I/O error

vars == <<store, disk, phase, written, faulted>>

NoFiles == [f \in {} |-> 0]

Init == /\ store = NoFiles
        /\ disk = NoFiles
        /\ phase = "up"
        /\ written = NoFiles
        /\ faulted = FALSE

-----------------------------------------------------------------------------
(* Every operation takes the mutex, changes the map and starts to persist. *)
Change(st) == /\ phase = "up"
              /\ store' = st
              /\ phase' = "writing"
              /\ UNCHANGED <<disk, written, faulted>>

(* create_entry as store_metadata calls it: one record for every transfer  *)
(* that succeeded, with the number of successes of its chunk.              *)
CreateEntry(f, file_hash, K) ==
  Change(ReplaceFileChunks(store, f, file_hash, Recount(K), ReplicationFactor))

(* delete_entry                                                            *)
DeleteEntry(f) == Change(RemoveFile(store, f))

(* atomic_replace_server_chunks with the records of new copies, none of    *)
(* them on the dead server.                                                *)
AtomicReplace(dead, updates) ==
  Change(AtomicReplaceServerChunks(store, dead, updates))

(* delete_server_metadata                                                  *)
DeleteServer(server) == Change(DeleteServerMetadata(store, server))

(* A faulty variant: the file is not emptied first, so old lines stay.     *)
PersistAppends == /\ phase = "writing"
                  /\ disk' = LET new == PersistLocked(store)
                             IN [f \in DOMAIN disk \cup DOMAIN new |->
                                   IF f \in DOMAIN new THEN new[f] ELSE disk[f]]
                  /\ written' = store
                  /\ faulted' = FALSE
                  /\ phase' = "up"
                  /\ UNCHANGED store

(* persist_locked to its end.                                              *)
PersistDone == /\ phase = "writing"
               /\ disk' = PersistLocked(store)
               /\ written' = store
               /\ faulted' = FALSE
               /\ phase' = "up"
               /\ UNCHANGED store

(* The file cannot be opened: the operation goes on with a message.        *)
PersistOpenFails == /\ DiskFaults
                    /\ phase = "writing"
                    /\ phase' = "up"
                    /\ faulted' = TRUE
                    /\ UNCHANGED <<store, disk, written>>

(* A write fails after the file was emptied: nobody looks at the stream.   *)
PersistWriteFails == /\ DiskFaults
                     /\ phase = "writing"
                     /\ disk' \in CutImages(store)
                     /\ written' = store
                     /\ faulted' = TRUE
                     /\ phase' = "up"
                     /\ UNCHANGED store

(* The process stops: with the mutex free, before the file is opened, or   *)
(* in the middle of the rewrite.                                           *)
CrashIdle == /\ phase \in {"up", "writing"}
             /\ phase' = "down"
             /\ UNCHANGED <<store, disk, written, faulted>>

CrashWriting == /\ phase = "writing"
                /\ disk' \in CutImages(store)
                /\ written' = store
                /\ phase' = "down"
                /\ UNCHANGED <<store, faulted>>

(* The first use of store() after a start reads the file.                  *)
Restart == /\ phase = "down"
           /\ store' = LoadFromDisk(disk)
           /\ written' = LoadFromDisk(disk)
           /\ faulted' = FALSE
           /\ phase' = "up"
           /\ UNCHANGED disk

-----------------------------------------------------------------------------
(* New records carry new paths.                                            *)
Fresh(f, K) == /\ K \in Vectors[f]
               /\ f \in DOMAIN store => K \cap DOMAIN store[f].chunks = {}

Next ==
  \/ \E f \in Files, h \in Hashes, K \in AllVectors :
        Fresh(f, K) /\ CreateEntry(f, h, K)
  \/ \E f \in Files : DeleteEntry(f)
  \/ \E dead \in Servers, F \in SUBSET Files : \E updates \in [F -> AllVectors] :
        /\ \A f \in F : Fresh(f, updates[f]) /\ \A k \in updates[f] : k.server # dead
        /\ AtomicReplace(dead, updates)
  \/ \E server \in Servers : DeleteServer(server)
  \/ PersistDone
  \/ PersistOpenFails
  \/ PersistWriteFails
  \/ CrashIdle
  \/ CrashWriting
  \/ Restart

Spec == Init /\ [][Next]_vars

-----------------------------------------------------------------------------
IsStore(st) == /\ DOMAIN st \subseteq Files
               /\ st = [f \in DOMAIN st |-> st[f]]
               /\ \A f \in DOMAIN st : IsFileRecord(st[f])

(* Type invariant: memory and file hold well-formed records.               *)
TypeOK == /\ IsStore(store) /\ IsStore(disk) /\ IsStore(written)
          /\ phase \in {"up", "writing", "down"}
          /\ faulted \in BOOLEAN

(* Every record in memory states exactly how many replicas of its chunk    *)
(* the store knows of, whatever mixture of uploads, deletions, failovers,  *)
(* I/O errors, crashes and restarts came before (the recounting loops of   *)
(* redis_handler.hpp, "Ensure replica counts are consistent").             *)
Exact(st) == \A f \in DOMAIN st : \A k \in DOMAIN st[f].chunks :
               st[f].chunks[k] = CidCount(DOMAIN st[f].chunks, k.chunk_id)

CountsExact == Exact(store)

(* Once an operation has returned without an I/O error, a restart brings   *)
(* back exactly the map it left, but for records that say nothing (a cut   *)
(* hash line can leave one): persist_locked and load_from_disk are inverse *)
(* on every map the operations, crashes and restarts can build.            *)
ReturnedIsRestored ==
  phase = "up" /\ ~faulted =>
    LoadFromDisk(disk) \in {store, [f \in {g \in DOMAIN store : HasLines(store[g])} |-> store[f]]}

(* What a restart reads was in the map the file was last written from: a   *)
(* rewrite cut short loses files, hashes and records, but brings back no   *)
(* deleted file and no record of a server that was replaced.               *)
Uncut(k) == [k EXCEPT !.cut = FALSE]

Within(small, big) ==
  \A f \in DOMAIN small :
    /\ f \in DOMAIN big
    /\ small[f].file_hash \in {big[f].file_hash, CutHash, NoHash}
    /\ \A k \in DOMAIN small[f].chunks :
          \E l \in DOMAIN big[f].chunks : Uncut(k) = Uncut(l)

NothingInvented == Within(LoadFromDisk(disk), written)
=============================================================================
