------------------------------ MODULE Metadata ------------------------------
(***************************************************************************)
(* The values the head server's metadata store works on, and what each of  *)
(* its operations does to them (redis_handler.hpp, the on-disk backend).   *)
(*                                                                         *)
(* A store maps a set of file names to file records.  The vector of chunk  *)
(* records of a file is a function from the record's identity (chunk id,   *)
(* server, path: every path a node generates is new) to its replica_count. *)
(* Checksums are left out: no operation of the store looks at them.        *)
(***************************************************************************)
EXTENDS Integers, FiniteSets

CONSTANTS
  ChunkIds,    \* chunk ids of a file, 0 .. n-1
  Servers,     \* addresses of cluster servers
  Paths,       \* paths the servers generate
  Hashes,      \* file hashes
  CutHash,     \* what a line cut inside its hash reads as
  NoHash       \* the empty string

ASSUME MetadataAssumption ==
  /\ ChunkIds \subseteq Nat
  /\ CutHash \notin Hashes
  /\ NoHash \notin Hashes \cup {CutHash}

-----------------------------------------------------------------------------
(* struct ChunkRecord (its identity) and struct FileRecord.  "cut" marks a *)
(* record read back from a line that ended inside its path.                *)
ChunkRecord == [chunk_id : ChunkIds, server : Servers, path : Paths,
                cut : BOOLEAN]

(* A vector of chunk records with their replica counts, and a file record. *)
IsChunkVector(chunks) == /\ DOMAIN chunks \subseteq ChunkRecord
                         /\ IsFiniteSet(DOMAIN chunks)
                         /\ chunks \in [DOMAIN chunks -> Nat]

IsFileRecord(rec) ==
  /\ rec \in [file_hash : Hashes \cup {CutHash, NoHash},
              replica_count : Nat, chunks : {rec.chunks}]
  /\ IsChunkVector(rec.chunks)

(* cid_counts: how many records of K belong to chunk c.                    *)
CidCount(K, c) == Cardinality({k \in K : k.chunk_id = c})

(* The loop that sets every record's replica_count to its chunk's count.   *)
Recount(K) == [k \in K |-> CidCount(K, k.chunk_id)]

(* cid_counts.begin()->second: the count of the smallest chunk id.         *)
FirstCount(K) ==
  CidCount(K, CHOOSE c \in ChunkIds : /\ \E k \in K : k.chunk_id = c
                                      /\ \A k \in K : c <= k.chunk_id)

-----------------------------------------------------------------------------
(* replace_file_chunks: the record of f becomes the supplied one, whatever *)
(* it was.  A count that is not positive becomes the number of records.    *)
ReplaceFileChunks(st, f, file_hash, supplied, replica_count) ==
  LET K == DOMAIN supplied
      rec == [file_hash |-> file_hash,
              replica_count |-> IF replica_count <= 0 /\ K # {}
                                THEN FirstCount(K) ELSE replica_count,
              chunks |-> [k \in K |-> IF supplied[k] <= 0
                                      THEN CidCount(K, k.chunk_id)
                                      ELSE supplied[k]]]
  IN [g \in DOMAIN st \cup {f} |-> IF g = f THEN rec ELSE st[g]]

(* remove_file                                                             *)
RemoveFile(st, f) == [g \in DOMAIN st \ {f} |-> st[g]]

(* The records of a file that are not on the given server.                 *)
NotOn(rec, server) == {k \in DOMAIN rec.chunks : k.server # server}

(* A faulty variant: counts are kept, and new records count themselves.    *)
ReplaceServerUncounted(rec, dead, new) ==
  [rec EXCEPT !.chunks = [k \in NotOn(rec, dead) \cup new |->
                            IF k \in DOMAIN rec.chunks THEN rec.chunks[k] ELSE 1]]

(* atomic_replace_server_chunks: in every file that still exists and has   *)
(* new records, the dead server's records go, the new ones come, and all   *)
(* counts are taken afresh.                                                *)
ReplaceServer(rec, dead, new) ==
  LET K == NotOn(rec, dead) \cup new
  IN [file_hash |-> rec.file_hash,
      replica_count |-> IF K # {} THEN FirstCount(K) ELSE rec.replica_count,
      chunks |-> Recount(K)]

(* A faulty variant: a file that is gone gets a record again.              *)
AtomicReplaceCreating(st, dead, updates) ==
  [f \in DOMAIN st \cup DOMAIN updates |->
     IF f \notin DOMAIN st
     THEN [file_hash |-> NoHash, replica_count |-> 1, chunks |-> Recount(updates[f])]
     ELSE IF f \in DOMAIN updates THEN ReplaceServer(st[f], dead, updates[f]) ELSE st[f]]

AtomicReplaceServerChunks(st, dead, updates) ==
  [f \in DOMAIN st |-> IF f \in DOMAIN updates
                       THEN ReplaceServer(st[f], dead, updates[f])
                       ELSE st[f]]

(* A faulty variant: the file's count goes down, with records or without.  *)
DeleteServerDecrements(st, server) ==
  [f \in DOMAIN st |-> [st[f] EXCEPT !.chunks = Recount(NotOn(st[f], server)),
                                     !.replica_count = @ - 1]]

(* delete_server_metadata: the server's records go from every file; the    *)
(* file's own replica_count stays as it was.                               *)
DeleteServerMetadata(st, server) ==
  [f \in DOMAIN st |-> [st[f] EXCEPT !.chunks = Recount(NotOn(st[f], server))]]

-----------------------------------------------------------------------------
(* persist_locked: the image of a store on disk.  A file without a hash,   *)
(* a count and chunks has no line, and so is not in the image.             *)
HasLines(rec) == \/ rec.file_hash # NoHash
                 \/ rec.replica_count > 0
                 \/ DOMAIN rec.chunks # {}

(* A faulty variant: only files with chunk records are written.            *)
PersistChunkedFiles(st) == [f \in {g \in DOMAIN st : DOMAIN st[g].chunks # {}} |-> st[f]]

PersistLocked(st) == [f \in {g \in DOMAIN st : HasLines(st[g])} |-> st[f]]

(* load_from_disk: every count of a chunk record is recomputed; the file's *)
(* is filled in only where there is none.                                  *)
LoadFromDisk(image) ==
  [f \in DOMAIN image |->
     LET K == DOMAIN image[f].chunks
     IN [file_hash |-> image[f].file_hash,
         replica_count |-> IF image[f].replica_count <= 0 /\ K # {}
                           THEN FirstCount(K) ELSE image[f].replica_count,
         chunks |-> Recount(K)]]

(* What the lines of a file read as when the rewrite stopped among them:   *)
(* inside its first lines, or after some of its chunk lines, the last of   *)
(* which may have lost the end of its path.                                *)
HashLine(h) == [file_hash |-> h, replica_count |-> 0, chunks |-> [k \in {} |-> 0]]
SomeLines(rec, K) == [file_hash |-> rec.file_hash, replica_count |-> rec.replica_count,
                      chunks |-> [k \in K |-> rec.chunks[k]]]
LastLineCut(rec, K, l) ==
  [file_hash |-> rec.file_hash, replica_count |-> rec.replica_count,
   chunks |-> [k \in (K \ {l}) \cup {[l EXCEPT !.cut = TRUE]} |-> 1]]

CutRecords(rec) ==
  {HashLine(h) : h \in IF rec.file_hash = NoHash THEN {}
                       ELSE {CutHash, NoHash, rec.file_hash}}
  \cup {SomeLines(rec, K) : K \in SUBSET DOMAIN rec.chunks}
  \cup {LastLineCut(rec, K, l) : K \in SUBSET DOMAIN rec.chunks, l \in DOMAIN rec.chunks}

(* The images a rewrite of the store can leave when it stops half way:     *)
(* some files whole and at most one of the others cut.                     *)
WholeFiles(all, W) == [f \in W |-> all[f]]
OneCut(all, W, g, r) == [f \in W \cup {g} |-> IF f = g THEN r ELSE all[f]]

CutImages(st) ==
  LET all == PersistLocked(st)
  IN UNION {{WholeFiles(all, W)} \cup
            UNION {{OneCut(all, W, g, r) : r \in CutRecords(all[g])} : g \in DOMAIN all \ W} :
            W \in SUBSET DOMAIN all}
=============================================================================
