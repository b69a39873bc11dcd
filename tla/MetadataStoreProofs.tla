------------------------- MODULE MetadataStoreProofs -------------------------
(***************************************************************************)
(* Proofs about MetadataStore, for every set of files, chunk ids, servers  *)
(* and record vectors: its type invariant, that replica counts are exact   *)
(* after any sequence of operations, I/O errors, crashes and restarts,     *)
(* that an operation that has returned survives a restart, and that a      *)
(* rewrite that was cut short invents nothing.                             *)
(***************************************************************************)
EXTENDS MetadataStore, FiniteSetTheorems, WellFoundedInduction, TLAPS

-----------------------------------------------------------------------------
(* How many records of a finite vector belong to a chunk is a number.      *)
LEMMA CidCountType ==
  ASSUME NEW K, IsFiniteSet(K), NEW c
  PROVE  CidCount(K, c) \in Nat
<1>1. {k \in K : k.chunk_id = c} \in SUBSET K
  OBVIOUS
<1>2. IsFiniteSet({k \in K : k.chunk_id = c})
  BY <1>1, FS_Subset
<1> QED
  BY <1>2, FS_CardinalityType DEF CidCount

(* Recounting a finite set of records gives a vector of exactly these      *)
(* records with exact counts (the loop over cid_counts).                   *)
LEMMA RecountIsVector ==
  ASSUME NEW K, K \subseteq ChunkRecord, IsFiniteSet(K)
  PROVE  /\ IsChunkVector(Recount(K))
         /\ DOMAIN Recount(K) = K
         /\ \A k \in K : Recount(K)[k] = CidCount(K, k.chunk_id)
<1>1. \A k \in K : CidCount(K, k.chunk_id) \in Nat
  BY CidCountType
<1> QED
  BY <1>1 DEF IsChunkVector, Recount

(* The count of the smallest chunk id is a number.                         *)
LEMMA FirstCountType ==
  ASSUME NEW K, IsFiniteSet(K)
  PROVE  FirstCount(K) \in Nat
BY CidCountType DEF FirstCount

(* A file record put together from parts of the right types is one.        *)
LEMMA FileRecordIntro ==
  ASSUME NEW h \in Hashes \cup {CutHash, NoHash}, NEW n \in Nat,
         NEW c, IsChunkVector(c)
  PROVE  IsFileRecord([file_hash |-> h, replica_count |-> n, chunks |-> c])
BY DEF IsFileRecord

(* The parts of a file record.                                             *)
LEMMA FileRecordParts ==
  ASSUME NEW rec, IsFileRecord(rec)
  PROVE  /\ rec = [file_hash |-> rec.file_hash, replica_count |-> rec.replica_count,
                   chunks |-> rec.chunks]
         /\ rec.file_hash \in Hashes \cup {CutHash, NoHash}
         /\ rec.replica_count \in Nat
         /\ IsChunkVector(rec.chunks)
         /\ DOMAIN rec.chunks \subseteq ChunkRecord
         /\ IsFiniteSet(DOMAIN rec.chunks)
BY DEF IsFileRecord, IsChunkVector

(* The records of a file that are not on a server.                         *)
LEMMA NotOnType ==
  ASSUME NEW rec, IsFileRecord(rec), NEW server
  PROVE  NotOn(rec, server) \subseteq ChunkRecord /\ IsFiniteSet(NotOn(rec, server))
<1>1. NotOn(rec, server) \in SUBSET DOMAIN rec.chunks
  BY DEF NotOn
<1> QED
  BY <1>1, FS_Subset, FileRecordParts

-----------------------------------------------------------------------------
(* The operations keep a store a store, with exact counts.                 *)
Sound(st) == IsStore(st) /\ Exact(st)

(* replace_file_chunks, with the counts collect_transfers supplies.        *)
LEMMA ReplaceFileChunksSound ==
  ASSUME NEW st, Sound(st), NEW f \in Files, NEW h \in Hashes, NEW K \in AllVectors
  PROVE  Sound(ReplaceFileChunks(st, f, h, Recount(K), ReplicationFactor))
<1> DEFINE c == [k \in K |-> IF Recount(K)[k] <= 0 THEN CidCount(K, k.chunk_id)
                             ELSE Recount(K)[k]]
           rec == [file_hash |-> h, replica_count |-> ReplicationFactor, chunks |-> c]
<1>1. K \subseteq ChunkRecord /\ IsFiniteSet(K)
  BY MetadataStoreAssumption
<1>2. DOMAIN Recount(K) = K
  BY <1>1, RecountIsVector
<1>3. c = Recount(K)
  BY <1>1, RecountIsVector DEF Recount
<1>4. ReplicationFactor \in Nat /\ ~(ReplicationFactor <= 0)
  BY MetadataStoreAssumption
<1>5. ReplaceFileChunks(st, f, h, Recount(K), ReplicationFactor)
        = [g \in DOMAIN st \cup {f} |-> IF g = f THEN rec ELSE st[g]]
  BY <1>2, <1>4 DEF ReplaceFileChunks
<1>6. IsFileRecord(rec)
  BY <1>1, <1>3, <1>4, RecountIsVector, FileRecordIntro
<1>7. \A k \in DOMAIN rec.chunks : rec.chunks[k] = CidCount(DOMAIN rec.chunks, k.chunk_id)
  BY <1>1, <1>3, RecountIsVector
<1> HIDE DEF rec
<1> QED
  BY <1>5, <1>6, <1>7 DEF Sound, IsStore, Exact

(* remove_file                                                             *)
LEMMA RemoveFileSound ==
  ASSUME NEW st, Sound(st), NEW f
  PROVE  Sound(RemoveFile(st, f))
BY DEF Sound, IsStore, Exact, RemoveFile

(* A record whose vector was recounted after a change.                     *)
LEMMA ReplaceServerSound ==
  ASSUME NEW rec, IsFileRecord(rec), NEW dead, NEW new \in AllVectors
  PROVE  LET r == ReplaceServer(rec, dead, new)
         IN /\ IsFileRecord(r)
            /\ \A k \in DOMAIN r.chunks : r.chunks[k] = CidCount(DOMAIN r.chunks, k.chunk_id)
<1> DEFINE K == NotOn(rec, dead) \cup new
           n == IF K # {} THEN FirstCount(K) ELSE rec.replica_count
<1>1. K \subseteq ChunkRecord /\ IsFiniteSet(K)
  BY NotOnType, MetadataStoreAssumption, FS_Union
<1>2. n \in Nat
  BY <1>1, FirstCountType, FileRecordParts
<1>3. ReplaceServer(rec, dead, new)
        = [file_hash |-> rec.file_hash, replica_count |-> n, chunks |-> Recount(K)]
  BY DEF ReplaceServer
<1> HIDE DEF K, n
<1>4. IsFileRecord([file_hash |-> rec.file_hash, replica_count |-> n, chunks |-> Recount(K)])
  BY <1>1, <1>2, RecountIsVector, FileRecordParts, FileRecordIntro
<1> QED
  BY <1>1, <1>3, <1>4, RecountIsVector

(* atomic_replace_server_chunks                                            *)
LEMMA AtomicReplaceSound ==
  ASSUME NEW st, Sound(st), NEW dead, NEW F, NEW updates \in [F -> AllVectors]
  PROVE  Sound(AtomicReplaceServerChunks(st, dead, updates))
<1>1. \A f \in DOMAIN st : IsFileRecord(st[f])
  BY DEF Sound, IsStore
<1>2. \A f \in DOMAIN updates : updates[f] \in AllVectors
  OBVIOUS
<1> QED
  BY <1>1, <1>2, ReplaceServerSound DEF Sound, IsStore, Exact, AtomicReplaceServerChunks

(* delete_server_metadata                                                  *)
LEMMA DeleteServerSound ==
  ASSUME NEW st, Sound(st), NEW server
  PROVE  Sound(DeleteServerMetadata(st, server))
<1> DEFINE R(f) == [st[f] EXCEPT !.chunks = Recount(NotOn(st[f], server))]
<1>1. ASSUME NEW f \in DOMAIN st
      PROVE  /\ IsFileRecord(R(f))
             /\ \A k \in DOMAIN R(f).chunks :
                  R(f).chunks[k] = CidCount(DOMAIN R(f).chunks, k.chunk_id)
  <2> DEFINE K == NotOn(st[f], server)
  <2>1. IsFileRecord(st[f])
    BY DEF Sound, IsStore
  <2>2. K \subseteq ChunkRecord /\ IsFiniteSet(K)
    BY <2>1, NotOnType
  <2>3. R(f) = [file_hash |-> st[f].file_hash, replica_count |-> st[f].replica_count,
                chunks |-> Recount(K)]
    BY <2>1, FileRecordParts
  <2> HIDE DEF K, R
  <2>4. IsFileRecord([file_hash |-> st[f].file_hash, replica_count |-> st[f].replica_count,
                      chunks |-> Recount(K)])
    BY <2>1, <2>2, RecountIsVector, FileRecordParts, FileRecordIntro
  <2> QED
    BY <2>2, <2>3, <2>4, RecountIsVector
<1> HIDE DEF R
<1>2. DeleteServerMetadata(st, server) = [f \in DOMAIN st |-> R(f)]
  BY DEF DeleteServerMetadata, R
<1> QED
  BY <1>1, <1>2 DEF Sound, IsStore, Exact

-----------------------------------------------------------------------------
(* The image persist_locked writes is well formed.                         *)
LEMMA PersistLockedType ==
  ASSUME NEW st, IsStore(st)
  PROVE  IsStore(PersistLocked(st))
BY DEF IsStore, PersistLocked

(* load_from_disk makes a sound store of any well-formed image, whatever   *)
(* counts the image states: this is where exactness is restored.           *)
LEMMA LoadFromDiskSound ==
  ASSUME NEW image, IsStore(image)
  PROVE  Sound(LoadFromDisk(image))
<1> DEFINE K(f) == DOMAIN image[f].chunks
           n(f) == IF image[f].replica_count <= 0 /\ K(f) # {}
                   THEN FirstCount(K(f)) ELSE image[f].replica_count
           R(f) == [file_hash |-> image[f].file_hash, replica_count |-> n(f),
                    chunks |-> Recount(K(f))]
<1>1. ASSUME NEW f \in DOMAIN image
      PROVE  /\ IsFileRecord(R(f))
             /\ \A k \in DOMAIN R(f).chunks :
                  R(f).chunks[k] = CidCount(DOMAIN R(f).chunks, k.chunk_id)
  <2>1. IsFileRecord(image[f])
    BY DEF IsStore
  <2>2. K(f) \subseteq ChunkRecord /\ IsFiniteSet(K(f))
    BY <2>1, FileRecordParts
  <2>3. n(f) \in Nat
    BY <2>1, <2>2, FirstCountType, FileRecordParts
  <2> HIDE DEF K, n
  <2>4. IsFileRecord(R(f))
    BY <2>1, <2>2, <2>3, RecountIsVector, FileRecordParts, FileRecordIntro
  <2> QED
    BY <2>2, <2>4, RecountIsVector
<1> HIDE DEF R
<1>2. LoadFromDisk(image) = [f \in DOMAIN image |-> R(f)]
  BY DEF LoadFromDisk, R
<1> QED
  BY <1>1, <1>2 DEF Sound, IsStore, Exact

(* The lines of a file, cut anywhere, read as a well-formed record.        *)
LEMMA CutRecordsType ==
  ASSUME NEW rec, IsFileRecord(rec), NEW r \in CutRecords(rec)
  PROVE  IsFileRecord(r)
<1> DEFINE C == DOMAIN rec.chunks
<1>1. /\ rec.file_hash \in Hashes \cup {CutHash, NoHash}
      /\ rec.replica_count \in Nat
      /\ rec.chunks \in [C -> Nat]
      /\ C \subseteq ChunkRecord /\ IsFiniteSet(C)
  BY FileRecordParts DEF IsChunkVector
<1>2. ASSUME NEW h \in {CutHash, NoHash, rec.file_hash}
      PROVE  IsFileRecord(HashLine(h))
  <2>1. IsChunkVector([k \in {} |-> 0])
    BY FS_EmptySet DEF IsChunkVector
  <2> QED
    BY <1>1, <2>1, FileRecordIntro DEF HashLine
<1>3. ASSUME NEW K \in SUBSET C
      PROVE  IsFileRecord(SomeLines(rec, K))
  <2>1. IsChunkVector([k \in K |-> rec.chunks[k]])
    BY <1>1, FS_Subset DEF IsChunkVector
  <2> QED
    BY <1>1, <2>1, FileRecordIntro DEF SomeLines
<1>4. ASSUME NEW K \in SUBSET C, NEW l \in C
      PROVE  IsFileRecord(LastLineCut(rec, K, l))
  <2> DEFINE m == [l EXCEPT !.cut = TRUE]
  <2>1. m \in ChunkRecord
    BY <1>1 DEF ChunkRecord
  <2>2. K \ {l} \subseteq ChunkRecord /\ IsFiniteSet(K \ {l})
    <3>1. K \ {l} \in SUBSET C
      OBVIOUS
    <3> QED
      BY <1>1, <3>1, FS_Subset
  <2> HIDE DEF m
  <2>3. IsFiniteSet((K \ {l}) \cup {m})
    BY <2>2, FS_AddElement
  <2>4. IsChunkVector([k \in (K \ {l}) \cup {m} |-> 1])
    BY <2>1, <2>2, <2>3 DEF IsChunkVector
  <2> QED
    BY <1>1, <2>4, FileRecordIntro DEF LastLineCut, m
<1>5. \/ \E h \in {CutHash, NoHash, rec.file_hash} : r = HashLine(h)
      \/ \E K \in SUBSET C : r = SomeLines(rec, K)
      \/ \E K \in SUBSET C, l \in C : r = LastLineCut(rec, K, l)
  <2>1. \/ r \in {HashLine(h) : h \in IF rec.file_hash = NoHash THEN {}
                                      ELSE {CutHash, NoHash, rec.file_hash}}
        \/ r \in {SomeLines(rec, K) : K \in SUBSET C}
        \/ r \in {LastLineCut(rec, K, l) : K \in SUBSET C, l \in C}
    BY SMT DEF CutRecords
  <2> QED
    BY <2>1
<1> QED
  BY <1>2, <1>3, <1>4, <1>5

(* A rewrite that stops half way leaves a well-formed image.               *)
LEMMA CutImagesType ==
  ASSUME NEW st, IsStore(st), NEW image \in CutImages(st)
  PROVE  IsStore(image)
<1> DEFINE all == PersistLocked(st)
<1>1. IsStore(all)
  BY PersistLockedType
<1>2. PICK W \in SUBSET DOMAIN all :
        \/ image = WholeFiles(all, W)
        \/ \E g \in DOMAIN all \ W : \E r \in CutRecords(all[g]) :
             image = OneCut(all, W, g, r)
  <2> DEFINE Cuts(W) == UNION {{OneCut(all, W, g, r) : r \in CutRecords(all[g])} :
                                 g \in DOMAIN all \ W}
  <2>1. PICK W \in SUBSET DOMAIN all : image \in {WholeFiles(all, W)} \cup Cuts(W)
    BY Zenon DEF CutImages
  <2>2. image \in Cuts(W) => \E g \in DOMAIN all \ W : \E r \in CutRecords(all[g]) :
                               image = OneCut(all, W, g, r)
    OBVIOUS
  <2> QED
    BY <2>1, <2>2
<1> HIDE DEF all
<1>3. CASE image = WholeFiles(all, W)
  BY <1>1, <1>3 DEF IsStore, WholeFiles
<1>4. ASSUME NEW g \in DOMAIN all \ W, NEW r \in CutRecords(all[g]),
             image = OneCut(all, W, g, r)
      PROVE  IsStore(image)
  <2>1. IsFileRecord(r)
    BY <1>1, CutRecordsType DEF IsStore
  <2> QED
    BY <1>1, <1>4, <2>1 DEF IsStore, OneCut
<1> QED
  BY <1>2, <1>3, <1>4

-----------------------------------------------------------------------------
(* The inductive invariant: well-formed state, and exact counts in memory. *)
(* Nothing is asked of the counts on disk, which a cut file need not have  *)
(* right.                                                                  *)
IInv == TypeOK /\ CountsExact

(* Every initial state satisfies the invariant.                            *)
LEMMA InitIInv == Init => IInv
BY DEF Init, NoFiles, IInv, TypeOK, CountsExact, Exact, IsStore

(* Every step preserves the invariant, action by action.                   *)
LEMMA NextIInv == IInv /\ [Next]_vars => IInv'
<1> SUFFICES ASSUME IInv, [Next]_vars PROVE IInv'
  OBVIOUS
<1> USE DEF IInv, TypeOK, CountsExact
<1>0. Sound(store)
  BY DEF Sound
<1>a. ASSUME NEW st, Sound(st), Change(st) PROVE IInv'
  BY <1>a DEF Change, Sound
<1>1. CASE \E f \in Files, h \in Hashes, K \in AllVectors : Fresh(f, K) /\ CreateEntry(f, h, K)
  BY <1>0, <1>1, <1>a, ReplaceFileChunksSound DEF CreateEntry
<1>2. CASE \E f \in Files : DeleteEntry(f)
  BY <1>0, <1>2, <1>a, RemoveFileSound DEF DeleteEntry
<1>3. CASE \E dead \in Servers, F \in SUBSET Files : \E updates \in [F -> AllVectors] :
             AtomicReplace(dead, updates)
  BY <1>0, <1>3, <1>a, AtomicReplaceSound DEF AtomicReplace
<1>4. CASE \E server \in Servers : DeleteServer(server)
  BY <1>0, <1>4, <1>a, DeleteServerSound DEF DeleteServer
<1>5. CASE PersistDone
  BY <1>5, PersistLockedType DEF PersistDone
<1>6. CASE PersistOpenFails
  BY <1>6 DEF PersistOpenFails
<1>7. CASE PersistWriteFails
  BY <1>7, CutImagesType DEF PersistWriteFails
<1>8. CASE CrashIdle
  BY <1>8 DEF CrashIdle
<1>9. CASE CrashWriting
  BY <1>9, CutImagesType DEF CrashWriting
<1>10. CASE Restart
  BY <1>10, LoadFromDiskSound DEF Restart, Sound
<1>11. CASE UNCHANGED vars
  BY <1>11 DEF vars
<1> QED
  BY <1>1, <1>2, <1>3, <1>4, <1>5, <1>6, <1>7, <1>8, <1>9, <1>10, <1>11 DEF Next

(* Memory and database file are well formed in every reachable state.      *)
THEOREM TypeCorrect == Spec => []TypeOK
<1>1. IInv => TypeOK
  BY DEF IInv
<1> QED
  BY <1>1, InitIInv, NextIInv, PTL DEF Spec

(* Replica counts are exact in every reachable state: no mixture of        *)
(* uploads, deletions, failovers, I/O errors, crashes and restarts makes a *)
(* record state a number of replicas the store does not know of.           *)
THEOREM CountsAlwaysExact == Spec => []CountsExact
<1>1. IInv => CountsExact
  BY DEF IInv
<1> QED
  BY <1>1, InitIInv, NextIInv, PTL DEF Spec

-----------------------------------------------------------------------------
(* A vector with a record has a smallest chunk id, with a positive count   *)
(* (cid_counts.begin()->second).                                           *)
LEMMA FirstCountPositive ==
  ASSUME NEW K, K \subseteq ChunkRecord, IsFiniteSet(K), K # {}
  PROVE  FirstCount(K) > 0
<1> DEFINE Cids == {k.chunk_id : k \in K}
           Smallest(c) == /\ \E k \in K : k.chunk_id = c
                          /\ \A k \in K : c <= k.chunk_id
<1>1. Cids \subseteq Nat /\ Cids \subseteq ChunkIds
  BY MetadataAssumption DEF ChunkRecord
<1>2. \E c \in ChunkIds : Smallest(c)
  <2>1. PICK some \in Cids : TRUE
    OBVIOUS
  <2>2. PICK m \in Cids : \A n \in Cids : m <= n
    <3> DEFINE Less == {ss \in Nat \X Nat : ss[1] < ss[2]}
    <3>1. IsWellFoundedOn(Less, Nat)
      BY NatLessThanWellFounded DEF OpToRel
    <3>2. \E m \in Cids : \A n \in Cids : ~(<<n, m>> \in Less)
      <4> HIDE DEF Less, Cids
      <4> QED
        BY <1>1, <2>1, <3>1, WFMin
    <3>3. ASSUME NEW a \in Nat, NEW b \in Nat, ~(<<a, b>> \in Less)
          PROVE  b <= a
      BY <3>3
    <3> HIDE DEF Less, Cids
    <3> QED
      BY <1>1, <3>2, <3>3
  <2> QED
    BY <1>1, <2>2
<1>3. PICK c \in ChunkIds : Smallest(c) /\ FirstCount(K) = CidCount(K, c)
  BY <1>2 DEF FirstCount
<1>4. {k \in K : k.chunk_id = c} # {} /\ {k \in K : k.chunk_id = c} \in SUBSET K
  BY <1>3
<1>5. IsFiniteSet({k \in K : k.chunk_id = c})
  BY <1>4, FS_Subset
<1> QED
  BY <1>3, <1>4, <1>5, FS_EmptySet, FS_CardinalityType DEF CidCount

(* A file with chunk records has a positive replica_count, so that         *)
(* load_from_disk does not fill it in.                                     *)
Counted(rec) == DOMAIN rec.chunks # {} => rec.replica_count > 0
AllCounted(st) == \A f \in DOMAIN st : Counted(st[f])

LEMMA ReplaceFileChunksCounted ==
  ASSUME NEW st, AllCounted(st), NEW f, NEW h, NEW c
  PROVE  AllCounted(ReplaceFileChunks(st, f, h, c, ReplicationFactor))
<1>1. ReplicationFactor \in Nat /\ ReplicationFactor > 0 /\ ~(ReplicationFactor <= 0)
  BY MetadataStoreAssumption
<1> QED
  BY <1>1 DEF AllCounted, Counted, ReplaceFileChunks

LEMMA AtomicReplaceCounted ==
  ASSUME NEW st, IsStore(st), AllCounted(st), NEW dead, NEW F,
         NEW updates \in [F -> AllVectors]
  PROVE  AllCounted(AtomicReplaceServerChunks(st, dead, updates))
<1>1. ASSUME NEW rec, IsFileRecord(rec), NEW new \in AllVectors
      PROVE  Counted(ReplaceServer(rec, dead, new))
  <2> DEFINE K == NotOn(rec, dead) \cup new
  <2>1. K \subseteq ChunkRecord /\ IsFiniteSet(K)
    BY <1>1, NotOnType, MetadataStoreAssumption, FS_Union
  <2>2. /\ ReplaceServer(rec, dead, new).replica_count
             = IF K # {} THEN FirstCount(K) ELSE rec.replica_count
        /\ DOMAIN ReplaceServer(rec, dead, new).chunks = K
    BY DEF ReplaceServer, Recount
  <2> HIDE DEF K
  <2> QED
    BY <2>1, <2>2, FirstCountPositive DEF Counted
<1>2. \A f \in DOMAIN st : IsFileRecord(st[f])
  BY DEF IsStore
<1>3. \A f \in DOMAIN updates : updates[f] \in AllVectors
  OBVIOUS
<1> QED
  BY <1>1, <1>2, <1>3 DEF AllCounted, AtomicReplaceServerChunks

LEMMA DeleteServerCounted ==
  ASSUME NEW st, IsStore(st), AllCounted(st), NEW server
  PROVE  AllCounted(DeleteServerMetadata(st, server))
<1>1. ASSUME NEW f \in DOMAIN st
      PROVE  Counted([st[f] EXCEPT !.chunks = Recount(NotOn(st[f], server))])
  <2>1. IsFileRecord(st[f]) /\ Counted(st[f])
    BY DEF IsStore, AllCounted
  <2>2. LET r == [st[f] EXCEPT !.chunks = Recount(NotOn(st[f], server))]
        IN /\ r.replica_count = st[f].replica_count
           /\ DOMAIN r.chunks \subseteq DOMAIN st[f].chunks
    BY <2>1, FileRecordParts DEF Recount, NotOn
  <2> QED
    BY <2>1, <2>2 DEF Counted
<1> QED
  BY <1>1 DEF AllCounted, DeleteServerMetadata

LEMMA LoadFromDiskCounted ==
  ASSUME NEW image, IsStore(image)
  PROVE  AllCounted(LoadFromDisk(image))
<1>1. ASSUME NEW f \in DOMAIN image
      PROVE  Counted(LoadFromDisk(image)[f])
  <2> DEFINE K == DOMAIN image[f].chunks
  <2>1. IsFileRecord(image[f])
    BY DEF IsStore
  <2>2. K \subseteq ChunkRecord /\ IsFiniteSet(K) /\ image[f].replica_count \in Nat
    BY <2>1, FileRecordParts
  <2>3. /\ LoadFromDisk(image)[f].replica_count
             = IF image[f].replica_count <= 0 /\ K # {} THEN FirstCount(K)
               ELSE image[f].replica_count
        /\ DOMAIN LoadFromDisk(image)[f].chunks = K
    BY DEF LoadFromDisk, Recount
  <2> HIDE DEF K
  <2> QED
    BY <2>2, <2>3, FirstCountPositive DEF Counted
<1> QED
  BY <1>1 DEF AllCounted, LoadFromDisk

-----------------------------------------------------------------------------
(* load_from_disk is the inverse of persist_locked on stores with exact    *)
(* and positive counts.                                                    *)
LEMMA LoadAfterPersist ==
  ASSUME NEW st, Sound(st), AllCounted(st)
  PROVE  LoadFromDisk(PersistLocked(st)) = PersistLocked(st)
<1> DEFINE image == PersistLocked(st)
<1>1. /\ image = [f \in DOMAIN image |-> image[f]]
      /\ DOMAIN image \subseteq DOMAIN st
      /\ \A f \in DOMAIN image : image[f] = st[f]
  BY DEF PersistLocked
<1>2. ASSUME NEW f \in DOMAIN image
      PROVE  LoadFromDisk(image)[f] = image[f]
  <2> DEFINE K == DOMAIN image[f].chunks
  <2>1. /\ IsFileRecord(image[f]) /\ Counted(image[f])
        /\ \A k \in K : image[f].chunks[k] = CidCount(K, k.chunk_id)
    BY <1>1 DEF Sound, IsStore, Exact, AllCounted
  <2>2. Recount(K) = image[f].chunks
    <3>1. image[f].chunks = [k \in K |-> image[f].chunks[k]]
      BY <2>1, FileRecordParts DEF IsChunkVector
    <3> QED
      BY <2>1, <3>1 DEF Recount
  <2>3. ~(image[f].replica_count <= 0 /\ K # {})
    BY <2>1, FileRecordParts DEF Counted
  <2>4. LoadFromDisk(image)[f]
          = [file_hash |-> image[f].file_hash, replica_count |-> image[f].replica_count,
             chunks |-> image[f].chunks]
    BY <2>2, <2>3 DEF LoadFromDisk
  <2> QED
    BY <2>1, <2>4, FileRecordParts
<1>3. LoadFromDisk(image) = [f \in DOMAIN image |-> LoadFromDisk(image)[f]]
  BY DEF LoadFromDisk
<1> HIDE DEF image
<1>4. LoadFromDisk(image) = image
  BY <1>1, <1>2, <1>3
<1> QED
  BY <1>4 DEF image

(* The invariant that carries the two properties: they themselves, and the *)
(* counts that make persist_locked and load_from_disk inverse.             *)
DiskInv == IInv /\ AllCounted(store) /\ ReturnedIsRestored /\ NothingInvented

-----------------------------------------------------------------------------
(* What load_from_disk reads lies within what the image's lines say.       *)
LEMMA LoadWithin ==
  ASSUME NEW image, NEW big, Within(image, big)
  PROVE  Within(LoadFromDisk(image), big)
BY DEF Within, LoadFromDisk, Recount

(* A store lies within itself.                                             *)
LEMMA WithinSelf ==
  ASSUME NEW st
  PROVE  Within(st, st)
BY DEF Within

(* The lines of a file, cut anywhere, lie within its record.               *)
LEMMA CutRecordsWithin ==
  ASSUME NEW rec, IsFileRecord(rec), NEW r \in CutRecords(rec)
  PROVE  /\ r.file_hash \in {rec.file_hash, CutHash, NoHash}
         /\ \A k \in DOMAIN r.chunks : \E l \in DOMAIN rec.chunks : Uncut(k) = Uncut(l)
<1> DEFINE C == DOMAIN rec.chunks
<1>1. \/ \E h \in {CutHash, NoHash, rec.file_hash} : r = HashLine(h)
      \/ \E K \in SUBSET C : r = SomeLines(rec, K)
      \/ \E K \in SUBSET C, l \in C : r = LastLineCut(rec, K, l)
  <2>1. \/ r \in {HashLine(h) : h \in IF rec.file_hash = NoHash THEN {}
                                      ELSE {CutHash, NoHash, rec.file_hash}}
        \/ r \in {SomeLines(rec, K) : K \in SUBSET C}
        \/ r \in {LastLineCut(rec, K, l) : K \in SUBSET C, l \in C}
    BY SMT DEF CutRecords
  <2> QED
    BY <2>1
<1>2. ASSUME NEW h \in {CutHash, NoHash, rec.file_hash}, r = HashLine(h)
      PROVE  r.file_hash = h /\ DOMAIN r.chunks = {}
  BY <1>2 DEF HashLine
<1>3. ASSUME NEW K \in SUBSET C, r = SomeLines(rec, K)
      PROVE  r.file_hash = rec.file_hash /\ DOMAIN r.chunks = K
  BY <1>3 DEF SomeLines
<1>4. ASSUME NEW K \in SUBSET C, NEW l \in C, r = LastLineCut(rec, K, l)
      PROVE  /\ r.file_hash = rec.file_hash
             /\ \A k \in DOMAIN r.chunks : k \in C \/ Uncut(k) = Uncut(l)
  <2>1. l \in ChunkRecord
    BY FileRecordParts
  <2>2. Uncut([l EXCEPT !.cut = TRUE]) = Uncut(l)
    BY <2>1 DEF ChunkRecord, Uncut
  <2>3. DOMAIN r.chunks = (K \ {l}) \cup {[l EXCEPT !.cut = TRUE]}
    BY <1>4 DEF LastLineCut
  <2> QED
    BY <1>4, <2>2, <2>3 DEF LastLineCut
<1> QED
  BY <1>1, <1>2, <1>3, <1>4

(* A rewrite that stops half way leaves an image within the store.         *)
LEMMA CutImagesWithin ==
  ASSUME NEW st, IsStore(st), NEW image \in CutImages(st)
  PROVE  Within(image, st)
<1> DEFINE all == PersistLocked(st)
<1>1. /\ DOMAIN all \subseteq DOMAIN st
      /\ \A f \in DOMAIN all : all[f] = st[f] /\ IsFileRecord(all[f])
  BY DEF PersistLocked, IsStore
<1>2. PICK W \in SUBSET DOMAIN all :
        \/ image = WholeFiles(all, W)
        \/ \E g \in DOMAIN all \ W : \E r \in CutRecords(all[g]) :
             image = OneCut(all, W, g, r)
  <2> DEFINE Cuts(W) == UNION {{OneCut(all, W, g, r) : r \in CutRecords(all[g])} :
                                 g \in DOMAIN all \ W}
  <2>1. PICK W \in SUBSET DOMAIN all : image \in {WholeFiles(all, W)} \cup Cuts(W)
    BY Zenon DEF CutImages
  <2>2. image \in Cuts(W) => \E g \in DOMAIN all \ W : \E r \in CutRecords(all[g]) :
                               image = OneCut(all, W, g, r)
    OBVIOUS
  <2> QED
    BY <2>1, <2>2
<1> HIDE DEF all
<1>3. CASE image = WholeFiles(all, W)
  <2>1. DOMAIN image = W /\ \A f \in W : image[f] = st[f] /\ f \in DOMAIN st
    BY <1>1, <1>3 DEF WholeFiles
  <2> QED
    BY <2>1 DEF Within
<1>4. ASSUME NEW g \in DOMAIN all \ W, NEW r \in CutRecords(all[g]),
             image = OneCut(all, W, g, r)
      PROVE  Within(image, st)
  <2>1. /\ r.file_hash \in {st[g].file_hash, CutHash, NoHash}
        /\ \A k \in DOMAIN r.chunks : \E l \in DOMAIN st[g].chunks : Uncut(k) = Uncut(l)
    BY <1>1, CutRecordsWithin
  <2>2. /\ DOMAIN image = W \cup {g} /\ g \in DOMAIN st /\ image[g] = r
        /\ \A f \in W : image[f] = st[f] /\ f \in DOMAIN st
    BY <1>1, <1>4 DEF OneCut
  <2> QED
    BY <2>1, <2>2 DEF Within
<1> QED
  BY <1>2, <1>3, <1>4

-----------------------------------------------------------------------------
LEMMA InitDiskInv == Init => DiskInv
<1> SUFFICES ASSUME Init PROVE DiskInv
  OBVIOUS
<1>1. LoadFromDisk(NoFiles) = NoFiles
  BY DEF LoadFromDisk, NoFiles
<1> QED
  BY <1>1, InitIInv, WithinSelf
  DEF DiskInv, Init, ReturnedIsRestored, NothingInvented, AllCounted, NoFiles

(* Every step preserves the invariant, action by action.                   *)
LEMMA NextDiskInv == DiskInv /\ [Next]_vars => DiskInv'
<1> SUFFICES ASSUME DiskInv, [Next]_vars PROVE DiskInv'
  OBVIOUS
<1>0. IInv'
  BY NextIInv DEF DiskInv
<1>s. /\ Sound(store) /\ AllCounted(store) /\ IsStore(store) /\ IsStore(disk)
      /\ ReturnedIsRestored /\ NothingInvented
  BY DEF DiskInv, IInv, TypeOK, CountsExact, Sound
<1>a. ASSUME NEW st, AllCounted(st), Change(st) PROVE DiskInv'
  BY <1>0, <1>s, <1>a DEF Change, DiskInv, ReturnedIsRestored, NothingInvented
<1>1. CASE \E f \in Files, h \in Hashes, K \in AllVectors : CreateEntry(f, h, K)
  BY <1>s, <1>1, <1>a, ReplaceFileChunksCounted DEF CreateEntry
<1>2. CASE \E f \in Files : DeleteEntry(f)
  <2>1. \A f \in Files : AllCounted(RemoveFile(store, f))
    BY <1>s DEF AllCounted, RemoveFile
  <2> QED
    BY <1>2, <1>a, <2>1 DEF DeleteEntry
<1>3. CASE \E dead \in Servers, F \in SUBSET Files : \E updates \in [F -> AllVectors] :
             AtomicReplace(dead, updates)
  BY <1>s, <1>3, <1>a, AtomicReplaceCounted DEF AtomicReplace
<1>4. CASE \E server \in Servers : DeleteServer(server)
  BY <1>s, <1>4, <1>a, DeleteServerCounted DEF DeleteServer
<1>5. CASE PersistDone
  <2>1. LoadFromDisk(disk') = PersistLocked(store) /\ store' = store /\ written' = store
    BY <1>s, <1>5, LoadAfterPersist DEF PersistDone
  <2>2. Within(PersistLocked(store), store)
    BY DEF Within, PersistLocked
  <2>3. ReturnedIsRestored'
    BY <2>1 DEF ReturnedIsRestored, PersistLocked
  <2> QED
    BY <1>0, <1>s, <2>1, <2>2, <2>3 DEF DiskInv, NothingInvented
<1>6. CASE PersistOpenFails
  BY <1>0, <1>s, <1>6 DEF PersistOpenFails, DiskInv, ReturnedIsRestored, NothingInvented
<1>7. CASE PersistWriteFails
  <2>1. disk' \in CutImages(store) /\ written' = store /\ store' = store /\ faulted'
    BY <1>7 DEF PersistWriteFails
  <2>2. Within(LoadFromDisk(disk'), store)
    BY <1>s, <2>1, CutImagesWithin, LoadWithin
  <2> QED
    BY <1>0, <1>s, <2>1, <2>2 DEF DiskInv, ReturnedIsRestored, NothingInvented
<1>8. CASE CrashIdle
  BY <1>0, <1>s, <1>8 DEF CrashIdle, DiskInv, ReturnedIsRestored, NothingInvented
<1>9. CASE CrashWriting
  <2>1. disk' \in CutImages(store) /\ written' = store /\ store' = store /\ phase' = "down"
    BY <1>9 DEF CrashWriting
  <2>2. Within(LoadFromDisk(disk'), store)
    BY <1>s, <2>1, CutImagesWithin, LoadWithin
  <2> QED
    BY <1>0, <1>s, <2>1, <2>2 DEF DiskInv, ReturnedIsRestored, NothingInvented
<1>10. CASE Restart
  <2>1. /\ store' = LoadFromDisk(disk) /\ written' = LoadFromDisk(disk) /\ disk' = disk
    BY <1>10 DEF Restart
  <2>2. AllCounted(store')
    BY <1>s, <2>1, LoadFromDiskCounted
  <2> QED
    BY <1>0, <2>1, <2>2, WithinSelf DEF DiskInv, ReturnedIsRestored, NothingInvented
<1>11. CASE UNCHANGED vars
  BY <1>0, <1>s, <1>11 DEF vars, DiskInv, ReturnedIsRestored, NothingInvented
<1> QED
  BY <1>1, <1>2, <1>3, <1>4, <1>5, <1>6, <1>7, <1>8, <1>9, <1>10, <1>11 DEF Next

(* Whatever operations, I/O errors, crashes and restarts came before, an   *)
(* operation that has returned without an I/O error is what a restart      *)
(* brings back.                                                            *)
THEOREM ReturnedAlwaysRestored == Spec => []ReturnedIsRestored
<1>1. DiskInv => ReturnedIsRestored
  BY DEF DiskInv
<1> QED
  BY <1>1, InitDiskInv, NextDiskInv, PTL DEF Spec

(* No rewrite cut short, and no sequence of them, brings back a file, a    *)
(* hash or a record that the map it was written from did not hold.         *)
THEOREM NeverInvented == Spec => []NothingInvented
<1>1. DiskInv => NothingInvented
  BY DEF DiskInv
<1> QED
  BY <1>1, InitDiskInv, NextDiskInv, PTL DEF Spec
==============================================================================
