----------------------------- MODULE GridProofs -----------------------------
(***************************************************************************)
(* For every set of files, servers, chunks and requests: what downloads    *)
(* deliver and what failovers may not do, then the shape of the whole      *)
(* state, then that downloads of a clean version succeed.                  *)
(***************************************************************************)
EXTENDS Grid, FiniteSetTheorems, TLAPS

(* Most leaves are first-order and left to Zenon; the others name SMT.     *)
USE Zenon

(* Upload u of file f has its metadata in the store, or had it.            *)
Committed(u, f) == /\ u \in Uploads
                   /\ FileOf[u] = f
                   /\ upload[u].pc = "success"

(* The shape of the sessions, as far as the proofs look into them.         *)
Sessions ==
  /\ DOMAIN upload = Uploads
  /\ \A u \in Uploads : "pc" \in DOMAIN upload[u]
  /\ DOMAIN download = Downloads
  /\ \A d \in Downloads :
       /\ "pc" \in DOMAIN download[d]
       /\ download[d].pc \in {"asking", "fetching"} => "file_hash" \in DOMAIN download[d]

(* Every hash in the store, and every one a download works with, is of a   *)
(* committed upload of that file.                                          *)
StoreCommitted == \A f \in DOMAIN store : /\ "file_hash" \in DOMAIN store[f]
                                          /\ Committed(store[f].file_hash, f)
SnapshotCommitted ==
  \A d \in Downloads : download[d].pc \in {"asking", "fetching"} =>
    Committed(download[d].file_hash, FileOf[d])

Inv == Sessions /\ StoreCommitted /\ SnapshotCommitted /\ DownloadedIsCommitted

(* What a step may do to committed uploads, to the store and to downloads. *)
UploadsKept == /\ DOMAIN upload' = Uploads
               /\ \A u \in Uploads : "pc" \in DOMAIN upload'[u]
               /\ \A u \in Uploads : upload[u].pc = "success" => upload'[u] = upload[u]
Stored(f, u) == /\ u \in Uploads /\ FileOf[u] = f
                /\ upload[u].pc # "success" /\ upload'[u].pc = "success"
StoreFromUploads ==
  \A f \in DOMAIN store' :
    /\ "file_hash" \in DOMAIN store'[f]
    /\ \/ f \in DOMAIN store /\ store'[f].file_hash = store[f].file_hash
       \/ Stored(f, store'[f].file_hash)
Snapshot(d) == download'[d].pc \in {"asking", "fetching"} =>
  /\ "file_hash" \in DOMAIN download'[d]
  /\ \/ /\ download[d].pc \in {"asking", "fetching"}
        /\ download'[d].file_hash = download[d].file_hash
     \/ FileOf[d] \in DOMAIN store /\ download'[d].file_hash = store[FileOf[d]].file_hash
Delivered(d) == download'[d].pc = "ok" =>
  \/ download'[d] = download[d]
  \/ /\ download[d].pc = "fetching"
     /\ download'[d].file = Content(download[d].file_hash)
DownloadsFromStore == /\ DOMAIN download' = Downloads
                      /\ \A d \in Downloads : /\ "pc" \in DOMAIN download'[d]
                                              /\ Snapshot(d) /\ Delivered(d)

-----------------------------------------------------------------------------
(* The two store operations of a failover leave every file's hash alone    *)
(* and make no file.                                                       *)
LEMMA FailoverKeepsHashes ==
  ASSUME StoreCommitted, NEW dead, NEW updates,
         NEW new \in {AtomicReplaceServerChunks(store, dead, updates),
                      DeleteServerMetadata(store, dead)}
  PROVE  /\ DOMAIN new = DOMAIN store
         /\ \A f \in DOMAIN store : /\ "file_hash" \in DOMAIN new[f]
                                    /\ new[f].file_hash = store[f].file_hash
<1>1. CASE new = AtomicReplaceServerChunks(store, dead, updates)
  BY <1>1 DEF AtomicReplaceServerChunks, ReplaceServer, StoreCommitted
<1>2. CASE new = DeleteServerMetadata(store, dead)
  BY <1>2 DEF DeleteServerMetadata, StoreCommitted
<1> QED
  BY <1>1, <1>2

(* replace_file_chunks gives the file the upload's hash and leaves the     *)
(* other files alone.                                                      *)
LEMMA StoreMetadataHash ==
  ASSUME NEW u \in Uploads, NEW K
  PROVE  /\ DOMAIN StoreMetadata(u, K) = DOMAIN store \cup {FileOf[u]}
         /\ "file_hash" \in DOMAIN StoreMetadata(u, K)[FileOf[u]]
         /\ StoreMetadata(u, K)[FileOf[u]].file_hash = u
         /\ \A f \in DOMAIN store \ {FileOf[u]} : StoreMetadata(u, K)[f] = store[f]
BY DEF StoreMetadata, ReplaceFileChunks

(* So a step that stores the metadata of an upload adds a file, or a hash, *)
(* that this upload commits.                                               *)
LEMMA StoreMetadataCommits ==
  ASSUME Inv, NEW u \in Uploads, NEW K,
         store' = StoreMetadata(u, K), upload[u].pc # "success", upload'[u].pc = "success"
  PROVE  StoreFromUploads
<1> SUFFICES ASSUME NEW f \in DOMAIN store'
             PROVE  /\ "file_hash" \in DOMAIN store'[f]
                    /\ \/ f \in DOMAIN store /\ store'[f].file_hash = store[f].file_hash
                       \/ Stored(f, store'[f].file_hash)
  BY DEF StoreFromUploads
<1>1. CASE f = FileOf[u]
  BY <1>1, StoreMetadataHash DEF Stored
<1>2. CASE f # FileOf[u]
  <2>1. f \in DOMAIN store /\ store'[f] = store[f]
    BY <1>2 DEF StoreMetadata, ReplaceFileChunks
  <2> QED
    BY <2>1 DEF Inv, StoreCommitted
<1> QED
  BY <1>1, <1>2

(* Where a step leaves the store alone, or the downloads.                  *)
LEMMA Unchanged ==
  ASSUME Inv
  PROVE  /\ UNCHANGED upload => UploadsKept
         /\ UNCHANGED store => StoreFromUploads
         /\ UNCHANGED download => DownloadsFromStore
BY DEF Inv, Sessions, StoreCommitted, UploadsKept, StoreFromUploads, DownloadsFromStore,
       Snapshot, Delivered

(* An upload turns "success" in the step that stores its metadata, and     *)
(* stays so.                                                               *)
LEMMA UploadSteps ==
  ASSUME Inv, NEW u \in Uploads, UploadStep(u)
  PROVE  UploadsKept /\ StoreFromUploads /\ UNCHANGED download
<1>1. CASE StartUpload(u)
  <2>1. PICK empty \in BOOLEAN :
          upload' = [upload EXCEPT ![u] = [pc |-> IF empty THEN "success" ELSE "receiving",
                                           next |-> 0, empty |-> empty]]
    BY <1>1 DEF StartUpload
  <2>2. upload[u].pc = "idle"
    BY <1>1, SMT DEF StartUpload, Idle
  <2>3. UploadsKept
    BY <2>1, <2>2 DEF UploadsKept, Inv, Sessions
  <2>4. upload'[u].empty = empty /\ (empty => upload'[u].pc = "success")
    BY <2>1 DEF Inv, Sessions
  <2>5. StoreFromUploads
    <3>1. CASE empty
      <4>1. store' = StoreMetadata(u, {})
        BY <1>1, <2>4, <3>1 DEF StartUpload
      <4> QED
        BY <4>1, <2>2, <2>4, <3>1, StoreMetadataCommits
    <3>2. CASE ~empty
      <4>1. UNCHANGED store
        BY <1>1, <2>4, <3>2 DEF StartUpload
      <4> QED
        BY <4>1, Unchanged
    <3> QED
      BY <3>1, <3>2
  <2> QED
    BY <1>1, <2>3, <2>5 DEF StartUpload
<1>2. CASE ReceiveChunk(u)
  <2>1. UploadsKept
    BY <1>2 DEF ReceiveChunk, UploadsKept, Inv, Sessions
  <2> QED
    BY <1>2, <2>1, Unchanged DEF ReceiveChunk
<1>3. CASE AbortUpload(u)
  <2>1. UploadsKept
    BY <1>3 DEF AbortUpload, UploadsKept, Inv, Sessions
  <2> QED
    BY <1>3, <2>1, Unchanged DEF AbortUpload
<1>4. CASE FinishUpload(u)
  <2>1. UploadsKept
    BY <1>4 DEF FinishUpload, UploadsKept, Inv, Sessions
  <2>2. CASE Collected(u) = {}
    <3>1. UNCHANGED store
      BY <1>4, <2>2 DEF FinishUpload
    <3> QED
      BY <1>4, <2>1, <3>1, Unchanged DEF FinishUpload
  <2>3. CASE Collected(u) # {}
    <3>1. store' = StoreMetadata(u, Collected(u))
      BY <1>4, <2>3 DEF FinishUpload
    <3>2. upload[u].pc # "success" /\ upload'[u].pc = "success"
      BY <1>4, <2>3 DEF FinishUpload, Inv, Sessions
    <3>3. StoreFromUploads
      BY <3>1, <3>2, StoreMetadataCommits
    <3> QED
      BY <1>4, <2>1, <3>3 DEF FinishUpload
  <2> QED
    BY <2>2, <2>3
<1> QED
  BY <1>1, <1>2, <1>3, <1>4 DEF UploadStep

(* A download takes its hash from the store when it starts, keeps it, and  *)
(* ends well only with the content of the upload that has this hash.       *)
LEMMA DownloadSteps ==
  ASSUME Inv, NEW d \in Downloads, StartDownload(d) \/ DownloadStep(d)
  PROVE  DownloadsFromStore /\ UNCHANGED <<upload, store>>
<1> DEFINE Others == \A e \in Downloads \ {d} : download'[e] = download[e]
<1>1. ASSUME DOMAIN download' = Downloads, Others,
             "pc" \in DOMAIN download'[d], Snapshot(d), Delivered(d)
      PROVE  DownloadsFromStore
  BY <1>1 DEF DownloadsFromStore, Snapshot, Delivered, Inv, Sessions
<1>2. ASSUME NEW pc \in {"failed"}, Answer(d, pc)
      PROVE  DownloadsFromStore
  BY <1>1, <1>2 DEF Answer, Snapshot, Delivered, Inv, Sessions
<1>3. CASE StartDownload(d)
  <2>1. CASE FileOf[d] \in DOMAIN store
    BY <1>1, <1>3, <2>1, SMT DEF StartDownload, Snapshot, Delivered, Inv, Sessions
  <2>2. CASE FileOf[d] \notin DOMAIN store
    BY <1>2, <1>3, <2>2 DEF StartDownload
  <2> QED
    BY <1>3, <2>1, <2>2 DEF StartDownload
<1>4. CASE Decide(d)
  <2>1. CASE Answer(d, "failed")
    BY <1>2, <1>4, <2>1 DEF Decide
  <2>2. CASE ~Answer(d, "failed")
    <3> DEFINE cids == Cids(download[d].records)
               expect == [c \in cids |-> Majority(download[d].votes, c)]
               none == [c \in {} |-> 0]
    <3>1. PICK P, ported :
            download' = [download EXCEPT ![d] =
              [pc |-> "fetching", file_hash |-> download[d].file_hash, plan |-> P,
               ported |-> ported, expect |-> expect, left |-> cids, got |-> none]]
      BY <1>4, <2>2 DEF Decide
    <3> HIDE DEF cids, expect, none
    <3> QED
      BY <1>1, <1>4, <3>1 DEF Decide, Snapshot, Delivered, Inv, Sessions
  <2> QED
    BY <1>4, <2>1, <2>2 DEF Decide
<1>5. CASE FinishDownload(d)
  <2>1. CASE Answer(d, "failed")
    BY <1>2, <1>5, <2>1 DEF FinishDownload
  <2>2. CASE ~Answer(d, "failed")
    <3>1. /\ download[d].pc = "fetching"
          /\ download' = [download EXCEPT ![d] =
                            [pc |-> "ok", file |-> Content(download[d].file_hash)]]
      BY <1>5, <2>2 DEF FinishDownload
    <3> QED
      BY <1>1, <1>5, <3>1 DEF FinishDownload, Snapshot, Delivered, Inv, Sessions
  <2> QED
    BY <1>5, <2>1, <2>2 DEF FinishDownload
<1>6. ASSUME NEW k \in download[d].records, AskReplica(d, k)
      PROVE  DownloadsFromStore /\ UNCHANGED <<upload, store>>
  <2>1. PICK votes :
          download' = [download EXCEPT ![d].asked = @ \cup {k}, ![d].votes = votes]
            \/ download' = [download EXCEPT ![d].asked = @ \cup {k}]
    BY <1>6 DEF AskReplica
  <2> QED
    BY <1>1, <1>6, <2>1, SMT DEF AskReplica, Snapshot, Delivered, Inv, Sessions
<1>7. ASSUME NEW c \in download[d].left, GetChunk(d, c)
      PROVE  DownloadsFromStore /\ UNCHANGED <<upload, store>>
  <2>1. CASE Answer(d, "failed")
    BY <1>2, <1>7, <2>1 DEF GetChunk
  <2>2. CASE ~Answer(d, "failed")
    <3>1. PICK left, got :
            download' = [download EXCEPT ![d].left = left, ![d].got = got]
      BY <1>7, <2>2 DEF GetChunk
    <3> QED
      BY <1>1, <1>7, <3>1 DEF GetChunk, Snapshot, Delivered, Inv, Sessions
  <2> QED
    BY <1>7, <2>1, <2>2 DEF GetChunk
<1> QED
  BY <1>3, <1>4, <1>5, <1>6, <1>7 DEF DownloadStep, StartDownload, Decide, FinishDownload

(* Deletions take files away, failovers leave their names and hashes, and  *)
(* neither touches uploads or downloads; transfers, crashes and restarts   *)
(* do not touch the store.                                                 *)
LEMMA OtherSteps ==
  ASSUME Inv,
         \/ TransferStep
         \/ \E x \in Deletes : StartDelete(x) \/ DeleteStep(x)
         \/ \E s \in Failovers : RemoveServer(s) \/ FailoverStep(s)
         \/ \E s \in Servers : Crash(s) \/ Start(s) \/ AddServer(s)
  PROVE  StoreFromUploads /\ UNCHANGED <<upload, download>>
<1>1. CASE TransferStep
  BY <1>1, Unchanged DEF TransferStep, SendChunk, SendChunkFails
<1>2. ASSUME NEW x \in Deletes, StartDelete(x) \/ DeleteStep(x)
      PROVE  StoreFromUploads /\ UNCHANGED <<upload, download>>
  <2>1. CASE FinishDelete(x)
    <3>1. store' = store \/ store' = RemoveFile(store, FileOf[x])
      BY <2>1 DEF FinishDelete
    <3>2. StoreFromUploads
      BY <3>1 DEF RemoveFile, StoreFromUploads, Inv, StoreCommitted
    <3> QED
      BY <2>1, <3>2 DEF FinishDelete
  <2>2. CASE StartDelete(x)
    BY <2>2, Unchanged DEF StartDelete
  <2>3. ASSUME NEW k \in delete[x].left, DeleteChunk(x, k)
        PROVE  StoreFromUploads /\ UNCHANGED <<upload, download>>
    <3>1. UNCHANGED <<store, upload, download>>
      BY <2>3 DEF DeleteChunk
    <3> QED
      BY <3>1, Unchanged
  <2> QED
    BY <1>2, <2>1, <2>2, <2>3 DEF DeleteStep
<1>3. ASSUME NEW s \in Failovers, RemoveServer(s) \/ FailoverStep(s)
      PROVE  StoreFromUploads /\ UNCHANGED <<upload, download>>
  <2>1. CASE ReplaceChunks(s)
    BY <2>1, FailoverKeepsHashes, SMT DEF ReplaceChunks, StoreFromUploads, Inv
  <2>2. CASE DropServer(s)
    <3>1. store' = DeleteServerMetadata(store, s) /\ UNCHANGED <<upload, download>>
      BY <2>2 DEF DropServer
    <3>2. StoreFromUploads
      BY <3>1 DEF DeleteServerMetadata, StoreFromUploads, Inv, StoreCommitted
    <3> QED
      BY <3>1, <3>2
  <2>3. CASE StartFailover(s)
    BY <2>3, Unchanged DEF StartFailover
  <2>4. ASSUME NEW f \in failover[s].files, QueryFile(s, f)
        PROVE  StoreFromUploads /\ UNCHANGED <<upload, download>>
    BY <2>4, Unchanged DEF QueryFile
  <2>5. ASSUME NEW c \in failover[s].left, CopyChunk(s, c)
        PROVE  StoreFromUploads /\ UNCHANGED <<upload, download>>
    <3>1. UNCHANGED <<store, upload, download>>
      BY <2>5 DEF CopyChunk
    <3> QED
      BY <3>1, Unchanged
  <2>6. CASE RemoveServer(s)
    BY <2>6, Unchanged DEF RemoveServer
  <2>7. ASSUME NEW x \in failover[s].copy, RepairChunkOnServer(s, x)
        PROVE  StoreFromUploads /\ UNCHANGED <<upload, download>>
    <3>1. UNCHANGED <<store, upload, download>>
      BY <2>7 DEF RepairChunkOnServer
    <3> QED
      BY <3>1, Unchanged
  <2> QED
    BY <1>3, <2>1, <2>2, <2>3, <2>4, <2>5, <2>6, <2>7 DEF FailoverStep
<1>4. ASSUME NEW s \in Servers, Crash(s) \/ Start(s) \/ AddServer(s)
      PROVE  StoreFromUploads /\ UNCHANGED <<upload, download>>
  BY <1>4, Unchanged DEF Crash, Start, AddServer
<1> QED
  BY <1>1, <1>2, <1>3, <1>4

(* Hence of every step.                                                    *)
LEMMA EveryStep ==
  ASSUME Inv, [Next]_vars
  PROVE  UploadsKept /\ StoreFromUploads /\ DownloadsFromStore
<1>1. CASE UNCHANGED vars
  BY <1>1, Unchanged DEF vars
<1>2. CASE \E u \in Uploads : UploadStep(u)
  BY <1>2, UploadSteps, Unchanged
<1>3. CASE \E d \in Downloads : StartDownload(d) \/ DownloadStep(d)
  BY <1>3, DownloadSteps, Unchanged
<1> QED
  BY <1>1, <1>2, <1>3, OtherSteps, Unchanged DEF Next

LEMMA InitInv == Init => Inv
BY SMT DEF Init, Idle, Inv, Sessions, StoreCommitted, SnapshotCommitted, DownloadedIsCommitted

(* The invariant is inductive: a committed upload stays one, so does what  *)
(* the store and the downloads know of it.                                 *)
LEMMA NextInv ==
  ASSUME Inv, [Next]_vars
  PROVE  Inv'
<1>1. UploadsKept /\ StoreFromUploads /\ DownloadsFromStore
  BY EveryStep
<1>2. \A u, f : Committed(u, f) => Committed(u, f)' /\ Content(u)' = Content(u)
  BY <1>1 DEF Committed, Content, UploadsKept
<1>3. Sessions'
  BY <1>1 DEF Sessions, UploadsKept, DownloadsFromStore, Snapshot
<1>4. StoreCommitted'
  BY <1>1, <1>2, SMT DEF StoreFromUploads, Stored, Committed, Inv, StoreCommitted
<1>5. SnapshotCommitted'
  BY <1>1, <1>2 DEF DownloadsFromStore, Snapshot, Inv, StoreCommitted, SnapshotCommitted
<1>6. DownloadedIsCommitted'
  <2> SUFFICES ASSUME NEW d \in Downloads, download'[d].pc = "ok"
               PROVE  \E u \in Uploads : /\ FileOf[u] = FileOf[d]
                                         /\ upload'[u].pc = "success"
                                         /\ download'[d].file = Content(u)'
    BY DEF DownloadedIsCommitted
  <2>1. CASE download'[d] = download[d]
    <3>1. PICK u \in Uploads : /\ FileOf[u] = FileOf[d]
                               /\ upload[u].pc = "success"
                               /\ download[d].file = Content(u)
      BY <2>1 DEF Inv, DownloadedIsCommitted
    <3> QED
      BY <1>2, <2>1, <3>1 DEF Committed
  <2>2. CASE /\ download[d].pc = "fetching"
             /\ download'[d].file = Content(download[d].file_hash)
    <3>1. Committed(download[d].file_hash, FileOf[d])
      BY <2>2 DEF Inv, SnapshotCommitted
    <3> QED
      BY <1>2, <2>2, <3>1 DEF Committed
  <2> QED
    BY <1>1, <2>1, <2>2 DEF DownloadsFromStore, Delivered
<1> QED
  BY <1>3, <1>4, <1>5, <1>6 DEF Inv

-----------------------------------------------------------------------------
(* For every set of files, servers and requests, any number of crashes and *)
(* lost exchanges: a download that succeeds delivers the whole content of  *)
(* one committed upload of its file (the checks of file_download against   *)
(* the hash in the metadata).                                              *)
THEOREM OnlyCommittedIsDownloaded == Spec => []DownloadedIsCommitted
<1>1. Inv => DownloadedIsCommitted
  BY DEF Inv
<1>2. Inv /\ [Next]_vars => Inv'
  BY NextInv
<1> QED
  BY <1>1, <1>2, InitInv, PTL DEF Spec

(* For every set of files, servers and requests: no step but an upload's   *)
(* commit makes a file in the metadata; a failover working from an old     *)
(* list, or a deletion, does not (atomic_replace_server_chunks).           *)
THEOREM NeverResurrected == Spec => NoResurrection
<1>1. Inv /\ [Next]_vars =>
        [\A f \in DOMAIN store' \ DOMAIN store :
           \E u \in Uploads : /\ FileOf[u] = f
                              /\ upload[u].pc # "success" /\ upload'[u].pc = "success"]_vars
  BY EveryStep DEF StoreFromUploads, Stored
<1>2. Inv /\ [Next]_vars => Inv'
  BY NextInv
<1>3. Spec => []Inv
  BY <1>2, InitInv, PTL DEF Spec
<1> QED
  BY <1>1, <1>3, PTL DEF Spec, NoResurrection

-----------------------------------------------------------------------------
(* Types.  The store, the servers, the transfers and the sessions.         *)
Entries == [file : Files, chunk_id : ChunkIds, path : Paths]
ChunkFiles == [server : Servers, file : Files, chunk_id : ChunkIds, path : Paths]
Transfer == [upload : Uploads, chunk_id : ChunkIds, server : Servers,
             state : {"queued", "ok", "failed"}]

StoreTyped == DOMAIN store \subseteq Files /\ \A f \in DOMAIN store : IsFileRecord(store[f])

(* A registered path is a file of the server.                              *)
RegistryTyped(reg) ==
  /\ DOMAIN reg = Servers
  /\ \A s \in Servers : /\ reg[s] \subseteq Entries
                        /\ \A e \in reg[s] : FileAt(s, e.file, e.chunk_id, e.path) \in DOMAIN content

NodesTyped ==
  /\ RegistryTyped(registry)
  /\ DOMAIN content \subseteq ChunkFiles /\ \A x \in DOMAIN content : content[x] \in Uploads
  /\ up \subseteq Servers

TransfersTyped == transfers \subseteq Transfer /\ IsFiniteSet(transfers)

UploadShape(s) ==
  \/ s = Idle
  \/ /\ s \in [pc : {"receiving", "collecting", "success", "error"}, next : Nat, empty : BOOLEAN]
     /\ s.pc = "receiving" => s.next \in ChunkIds
     /\ s.pc \in {"receiving", "collecting"} => ~s.empty

Asking == [pc : {"asking"}, file_hash : Uploads, records : SUBSET ChunkRecord,
           asked : SUBSET ChunkRecord, votes : SUBSET [key : ChunkRecord, hash : Uploads]]

DownloadShape(s) ==
  \/ s = Idle
  \/ s = [pc |-> "failed"]
  \/ s = [pc |-> "ok", file |-> s.file]
  \/ s \in Asking /\ IsFiniteSet(s.records) /\ s.asked \subseteq s.records
  \/ s.pc = "fetching" /\ DOMAIN s = {"pc", "file_hash", "plan", "ported", "expect", "left", "got"}

DeleteShape(s) ==
  \/ s = Idle
  \/ s \in [pc : {"deleting", "success", "error"}, left : SUBSET ChunkRecord, all_deleted : BOOLEAN]

FailoverFields == {"pc", "healthy", "files", "records", "left", "file", "copy", "updates"}

(* What a failover has read and is about to store.                         *)
ChunkCopy == [chunk_id : ChunkIds, server : Servers, data : Uploads]

FailoverShape(s) ==
  \/ s = Idle
  \/ s = [pc |-> "removed"]
  \/ /\ DOMAIN s = FailoverFields
     /\ s.pc \in {"files", "repair", "drop", "done"}
     /\ s.healthy \subseteq Servers /\ s.files \subseteq Files
     /\ s.records \subseteq ChunkRecord /\ s.left \subseteq ChunkIds
     /\ s.copy \subseteq ChunkCopy
     /\ s.left # {} \/ s.copy # {} => s.file \in Files
     /\ DOMAIN s.updates \subseteq Files
     /\ \A f \in DOMAIN s.updates : s.updates[f] \subseteq ChunkRecord /\ IsFiniteSet(s.updates[f])

UploadsTyped == DOMAIN upload = Uploads /\ \A u \in Uploads : UploadShape(upload[u])
DownloadsTyped == DOMAIN download = Downloads /\ \A d \in Downloads : DownloadShape(download[d])
DeletesTyped == DOMAIN delete = Deletes /\ \A x \in Deletes : DeleteShape(delete[x])
FailoversTyped == DOMAIN failover = Failovers /\ \A s \in Failovers : FailoverShape(failover[s])

Shaped == /\ StoreTyped /\ NodesTyped /\ TransfersTyped
          /\ UploadsTyped /\ DownloadsTyped /\ DeletesTyped /\ FailoversTyped

EntryTyped == entry \in [Servers -> {"none", "bare", "ports"}]

LEMMA ShapedTypes == Shaped /\ EntryTyped => TypeOK
BY DEF EntryTyped, Shaped, StoreTyped, NodesTyped, RegistryTyped, TransfersTyped, TypeOK, Entries, ChunkFiles,
       Transfer

LEMMA Constants ==
  /\ Hashes = Uploads /\ Uploads \subseteq Nat /\ Uploads \subseteq Paths /\ Failovers \subseteq Paths
  /\ Failovers \subseteq Servers /\ IsFiniteSet(Servers) /\ 0 \in ChunkIds /\ ChunkIds \subseteq Nat
  /\ \A u \in Uploads : FileOf[u] \in Files
  /\ \A d \in Downloads : FileOf[d] \in Files
  /\ \A x \in Deletes : FileOf[x] \in Files
  /\ ReplicationFactor \in Nat /\ ~(ReplicationFactor <= 0)
BY GridAssumption, MetadataAssumption, SMT

-----------------------------------------------------------------------------
(* File records, as in the store.                                          *)
LEMMA CountType ==
  ASSUME NEW K, IsFiniteSet(K), NEW c
  PROVE  CidCount(K, c) \in Nat
<1>1. {k \in K : k.chunk_id = c} \in SUBSET K
  OBVIOUS
<1>2. IsFiniteSet({k \in K : k.chunk_id = c})
  BY <1>1, FS_Subset
<1> QED
  BY <1>2, FS_CardinalityType DEF CidCount

LEMMA RecordType ==
  ASSUME NEW h \in Hashes \cup {CutHash, NoHash}, NEW n \in Nat, NEW K, K \subseteq ChunkRecord,
         IsFiniteSet(K), NEW counts \in [K -> Nat]
  PROVE  IsFileRecord([file_hash |-> h, replica_count |-> n, chunks |-> counts])
BY DEF IsFileRecord, IsChunkVector

LEMMA RecordsTyped ==
  ASSUME StoreTyped, NEW f
  PROVE  Records(f) \subseteq ChunkRecord /\ IsFiniteSet(Records(f))
BY FS_EmptySet DEF Records, StoreTyped, IsFileRecord, IsChunkVector

(* store_metadata                                                          *)
LEMMA StoreMetadataTyped ==
  ASSUME StoreTyped, NEW u \in Uploads, NEW K, K \subseteq ChunkRecord, IsFiniteSet(K),
         store' = StoreMetadata(u, K)
  PROVE  /\ StoreTyped'
         /\ DOMAIN store' = DOMAIN store \cup {FileOf[u]}
         /\ store'[FileOf[u]].file_hash = u /\ DOMAIN store'[FileOf[u]].chunks = K
         /\ \A f \in DOMAIN store \ {FileOf[u]} : store'[f] = store[f]
<1> DEFINE counts == [k \in K |-> IF Recount(K)[k] <= 0 THEN CidCount(K, k.chunk_id)
                                  ELSE Recount(K)[k]]
           rec == [file_hash |-> u, replica_count |-> ReplicationFactor, chunks |-> counts]
<1>1. \A k \in K : CidCount(K, k.chunk_id) \in Nat /\ Recount(K)[k] = CidCount(K, k.chunk_id)
  BY CountType DEF Recount
<1>2. counts \in [K -> Nat]
  BY <1>1
<1>3. DOMAIN Recount(K) = K
  BY DEF Recount
<1>4. store' = [g \in DOMAIN store \cup {FileOf[u]} |-> IF g = FileOf[u] THEN rec ELSE store[g]]
  BY <1>3, Constants DEF StoreMetadata, ReplaceFileChunks
<1> HIDE DEF counts
<1>5. IsFileRecord(rec)
  BY <1>2, Constants, RecordType
<1>6. rec.file_hash = u /\ DOMAIN rec.chunks = K
  BY <1>2
<1> HIDE DEF rec
<1> QED
  BY <1>4, <1>5, <1>6, Constants DEF StoreTyped

(* atomic_replace_server_chunks and delete_server_metadata                 *)
LEMMA ReplaceServerTyped ==
  ASSUME NEW rec, IsFileRecord(rec), NEW dead, NEW new, new \subseteq ChunkRecord, IsFiniteSet(new)
  PROVE  LET r == ReplaceServer(rec, dead, new)
         IN IsFileRecord(r) /\ r.file_hash = rec.file_hash /\ DOMAIN r.chunks = NotOn(rec, dead) \cup new
<1> DEFINE K == NotOn(rec, dead) \cup new
           n == IF K # {} THEN FirstCount(K) ELSE rec.replica_count
<1>1. /\ NotOn(rec, dead) \in SUBSET DOMAIN rec.chunks /\ DOMAIN rec.chunks \subseteq ChunkRecord
      /\ IsFiniteSet(DOMAIN rec.chunks) /\ rec.replica_count \in Nat
      /\ rec.file_hash \in Hashes \cup {CutHash, NoHash}
  BY DEF NotOn, IsFileRecord, IsChunkVector
<1>2. IsFiniteSet(NotOn(rec, dead))
  BY <1>1, FS_Subset
<1>3. K \subseteq ChunkRecord /\ IsFiniteSet(K)
  BY <1>1, <1>2, FS_Union
<1>4. n \in Nat
  BY <1>1, <1>3, CountType DEF FirstCount
<1>5. ReplaceServer(rec, dead, new) = [file_hash |-> rec.file_hash, replica_count |-> n, chunks |-> Recount(K)]
  BY DEF ReplaceServer
<1> HIDE DEF K, n
<1>6. Recount(K) \in [K -> Nat]
  BY <1>3, CountType DEF Recount
<1>7. IsFileRecord([file_hash |-> rec.file_hash, replica_count |-> n, chunks |-> Recount(K)])
  BY <1>1, <1>3, <1>4, <1>6, RecordType
<1> QED
  BY <1>5, <1>6, <1>7, SMT DEF K

LEMMA AtomicReplaceTyped ==
  ASSUME StoreTyped, NEW dead, NEW updates,
         \A f \in DOMAIN updates : updates[f] \subseteq ChunkRecord /\ IsFiniteSet(updates[f]),
         store' = AtomicReplaceServerChunks(store, dead, updates)
  PROVE  /\ StoreTyped' /\ DOMAIN store' = DOMAIN store
         /\ \A f \in DOMAIN store :
              /\ store'[f].file_hash = store[f].file_hash
              /\ \A k \in DOMAIN store'[f].chunks :
                   k \in DOMAIN store[f].chunks \/ (f \in DOMAIN updates /\ k \in updates[f])
<1>1. ASSUME NEW f \in DOMAIN store
      PROVE  /\ IsFileRecord(store'[f]) /\ store'[f].file_hash = store[f].file_hash
             /\ \A k \in DOMAIN store'[f].chunks :
                  k \in DOMAIN store[f].chunks \/ (f \in DOMAIN updates /\ k \in updates[f])
  <2>1. IsFileRecord(store[f])
    BY DEF StoreTyped
  <2>2. CASE f \in DOMAIN updates
    <3>1. store'[f] = ReplaceServer(store[f], dead, updates[f])
      BY <2>2 DEF AtomicReplaceServerChunks
    <3>2. NotOn(store[f], dead) \subseteq DOMAIN store[f].chunks
      BY DEF NotOn
    <3> QED
      BY <2>1, <2>2, <3>1, <3>2, ReplaceServerTyped, SMT
  <2>3. CASE f \notin DOMAIN updates
    BY <2>1, <2>3 DEF AtomicReplaceServerChunks
  <2> QED
    BY <2>2, <2>3
<1>2. DOMAIN store' = DOMAIN store
  BY DEF AtomicReplaceServerChunks
<1> QED
  BY <1>1, <1>2 DEF StoreTyped

LEMMA DeleteServerTyped ==
  ASSUME StoreTyped, NEW dead, store' = DeleteServerMetadata(store, dead)
  PROVE  /\ StoreTyped' /\ DOMAIN store' = DOMAIN store
         /\ \A f \in DOMAIN store : /\ store'[f].file_hash = store[f].file_hash
                                    /\ DOMAIN store'[f].chunks \subseteq DOMAIN store[f].chunks
<1>1. ASSUME NEW f \in DOMAIN store
      PROVE  /\ IsFileRecord(store'[f]) /\ store'[f].file_hash = store[f].file_hash
             /\ DOMAIN store'[f].chunks \subseteq DOMAIN store[f].chunks
  <2> DEFINE rec == store[f]
             K == NotOn(rec, dead)
  <2>1. /\ K \in SUBSET DOMAIN rec.chunks /\ DOMAIN rec.chunks \subseteq ChunkRecord
        /\ IsFiniteSet(DOMAIN rec.chunks) /\ rec.replica_count \in Nat
        /\ rec.file_hash \in Hashes \cup {CutHash, NoHash}
        /\ rec = [file_hash |-> rec.file_hash, replica_count |-> rec.replica_count, chunks |-> rec.chunks]
    BY DEF NotOn, StoreTyped, IsFileRecord, IsChunkVector
  <2>2. IsFiniteSet(K)
    BY <2>1, FS_Subset
  <2>3. store'[f] = [rec EXCEPT !.chunks = Recount(K)]
    BY DEF DeleteServerMetadata
  <2> HIDE DEF rec, K
  <2>4. Recount(K) \in [K -> Nat]
    BY <2>2, CountType DEF Recount
  <2>5. store'[f] = [file_hash |-> rec.file_hash, replica_count |-> rec.replica_count, chunks |-> Recount(K)]
    BY <2>1, <2>3
  <2>6. IsFileRecord(store'[f])
    BY <2>1, <2>2, <2>4, <2>5, RecordType
  <2> QED
    BY <2>1, <2>4, <2>5, <2>6, SMT DEF rec
<1>2. DOMAIN store' = DOMAIN store
  BY DEF DeleteServerMetadata
<1> QED
  BY <1>1, <1>2 DEF StoreTyped
-----------------------------------------------------------------------------
(* Registries.                                                             *)
Knows(reg, s, f, c) == \E e \in reg[s] : e.file = f /\ e.chunk_id = c

LEMMA ImageFinite ==
  ASSUME NEW S, IsFiniteSet(S), NEW F, F = [x \in S |-> F[x]]
  PROVE  IsFiniteSet({F[x] : x \in S})
<1>1. F \in Surjection(S, {F[x] : x \in S})
  BY DEF Surjection
<1> QED
  BY <1>1, FS_Surjection

LEMMA RegisterEntries ==
  ASSUME NEW reg, DOMAIN reg = Servers, \A r \in Servers : reg[r] \subseteq Entries,
         NEW s \in Servers, NEW f \in Files, NEW c \in ChunkIds, NEW p \in Paths
  PROVE  LET new == Register(reg, s, f, c, p)
         IN /\ DOMAIN new = Servers
            /\ \A r \in Servers : new[r] \subseteq Entries
            /\ \A r \in Servers : \A e \in Entries :
                 e \in new[r] <=> IF r = s /\ e.file = f /\ e.chunk_id = c THEN e.path = p
                                  ELSE e \in reg[r]
<1> DEFINE new == Register(reg, s, f, c, p)
           x == [file |-> f, chunk_id |-> c, path |-> p]
<1>1. /\ DOMAIN new = Servers
      /\ new[s] = {e \in reg[s] : ~(e.file = f /\ e.chunk_id = c)} \cup {x}
      /\ \A r \in Servers \ {s} : new[r] = reg[r]
  BY DEF Register
<1>2. x \in Entries /\ \A e \in Entries : e = x <=> e.file = f /\ e.chunk_id = c /\ e.path = p
  BY SMT DEF Entries
<1> HIDE DEF new, x
<1>3. \A r \in Servers : new[r] \subseteq Entries
  BY <1>1, <1>2
<1>4. x.file = f /\ x.chunk_id = c /\ x.path = p
  BY <1>2
<1>5. ASSUME NEW r \in Servers, NEW e \in Entries
      PROVE  e \in new[r] <=> IF r = s /\ e.file = f /\ e.chunk_id = c THEN e.path = p
                              ELSE e \in reg[r]
  <2>1. CASE r # s
    BY <1>1, <2>1
  <2>2. CASE r = s
    BY <1>1, <1>2, <1>4, <2>2
  <2> QED
    BY <2>1, <2>2
<1> QED
  BY <1>1, <1>3, <1>5 DEF new

(* What a retrieval is served from.                                        *)
LEMMA ServedPaths ==
  ASSUME NodesTyped, NEW k \in ChunkRecord, NEW f \in Files, NEW fallback \in SUBSET Paths
  PROVE  /\ \A p \in Served(k, f, fallback) :
              /\ p \in Paths /\ k.server \in up
              /\ FileAt(k.server, f, k.chunk_id, p) \in DOMAIN content
              /\ \/ \E e \in registry[k.server] : e.file = f /\ e.chunk_id = k.chunk_id /\ e.path = p
                 \/ ~Knows(registry, k.server, f, k.chunk_id) /\ p \in fallback
         /\ k.server \in up /\ Knows(registry, k.server, f, k.chunk_id) => Served(k, f, fallback) # {}
         /\ k.server \in up =>
              \A p \in fallback : FileAt(k.server, f, k.chunk_id, p) \in DOMAIN content
                                    => Served(k, f, fallback) # {}
<1> DEFINE known == RegisteredPaths(k.server, f, k.chunk_id)
<1>1. k.server \in Servers /\ k.chunk_id \in ChunkIds
  BY DEF ChunkRecord
<1>2. \A p : p \in known <=> \E e \in registry[k.server] : e.file = f /\ e.chunk_id = k.chunk_id /\ e.path = p
  BY DEF RegisteredPaths
<1>3. \A p \in known : p \in Paths /\ FileAt(k.server, f, k.chunk_id, p) \in DOMAIN content
  BY <1>1, <1>2, SMT DEF NodesTyped, RegistryTyped, Entries
<1>4. known = {} <=> ~Knows(registry, k.server, f, k.chunk_id)
  BY <1>2 DEF Knows
<1>5. Served(k, f, fallback) =
        IF k.server \notin up THEN {}
        ELSE IF known # {} THEN known
        ELSE {p \in fallback : FileAt(k.server, f, k.chunk_id, p) \in DOMAIN content}
  BY DEF Served
<1> HIDE DEF known
<1> QED
  BY <1>2, <1>3, <1>4, <1>5

LEMMA RetrievalEntries ==
  ASSUME NodesTyped, NEW k \in ChunkRecord, NEW f \in Files
  PROVE  LET R == AfterRetrieval(k, f)
         IN /\ RegistryTyped(R)
            /\ \A s \in Servers : \A e \in R[s] :
                 \/ e \in registry[s]
                 \/ /\ s = k.server /\ e.file = f /\ e.chunk_id = k.chunk_id /\ e.path = k.path
                    /\ ~Knows(registry, s, f, k.chunk_id)
                    /\ R # registry
            /\ \A s \in Servers : \A g, c : Knows(registry, s, g, c) => Knows(R, s, g, c)
            /\ Retrieved(k, f) # {} => Knows(R, k.server, f, k.chunk_id)
<1> DEFINE R == AfterRetrieval(k, f)
           found == Retrieved(k, f)
           p == CHOOSE q \in found : TRUE
<1>1. k.server \in Servers /\ k.chunk_id \in ChunkIds /\ k.path \in Paths
  BY DEF ChunkRecord
<1>2. CASE found = {}
  BY <1>2 DEF AfterRetrieval, NodesTyped
<1>3. CASE found # {}
  <2>1. p \in found /\ R = Register(registry, k.server, f, k.chunk_id, p)
    BY <1>3 DEF AfterRetrieval
  <2>2. /\ p \in Paths /\ FileAt(k.server, f, k.chunk_id, p) \in DOMAIN content
        /\ \/ \E e \in registry[k.server] : e.file = f /\ e.chunk_id = k.chunk_id /\ e.path = p
           \/ ~Knows(registry, k.server, f, k.chunk_id) /\ p = k.path
    <3>1. \A q \in found : q \in Served(k, f, {k.path})
      BY DEF Retrieved
    <3> HIDE DEF p, found
    <3> QED
      BY <1>1, <2>1, <3>1, ServedPaths, SMT
  <2> HIDE DEF R, p, found
  <2>3. DOMAIN registry = Servers /\ \A r \in Servers : registry[r] \subseteq Entries
    BY DEF NodesTyped, RegistryTyped
  <2>4. /\ DOMAIN R = Servers
        /\ \A r \in Servers : R[r] \subseteq Entries
        /\ \A r \in Servers : \A e \in Entries :
             e \in R[r] <=> IF r = k.server /\ e.file = f /\ e.chunk_id = k.chunk_id THEN e.path = p
                            ELSE e \in registry[r]
    BY <1>1, <2>1, <2>2, <2>3, RegisterEntries, SMT
  <2>5. RegistryTyped(R)
    BY <2>2, <2>3, <2>4 DEF NodesTyped, RegistryTyped
  <2>6. PICK x \in Entries : x.file = f /\ x.chunk_id = k.chunk_id /\ x.path = p
    <3>1. [file |-> f, chunk_id |-> k.chunk_id, path |-> p] \in Entries
      BY <1>1, <2>2 DEF Entries
    <3> QED
      BY <3>1
  <2>7. x \in R[k.server]
    BY <1>1, <2>4, <2>6
  <2>8. \A e \in Entries : e.file = f /\ e.chunk_id = k.chunk_id /\ e.path = p => e = x
    BY <2>6, SMT DEF Entries
  <2>9. ASSUME NEW s \in Servers, NEW e \in R[s], e \notin registry[s]
        PROVE  /\ s = k.server /\ e.file = f /\ e.chunk_id = k.chunk_id /\ e.path = k.path
               /\ ~Knows(registry, s, f, k.chunk_id) /\ R # registry
    <3>1. s = k.server /\ e = x
      BY <2>4, <2>8, <2>9
    <3>2. ~\E y \in registry[k.server] : y.file = f /\ y.chunk_id = k.chunk_id /\ y.path = p
      BY <1>1, <2>3, <2>8, <2>9, <3>1
    <3> QED
      BY <2>2, <2>6, <2>9, <3>1, <3>2
  <2>10. ASSUME NEW s \in Servers, NEW g, NEW c, Knows(registry, s, g, c)
         PROVE  Knows(R, s, g, c)
    <3>1. PICK e \in registry[s] : e.file = g /\ e.chunk_id = c
      BY <2>10 DEF Knows
    <3>2. e \in Entries
      BY <2>3
    <3>3. CASE s = k.server /\ g = f /\ c = k.chunk_id
      BY <2>6, <2>7, <3>3 DEF Knows
    <3>4. CASE ~(s = k.server /\ g = f /\ c = k.chunk_id)
      BY <2>4, <3>1, <3>2, <3>4 DEF Knows
    <3> QED
      BY <3>3, <3>4
  <2>11. Knows(R, k.server, f, k.chunk_id)
    BY <2>6, <2>7 DEF Knows
  <2> QED
    BY <2>5, <2>9, <2>10, <2>11 DEF R
<1> QED
  BY <1>2, <1>3

(* A store of a chunk on top of a registry.                                *)
ChunkStored(reg, s, f, c, p, data) ==
  /\ NodesTyped'
  /\ \A r \in Servers : \A e \in Entries :
       e \in registry'[r] <=> IF r = s /\ e.file = f /\ e.chunk_id = c THEN e.path = p
                              ELSE e \in reg[r]
  /\ DOMAIN content' = DOMAIN content \cup {FileAt(s, f, c, p)}
  /\ content'[FileAt(s, f, c, p)] = data
  /\ \A x \in DOMAIN content : x # FileAt(s, f, c, p) => content'[x] = content[x]

LEMMA StoreChunkEntries ==
  ASSUME NodesTyped, NEW reg, RegistryTyped(reg), NEW s \in Servers, NEW f \in Files,
         NEW c \in ChunkIds, NEW p \in Paths, NEW data \in Uploads, StoreChunk(reg, s, f, c, p, data)
  PROVE  ChunkStored(reg, s, f, c, p, data)
<1>1. /\ registry' = Register(reg, s, f, c, p) /\ up' = up
      /\ content' = [x \in DOMAIN content \cup {FileAt(s, f, c, p)} |->
                       IF x = FileAt(s, f, c, p) THEN data ELSE content[x]]
  BY DEF StoreChunk
<1>2. /\ DOMAIN registry' = Servers
      /\ \A r \in Servers : registry'[r] \subseteq Entries
      /\ \A r \in Servers : \A e \in Entries :
           e \in registry'[r] <=> IF r = s /\ e.file = f /\ e.chunk_id = c THEN e.path = p
                                  ELSE e \in reg[r]
  BY <1>1, RegisterEntries, SMT DEF RegistryTyped
<1>3. FileAt(s, f, c, p) \in ChunkFiles
  BY DEF FileAt, ChunkFiles
<1>4. RegistryTyped(registry)'
  BY <1>1, <1>2 DEF RegistryTyped
<1>5. NodesTyped'
  BY <1>1, <1>3, <1>4 DEF NodesTyped
<1> QED
  BY <1>1, <1>2, <1>5 DEF ChunkStored

-----------------------------------------------------------------------------
(* Every step keeps the types.                                             *)
LEMMA ReadFromUploads ==
  ASSUME NodesTyped, NEW k \in ChunkRecord, NEW f \in Files
  PROVE  ReadChunkFromServer(k, f) \subseteq Uploads
<1>1. k.path \in Paths
  BY DEF ChunkRecord
<1>2. \A p \in Retrieved(k, f) : FileAt(k.server, f, k.chunk_id, p) \in DOMAIN content
  BY <1>1, ServedPaths DEF Retrieved
<1> QED
  BY <1>2 DEF ReadChunkFromServer, NodesTyped

LEMMA Kept ==
  ASSUME Shaped
  PROVE  /\ UNCHANGED store => StoreTyped'
         /\ UNCHANGED <<registry, content, up>> => NodesTyped'
         /\ UNCHANGED transfers => TransfersTyped'
         /\ UNCHANGED upload => UploadsTyped'
         /\ UNCHANGED download => DownloadsTyped'
         /\ UNCHANGED delete => DeletesTyped'
         /\ UNCHANGED failover => FailoversTyped'
BY DEF Shaped, StoreTyped, NodesTyped, RegistryTyped, TransfersTyped, UploadsTyped, DownloadsTyped,
       DeletesTyped, FailoversTyped

LEMMA CollectedTyped ==
  ASSUME TransfersTyped, NEW u \in Uploads
  PROVE  Collected(u) \subseteq ChunkRecord /\ IsFiniteSet(Collected(u))
<1> DEFINE T == {x \in transfers : x.upload = u /\ x.state = "ok"}
           F == [t \in T |-> [chunk_id |-> t.chunk_id, server |-> t.server, path |-> u, cut |-> FALSE]]
<1>1. \A t \in T : F[t] \in ChunkRecord
  BY Constants DEF TransfersTyped, Transfer, ChunkRecord
<1>2. T \in SUBSET transfers /\ IsFiniteSet(transfers)
  BY DEF TransfersTyped
<1>3. IsFiniteSet(T)
  BY <1>2, FS_Subset
<1>4. Collected(u) = {F[t] : t \in T}
  BY DEF Collected
<1>5. F = [t \in T |-> F[t]]
  OBVIOUS
<1> HIDE DEF F, T
<1> QED
  BY <1>1, <1>3, <1>4, <1>5, ImageFinite, SMT

LEMMA SubmittedTyped ==
  ASSUME TransfersTyped, NEW u \in Uploads, NEW c \in ChunkIds, NEW T \in SelectedServers,
         SubmitChunkTransfers(u, c, T)
  PROVE  TransfersTyped'
<1> DEFINE F == [s \in T |-> [upload |-> u, chunk_id |-> c, server |-> s, state |-> "queued"]]
<1>1. T \in SUBSET Servers
  <2>1. Configured \subseteq Servers
    BY GridAssumption
  <2> QED
    BY <2>1 DEF SelectedServers
<1>2. IsFiniteSet(T)
  BY <1>1, Constants, FS_Subset
<1>3. \A s \in T : F[s] \in Transfer
  BY <1>1 DEF Transfer
<1>4. transfers' = transfers \cup {F[s] : s \in T}
  BY DEF SubmitChunkTransfers
<1>5. F = [s \in T |-> F[s]]
  OBVIOUS
<1> HIDE DEF F
<1>6. IsFiniteSet({F[s] : s \in T})
  BY <1>2, <1>5, ImageFinite
<1>7. IsFiniteSet(transfers')
  BY <1>4, <1>6, FS_Union DEF TransfersTyped
<1> QED
  BY <1>3, <1>4, <1>7 DEF TransfersTyped

LEMMA UploadsShaped ==
  ASSUME Shaped, NEW u \in Uploads, UploadStep(u)
  PROVE  Shaped'
<1>1. /\ StoreTyped /\ TransfersTyped /\ DOMAIN upload = Uploads
      /\ \A v \in Uploads : UploadShape(upload[v])
  BY DEF Shaped, UploadsTyped
<1>2. ASSUME DOMAIN upload' = Uploads, \A v \in Uploads \ {u} : upload'[v] = upload[v],
             UploadShape(upload'[u])
      PROVE  UploadsTyped'
  BY <1>1, <1>2 DEF UploadsTyped
<1>3. CASE StartUpload(u)
  <2> DEFINE r(empty) == [pc |-> IF empty THEN "success" ELSE "receiving", next |-> 0, empty |-> empty]
  <2>1. PICK empty \in BOOLEAN : upload' = [upload EXCEPT ![u] = r(empty)]
    BY <1>3 DEF StartUpload
  <2>2. UploadShape(r(empty))
    BY Constants DEF UploadShape
  <2> HIDE DEF r
  <2>3. UploadsTyped'
    BY <1>1, <1>2, <2>1, <2>2
  <2>4. store' = store \/ store' = StoreMetadata(u, {})
    BY <1>3 DEF StartUpload
  <2>5. StoreTyped'
    BY <1>1, <2>4, StoreMetadataTyped, Kept, FS_EmptySet
  <2>6. UNCHANGED <<registry, content, up, transfers, download, delete, failover>>
    BY <1>3 DEF StartUpload, nodes
  <2> QED
    BY <2>3, <2>5, <2>6, Kept DEF Shaped
<1>4. CASE ReceiveChunk(u)
  <2> DEFINE s == upload[u]
             pc == IF s.next + 1 \in ChunkIds THEN "receiving" ELSE "collecting"
             r1 == [s EXCEPT !.next = @ + 1]
             r == [r1 EXCEPT !.pc = pc]
  <2>1. s.pc = "receiving"
    BY <1>4 DEF ReceiveChunk
  <2>2. /\ s \in [pc : {"receiving", "collecting", "success", "error"}, next : Nat, empty : BOOLEAN]
        /\ s.next \in ChunkIds /\ ~s.empty
    BY <1>1, <2>1, SMT DEF UploadShape, Idle
  <2>3. /\ DOMAIN upload' = Uploads /\ \A v \in Uploads \ {u} : upload'[v] = upload[v]
        /\ upload'[u] = r
    BY <1>1, <1>4 DEF ReceiveChunk
  <2>4. r.pc = pc /\ r.next = s.next + 1 /\ r.empty = s.empty /\ s.next + 1 \in Nat
    BY <2>2, SMT
  <2>5. r \in [pc : {"receiving", "collecting", "success", "error"}, next : Nat, empty : BOOLEAN]
    <3>1. r1 \in [pc : {"receiving", "collecting", "success", "error"}, next : Nat, empty : BOOLEAN]
      BY <2>2, SMT
    <3> HIDE DEF r1
    <3> QED
      BY <3>1
  <2> HIDE DEF r
  <2>6. UploadShape(r)
    BY <2>2, <2>4, <2>5 DEF UploadShape
  <2>7. UploadsTyped'
    BY <1>2, <2>3, <2>6
  <2>8. TransfersTyped'
    BY <1>1, <1>4, <2>2, SubmittedTyped DEF ReceiveChunk
  <2>9. UNCHANGED <<store, registry, content, up, download, delete, failover>>
    BY <1>4 DEF ReceiveChunk, nodes
  <2> QED
    BY <2>7, <2>8, <2>9, Kept DEF Shaped
<1>5. ASSUME NEW pc \in {"success", "error"}, upload[u].pc \in {"receiving", "collecting"},
             upload' = [upload EXCEPT ![u].pc = pc]
      PROVE  UploadsTyped'
  <2> DEFINE s == upload[u]
             r == [s EXCEPT !.pc = pc]
  <2>1. s \in [pc : {"receiving", "collecting", "success", "error"}, next : Nat, empty : BOOLEAN]
    BY <1>1, <1>5, SMT DEF UploadShape, Idle
  <2>2. /\ DOMAIN upload' = Uploads /\ \A v \in Uploads \ {u} : upload'[v] = upload[v]
        /\ upload'[u] = r
    BY <1>1, <1>5
  <2>3. r \in [pc : {"receiving", "collecting", "success", "error"}, next : Nat, empty : BOOLEAN] /\ r.pc = pc
    BY <2>1
  <2> HIDE DEF r
  <2>4. UploadShape(r)
    BY <2>3 DEF UploadShape
  <2> QED
    BY <1>2, <2>2, <2>4
<1>6. CASE AbortUpload(u)
  <2>1. UploadsTyped'
    BY <1>5, <1>6 DEF AbortUpload
  <2>2. UNCHANGED <<store, registry, content, up, transfers, download, delete, failover>>
    BY <1>6 DEF AbortUpload, nodes
  <2> QED
    BY <2>1, <2>2, Kept DEF Shaped
<1>7. CASE FinishUpload(u)
  <2>1. UploadsTyped'
    <3>1. PICK pc \in {"success", "error"} : upload' = [upload EXCEPT ![u].pc = pc]
      BY <1>7 DEF FinishUpload
    <3> QED
      BY <1>5, <1>7, <3>1 DEF FinishUpload
  <2>2. store' = store \/ store' = StoreMetadata(u, Collected(u))
    BY <1>7 DEF FinishUpload
  <2>3. StoreTyped'
    BY <1>1, <2>2, StoreMetadataTyped, CollectedTyped, Kept
  <2>4. UNCHANGED <<registry, content, up, transfers, download, delete, failover>>
    BY <1>7 DEF FinishUpload, nodes
  <2> QED
    BY <2>1, <2>3, <2>4, Kept DEF Shaped
<1> QED
  BY <1>3, <1>4, <1>6, <1>7 DEF UploadStep

LEMMA TransfersShaped ==
  ASSUME Shaped, TransferStep
  PROVE  Shaped'
<1>1. /\ NodesTyped /\ TransfersTyped
  BY DEF Shaped
<1>2. PICK t \in transfers : SendChunk(t) \/ SendChunkFails(t)
  BY DEF TransferStep
<1>3. t \in Transfer
  BY <1>1 DEF TransfersTyped
<1>4. ASSUME NEW st \in {"ok", "failed"}, Done(t, st)
      PROVE  TransfersTyped'
  <2> DEFINE r == [t EXCEPT !.state = st]
  <2>1. transfers' = (transfers \ {t}) \cup {r}
    BY <1>4 DEF Done
  <2>2. r \in Transfer
    BY <1>3 DEF Transfer
  <2> HIDE DEF r
  <2>3. IsFiniteSet(transfers \ {t})
    BY <1>1, FS_RemoveElement DEF TransfersTyped
  <2>4. IsFiniteSet(transfers')
    BY <2>1, <2>3, FS_AddElement
  <2> QED
    BY <1>1, <2>1, <2>2, <2>4 DEF TransfersTyped
<1>5. CASE SendChunk(t)
  <2>1. /\ t.server \in Servers /\ t.chunk_id \in ChunkIds /\ t.upload \in Uploads
        /\ t.upload \in Paths /\ FileOf[t.upload] \in Files
    BY <1>3, Constants DEF Transfer
  <2>2. StoreChunk(registry, t.server, FileOf[t.upload], t.chunk_id, t.upload, t.upload)
    BY <1>5 DEF SendChunk
  <2>3. NodesTyped'
    BY <1>1, <2>1, <2>2, StoreChunkEntries DEF NodesTyped, ChunkStored
  <2>4. TransfersTyped'
    BY <1>4, <1>5 DEF SendChunk
  <2>5. UNCHANGED <<store, upload, download, delete, failover>>
    BY <1>5 DEF SendChunk
  <2> QED
    BY <2>3, <2>4, <2>5, Kept DEF Shaped
<1>6. CASE SendChunkFails(t)
  <2>1. TransfersTyped'
    BY <1>4, <1>6 DEF SendChunkFails
  <2>2. UNCHANGED <<store, registry, content, up, upload, download, delete, failover>>
    BY <1>6 DEF SendChunkFails, nodes
  <2> QED
    BY <2>1, <2>2, Kept DEF Shaped
<1> QED
  BY <1>2, <1>5, <1>6

(* What asking a replica does to the servers.                              *)
LEMMA AskNodes ==
  ASSUME NodesTyped, NEW k \in ChunkRecord, NEW f \in Files,
         registry' \in {registry, AfterRetrieval(k, f)}, UNCHANGED <<content, up>>
  PROVE  NodesTyped'
<1>1. RegistryTyped(registry')
  BY RetrievalEntries DEF NodesTyped
<1> QED
  BY <1>1 DEF NodesTyped, RegistryTyped

LEMMA DownloadsShaped ==
  ASSUME Inv, Shaped, NEW d \in Downloads, StartDownload(d) \/ DownloadStep(d)
  PROVE  Shaped'
<1>1. /\ StoreTyped /\ NodesTyped /\ DOMAIN download = Downloads
      /\ \A e \in Downloads : DownloadShape(download[e])
      /\ FileOf[d] \in Files
  BY Constants DEF Shaped, DownloadsTyped
<1>2. ASSUME NEW s, DownloadShape(s), download' = [download EXCEPT ![d] = s]
      PROVE  DownloadsTyped'
  BY <1>1, <1>2 DEF DownloadsTyped
<1>3. ASSUME Answer(d, "failed")
      PROVE  DownloadsTyped'
  BY <1>2, <1>3 DEF Answer, DownloadShape
<1>4. ASSUME DownloadsTyped', UNCHANGED <<store, registry, content, up, upload, transfers, delete, failover>>
      PROVE  Shaped'
  BY <1>4, Kept DEF Shaped
<1>5. CASE StartDownload(d)
  <2>1. CASE FileOf[d] \in DOMAIN store
    <3> DEFINE f == FileOf[d]
               s == [pc |-> "asking", file_hash |-> store[f].file_hash, records |-> Records(f),
                     asked |-> {}, votes |-> {}]
    <3>1. store[f].file_hash \in Uploads
      BY <2>1 DEF Inv, StoreCommitted, Committed
    <3>2. Records(f) \subseteq ChunkRecord /\ IsFiniteSet(Records(f))
      BY <1>1, RecordsTyped
    <3>3. s \in Asking /\ s.records = Records(f) /\ s.asked = {}
      BY <3>1, <3>2 DEF Asking
    <3>4. download' = [download EXCEPT ![d] = s]
      BY <1>5, <2>1 DEF StartDownload
    <3> HIDE DEF s
    <3>5. DownloadShape(s)
      BY <3>2, <3>3 DEF DownloadShape
    <3> QED
      BY <1>2, <1>4, <1>5, <3>4, <3>5 DEF StartDownload, nodes
  <2>2. CASE FileOf[d] \notin DOMAIN store
    BY <1>3, <1>4, <1>5, <2>2 DEF StartDownload, nodes
  <2> QED
    BY <2>1, <2>2
<1>6. CASE Decide(d)
  <2>1. UNCHANGED <<store, registry, content, up, upload, transfers, delete, failover>>
    BY <1>6 DEF Decide, nodes
  <2>2. CASE Answer(d, "failed")
    BY <1>3, <1>4, <2>1, <2>2
  <2>3. CASE ~Answer(d, "failed")
    <3>1. PICK s : /\ download' = [download EXCEPT ![d] = s]
                   /\ s.pc = "fetching" /\ DOMAIN s = {"pc", "file_hash", "plan", "ported", "expect", "left", "got"}
      <4> DEFINE cids == Cids(download[d].records)
                 expect == [c \in cids |-> Majority(download[d].votes, c)]
                 none == [c \in {} |-> 0]
      <4>1. PICK P, ported :
              download' = [download EXCEPT ![d] =
                [pc |-> "fetching", file_hash |-> download[d].file_hash, plan |-> P,
                 ported |-> ported, expect |-> expect, left |-> cids, got |-> none]]
        BY <1>6, <2>3 DEF Decide
      <4> HIDE DEF cids, expect, none
      <4> DEFINE r == [pc |-> "fetching", file_hash |-> download[d].file_hash, plan |-> P,
                       ported |-> ported, expect |-> expect, left |-> cids, got |-> none]
      <4>2. r.pc = "fetching" /\ DOMAIN r = {"pc", "file_hash", "plan", "ported", "expect", "left", "got"}
        OBVIOUS
      <4>3. download' = [download EXCEPT ![d] = r]
        BY <4>1
      <4> HIDE DEF r
      <4> QED
        BY <4>2, <4>3
    <3>2. DownloadShape(s)
      BY <3>1 DEF DownloadShape
    <3> QED
      BY <1>2, <1>4, <2>1, <3>1, <3>2
  <2> QED
    BY <2>2, <2>3
<1>7. CASE FinishDownload(d)
  <2>1. UNCHANGED <<store, registry, content, up, upload, transfers, delete, failover>>
    BY <1>7 DEF FinishDownload, nodes
  <2>2. CASE Answer(d, "failed")
    BY <1>3, <1>4, <2>1, <2>2
  <2>3. CASE ~Answer(d, "failed")
    <3>1. PICK file : download' = [download EXCEPT ![d] = [pc |-> "ok", file |-> file]]
      BY <1>7, <2>3 DEF FinishDownload
    <3>2. DownloadShape([pc |-> "ok", file |-> file])
      BY DEF DownloadShape
    <3> QED
      BY <1>2, <1>4, <2>1, <3>1, <3>2
  <2> QED
    BY <2>2, <2>3
<1>8. ASSUME NEW k \in download[d].records, AskReplica(d, k)
      PROVE  Shaped'
  <2> DEFINE s == download[d]
             got == {[key |-> k, hash |-> h] : h \in ReadChunkFromServer(k, FileOf[d])}
  <2>1. s.pc = "asking"
    BY <1>8 DEF AskReplica
  <2>2. s \in Asking /\ IsFiniteSet(s.records) /\ s.asked \subseteq s.records
    BY <1>1, <2>1, SMT DEF DownloadShape, Idle
  <2>3. k \in ChunkRecord
    BY <2>2 DEF Asking
  <2>4. got \subseteq [key : ChunkRecord, hash : Uploads]
    BY <1>1, <2>3, ReadFromUploads, SMT
  <2>5. \/ download' = [download EXCEPT ![d].asked = @ \cup {k}, ![d].votes = @ \cup got]
        \/ download' = [download EXCEPT ![d].asked = @ \cup {k}]
    BY <1>8 DEF AskReplica
  <2> HIDE DEF got
  <2> DEFINE r1 == [s EXCEPT !.asked = @ \cup {k}]
             r2 == [r1 EXCEPT !.votes = @ \cup got]
  <2>6. /\ r1 \in Asking /\ r1.records = s.records /\ r1.asked = s.asked \cup {k} /\ r1.votes = s.votes
    BY <2>2, <2>3 DEF Asking
  <2>7. DOMAIN download' = Downloads /\ \A e \in Downloads \ {d} : download'[e] = download[e]
    BY <1>1, <2>5
  <2>8. download'[d] = r1 \/ download'[d] = r2
    BY <1>1, <2>5
  <2> HIDE DEF r1
  <2>9. /\ r2 \in Asking /\ r2.records = s.records /\ r2.asked = s.asked \cup {k}
    BY <2>4, <2>6 DEF Asking
  <2> HIDE DEF r2
  <2>10. DownloadShape(download'[d])
    BY <2>2, <2>6, <2>8, <2>9 DEF DownloadShape
  <2>11. DownloadsTyped'
    BY <1>1, <2>7, <2>10 DEF DownloadsTyped
  <2>12. registry' \in {registry, AfterRetrieval(k, FileOf[d])} /\ UNCHANGED <<content, up>>
    BY <1>8 DEF AskReplica
  <2>13. NodesTyped'
    BY <1>1, <2>3, <2>12, AskNodes
  <2>14. UNCHANGED <<store, upload, transfers, delete, failover>>
    BY <1>8 DEF AskReplica
  <2> QED
    BY <2>11, <2>13, <2>14, Kept DEF Shaped
<1>9. ASSUME NEW c \in download[d].left, GetChunk(d, c)
      PROVE  Shaped'
  <2>1. UNCHANGED <<store, registry, content, up, upload, transfers, delete, failover>>
    BY <1>9 DEF GetChunk, nodes
  <2>2. CASE Answer(d, "failed")
    BY <1>3, <1>4, <2>1, <2>2
  <2>3. CASE ~Answer(d, "failed")
    <3> DEFINE s == download[d]
    <3>1. PICK left, got : download' = [download EXCEPT ![d].left = left, ![d].got = got]
      BY <1>9, <2>3 DEF GetChunk
    <3>2. s.pc = "fetching" /\ DOMAIN s = {"pc", "file_hash", "plan", "ported", "expect", "left", "got"}
      BY <1>1, <1>9, SMT DEF GetChunk, DownloadShape, Idle, Asking
    <3>3. /\ DOMAIN download' = Downloads /\ \A e \in Downloads \ {d} : download'[e] = download[e]
          /\ download'[d].pc = "fetching"
          /\ DOMAIN download'[d] = {"pc", "file_hash", "plan", "ported", "expect", "left", "got"}
      BY <1>1, <3>1, <3>2
    <3>4. DownloadsTyped'
      BY <1>1, <3>3 DEF DownloadsTyped, DownloadShape
    <3> QED
      BY <1>4, <2>1, <3>4
  <2> QED
    BY <2>2, <2>3
<1> QED
  BY <1>5, <1>6, <1>7, <1>8, <1>9 DEF DownloadStep

LEMMA DeletesShaped ==
  ASSUME Shaped, NEW x \in Deletes, StartDelete(x) \/ DeleteStep(x)
  PROVE  Shaped'
<1> DEFINE S == [pc : {"deleting", "success", "error"}, left : SUBSET ChunkRecord, all_deleted : BOOLEAN]
<1>1. /\ StoreTyped /\ NodesTyped /\ DOMAIN delete = Deletes
      /\ \A y \in Deletes : DeleteShape(delete[y])
      /\ FileOf[x] \in Files
  BY Constants DEF Shaped, DeletesTyped
<1>2. delete[x].pc = "deleting" => delete[x] \in S
  BY <1>1, SMT DEF DeleteShape, Idle
<1>3. ASSUME DOMAIN delete' = Deletes, \A y \in Deletes \ {x} : delete'[y] = delete[y], delete'[x] \in S
      PROVE  DeletesTyped'
  BY <1>1, <1>3 DEF DeletesTyped, DeleteShape
<1>4. CASE StartDelete(x)
  <2>1. delete'[x] \in S
    BY <1>1, <1>4, RecordsTyped DEF StartDelete
  <2>2. DOMAIN delete' = Deletes /\ \A y \in Deletes \ {x} : delete'[y] = delete[y]
    BY <1>1, <1>4 DEF StartDelete
  <2> QED
    BY <1>3, <1>4, <2>1, <2>2, Kept DEF StartDelete, nodes, Shaped
<1>5. CASE FinishDelete(x)
  <2>1. delete[x] \in S
    BY <1>2, <1>5 DEF FinishDelete
  <2>2. PICK pc \in {"success", "error"} : delete' = [delete EXCEPT ![x].pc = pc]
    BY <1>5, <1>1 DEF FinishDelete
  <2>3. /\ delete'[x] \in S
        /\ DOMAIN delete' = Deletes /\ \A y \in Deletes \ {x} : delete'[y] = delete[y]
    BY <1>1, <2>1, <2>2
  <2>4. StoreTyped'
    <3>1. store' = store \/ store' = RemoveFile(store, FileOf[x])
      BY <1>5 DEF FinishDelete
    <3> QED
      BY <1>1, <3>1 DEF StoreTyped, RemoveFile
  <2> QED
    BY <1>3, <1>5, <2>3, <2>4, Kept DEF FinishDelete, nodes, Shaped
<1>6. ASSUME NEW k \in delete[x].left, DeleteChunk(x, k)
      PROVE  Shaped'
  <2>1. delete[x] \in S /\ k \in ChunkRecord /\ k.server \in Servers
    BY <1>2, <1>6 DEF DeleteChunk, ChunkRecord
  <2>2. PICK ok \in BOOLEAN :
          delete' = [delete EXCEPT ![x].left = @ \ {k}, ![x].all_deleted = @ /\ ok]
    BY <1>6 DEF DeleteChunk
  <2> DEFINE r1 == [delete[x] EXCEPT !.left = @ \ {k}]
             r2 == [r1 EXCEPT !.all_deleted = @ /\ ok]
  <2>3. r1 \in S
    BY <2>1
  <2>4. /\ delete'[x] = r2
        /\ DOMAIN delete' = Deletes /\ \A y \in Deletes \ {x} : delete'[y] = delete[y]
    BY <1>1, <2>2
  <2> HIDE DEF r1
  <2>5. r2 \in S
    BY <2>3
  <2> HIDE DEF r2
  <2>6. DeletesTyped'
    BY <1>3, <2>4, <2>5
  <2> DEFINE f == FileOf[x]
             found == Served(k, f, {})
  <2>7. \/ UNCHANGED <<registry, content>>
        \/ /\ found # {}
           /\ registry' = [registry EXCEPT ![k.server] =
                             {e \in @ : ~(e.file = f /\ e.chunk_id = k.chunk_id)}]
           /\ content' = [y \in DOMAIN content \ {FileAt(k.server, f, k.chunk_id, p) : p \in found} |->
                            content[y]]
    BY <1>6 DEF DeleteChunk
  <2>8. UNCHANGED <<store, up, upload, transfers, download, failover>>
    BY <1>6 DEF DeleteChunk
  <2>9. NodesTyped'
    <3>1. CASE UNCHANGED <<registry, content>>
      BY <2>8, <3>1, Kept
    <3>2. CASE ~UNCHANGED <<registry, content>>
      <4> HIDE DEF found
      <4>1. /\ DOMAIN registry' = Servers
            /\ \A s \in Servers : \A e \in registry'[s] :
                 /\ e \in registry[s] /\ ~(s = k.server /\ e.file = f /\ e.chunk_id = k.chunk_id)
        BY <1>1, <2>7, <3>2, SMT DEF NodesTyped, RegistryTyped
      <4>2. /\ \A y \in DOMAIN content' : y \in DOMAIN content /\ content'[y] = content[y]
            /\ \A y \in DOMAIN content : y \in DOMAIN content' \/ \E p : y = FileAt(k.server, f, k.chunk_id, p)
        BY <2>7, <3>2
      <4>3. \A s, g, c, p, q : FileAt(s, g, c, q) = FileAt(k.server, f, k.chunk_id, p)
                                 => s = k.server /\ g = f /\ c = k.chunk_id
        BY DEF FileAt
      <4>4. RegistryTyped(registry)'
        BY <1>1, <4>1, <4>2, <4>3, SMT DEF NodesTyped, RegistryTyped
      <4> QED
        BY <1>1, <2>8, <4>2, <4>4 DEF NodesTyped
    <3> QED
      BY <3>1, <3>2
  <2> QED
    BY <2>6, <2>8, <2>9, Kept DEF Shaped
<1> QED
  BY <1>4, <1>5, <1>6 DEF DeleteStep

(* A failover: the registry, and the record of its progress.               *)
LEMMA CopyNodes ==
  ASSUME Shaped, NEW dead \in Failovers, NEW c \in failover[dead].left, CopyChunk(dead, c)
  PROVE  NodesTyped'
<1> DEFINE s == failover[dead]
           f == s.file
<1>1. NodesTyped /\ FailoverShape(s) /\ s.pc = "files"
  BY DEF Shaped, FailoversTyped, CopyChunk
<1>2. s.records \subseteq ChunkRecord /\ f \in Files
  BY <1>1, SMT DEF FailoverShape, Idle
<1>3. \/ UNCHANGED registry
      \/ \E k \in Sources(s, c, dead) : registry' \in {registry, AfterRetrieval(k, f)}
  BY DEF CopyChunk
<1>4. UNCHANGED <<content, up>>
  BY DEF CopyChunk
<1>5. Sources(s, c, dead) \subseteq s.records
  BY DEF Sources
<1> HIDE DEF s, f
<1> QED
  BY <1>1, <1>2, <1>3, <1>4, <1>5, AskNodes, Kept

LEMMA RepairNodes ==
  ASSUME Shaped, NEW dead \in Failovers, NEW x \in failover[dead].copy, RepairChunkOnServer(dead, x)
  PROVE  /\ NodesTyped' /\ x \in ChunkCopy /\ failover[dead].file \in Files
         /\ x.server \in Servers /\ x.chunk_id \in ChunkIds /\ x.data \in Uploads
<1> DEFINE s == failover[dead]
           f == s.file
<1>1. NodesTyped /\ FailoverShape(s) /\ s.pc = "repair"
  BY DEF Shaped, FailoversTyped, RepairChunkOnServer
<1>2. x \in ChunkCopy /\ f \in Files
  BY <1>1, SMT DEF FailoverShape, Idle
<1>3. x.server \in Servers /\ x.chunk_id \in ChunkIds /\ x.data \in Uploads /\ dead \in Paths
  BY <1>2, Constants DEF ChunkCopy
<1>4. UNCHANGED nodes \/ StoreChunk(registry, x.server, f, x.chunk_id, dead, x.data)
  BY DEF RepairChunkOnServer
<1> HIDE DEF s, f
<1>5. CASE UNCHANGED nodes
  BY <1>2, <1>3, <1>5, Kept DEF nodes, s, f
<1>6. CASE StoreChunk(registry, x.server, f, x.chunk_id, dead, x.data)
  <2>1. ChunkStored(registry, x.server, f, x.chunk_id, dead, x.data)
    BY <1>1, <1>2, <1>3, <1>6, StoreChunkEntries DEF NodesTyped
  <2> QED
    BY <1>2, <1>3, <2>1 DEF ChunkStored, s, f
<1> QED
  BY <1>4, <1>5, <1>6

(* What reading a chunk does to a failover's record: the chunk is off its  *)
(* list, and what was read is kept for the repair.                         *)
CopyRecord(dead, c) ==
  LET s == failover[dead]
      r == failover'[dead]
  IN /\ DOMAIN failover' = Failovers /\ \A x \in Failovers \ {dead} : failover'[x] = failover[x]
     /\ DOMAIN r = FailoverFields
     /\ r.healthy = s.healthy /\ r.files = s.files /\ r.records = s.records
     /\ r.file = s.file /\ r.left = s.left \ {c} /\ r.updates = s.updates
     /\ \/ r.pc = s.pc /\ r.copy = s.copy
        \/ /\ r.pc = "repair"
           /\ \E k \in Sources(s, c, dead), t \in Targets(s, c) :
                r.copy = {[chunk_id |-> c, server |-> t, data |-> h] : h \in ReadChunkFromServer(k, s.file)}

LEMMA CopyRecords ==
  ASSUME FailoversTyped, NEW dead \in Failovers, NEW c \in failover[dead].left, CopyChunk(dead, c)
  PROVE  CopyRecord(dead, c)
<1> DEFINE s == failover[dead]
           Copy(k, t) == {[chunk_id |-> c, server |-> t, data |-> h] : h \in ReadChunkFromServer(k, s.file)}
<1>1. FailoverShape(s) /\ s.pc = "files" /\ DOMAIN failover = Failovers
  BY DEF FailoversTyped, CopyChunk
<1>2. DOMAIN s = FailoverFields
  BY <1>1, SMT DEF FailoverShape, Idle, FailoverFields
<1>3. \/ failover' = [failover EXCEPT ![dead].left = @ \ {c}]
      \/ \E k \in Sources(s, c, dead), t \in Targets(s, c) :
           failover' = [failover EXCEPT ![dead].pc = "repair", ![dead].left = @ \ {c},
                          ![dead].copy = Copy(k, t)]
  BY DEF CopyChunk
<1>4. CASE failover' = [failover EXCEPT ![dead].left = @ \ {c}]
  BY <1>1, <1>2, <1>4 DEF CopyRecord, FailoverFields
<1>5. ASSUME NEW k \in Sources(s, c, dead), NEW t \in Targets(s, c),
             failover' = [failover EXCEPT ![dead].pc = "repair", ![dead].left = @ \ {c},
                            ![dead].copy = Copy(k, t)]
      PROVE  CopyRecord(dead, c)
  <2> DEFINE r == failover'[dead]
             copy == Copy(k, t)
  <2> HIDE DEF copy
  <2>0. failover' = [failover EXCEPT ![dead].pc = "repair", ![dead].left = @ \ {c}, ![dead].copy = copy]
    BY <1>5 DEF copy
  <2>1. /\ DOMAIN failover' = Failovers /\ \A x \in Failovers \ {dead} : failover'[x] = failover[x]
        /\ DOMAIN r = FailoverFields
        /\ r.pc = "repair" /\ r.healthy = s.healthy /\ r.files = s.files /\ r.records = s.records
        /\ r.file = s.file /\ r.left = s.left \ {c} /\ r.copy = copy /\ r.updates = s.updates
    BY <1>1, <1>2, <2>0 DEF FailoverFields
  <2> QED
    BY <1>5, <2>1 DEF CopyRecord, copy
<1> QED
  BY <1>3, <1>4, <1>5

(* What a repair does to it: at most one new record is among its updates.  *)
RepairRecord(dead, x) ==
  LET s == failover[dead]
      r == failover'[dead]
  IN /\ DOMAIN failover' = Failovers /\ \A y \in Failovers \ {dead} : failover'[y] = failover[y]
     /\ DOMAIN r = FailoverFields
     /\ r.pc = "files" /\ r.copy = {}
     /\ r.healthy = s.healthy /\ r.files = s.files /\ r.records = s.records
     /\ r.file = s.file /\ r.left = s.left
     /\ \/ r.updates = s.updates
        \/ /\ DOMAIN r.updates = DOMAIN s.updates \cup {s.file}
           /\ \A g \in DOMAIN s.updates : g # s.file => r.updates[g] = s.updates[g]
           /\ StoreChunk(registry, x.server, s.file, x.chunk_id, dead, x.data)
           /\ r.updates[s.file] =
                (IF s.file \in DOMAIN s.updates THEN s.updates[s.file] ELSE {})
                  \cup {[chunk_id |-> x.chunk_id, server |-> x.server, path |-> dead, cut |-> FALSE]}

LEMMA RepairRecords ==
  ASSUME FailoversTyped, NEW dead \in Failovers, NEW x, RepairChunkOnServer(dead, x)
  PROVE  RepairRecord(dead, x)
<1> DEFINE s == failover[dead]
           f == s.file
           New == [chunk_id |-> x.chunk_id, server |-> x.server, path |-> dead, cut |-> FALSE]
           upd == [g \in DOMAIN s.updates \cup {f} |->
                     (IF g \in DOMAIN s.updates THEN s.updates[g] ELSE {}) \cup
                     (IF g = f THEN {New} ELSE {})]
<1>1. FailoverShape(s) /\ s.pc = "repair" /\ DOMAIN failover = Failovers
  BY DEF FailoversTyped, RepairChunkOnServer
<1>2. DOMAIN s = FailoverFields
  BY <1>1, SMT DEF FailoverShape, Idle, FailoverFields
<1>3. \/ failover' = [failover EXCEPT ![dead].pc = "files", ![dead].copy = {}]
      \/ /\ StoreChunk(registry, x.server, f, x.chunk_id, dead, x.data)
         /\ failover' = [failover EXCEPT ![dead].pc = "files", ![dead].copy = {}, ![dead].updates = upd]
  BY DEF RepairChunkOnServer
<1>4. CASE failover' = [failover EXCEPT ![dead].pc = "files", ![dead].copy = {}]
  BY <1>1, <1>2, <1>4 DEF RepairRecord, FailoverFields
<1>5. ASSUME StoreChunk(registry, x.server, f, x.chunk_id, dead, x.data),
             failover' = [failover EXCEPT ![dead].pc = "files", ![dead].copy = {}, ![dead].updates = upd]
      PROVE  RepairRecord(dead, x)
  <2> DEFINE u == upd
             r == failover'[dead]
  <2>1. /\ DOMAIN u = DOMAIN s.updates \cup {f}
        /\ \A g \in DOMAIN s.updates : g # f => u[g] = s.updates[g]
        /\ u[f] = (IF f \in DOMAIN s.updates THEN s.updates[f] ELSE {}) \cup {New}
    OBVIOUS
  <2>2. failover' = [failover EXCEPT ![dead].pc = "files", ![dead].copy = {}, ![dead].updates = u]
    BY <1>5
  <2> HIDE DEF u
  <2>3. /\ DOMAIN failover' = Failovers /\ \A y \in Failovers \ {dead} : failover'[y] = failover[y]
        /\ DOMAIN r = FailoverFields
        /\ r.pc = "files" /\ r.copy = {}
        /\ r.healthy = s.healthy /\ r.files = s.files /\ r.records = s.records
        /\ r.file = s.file /\ r.left = s.left /\ r.updates = u
    BY <1>1, <1>2, <2>2 DEF FailoverFields
  <2> QED
    BY <1>5, <2>1, <2>3 DEF RepairRecord
<1> QED
  BY <1>3, <1>4, <1>5

LEMMA FailoversShaped ==
  ASSUME Shaped, NEW dead \in Failovers, RemoveServer(dead) \/ FailoverStep(dead)
  PROVE  Shaped'
<1> DEFINE s == failover[dead]
<1>1. /\ StoreTyped /\ FailoversTyped /\ DOMAIN failover = Failovers
      /\ \A x \in Failovers : FailoverShape(failover[x])
  BY DEF Shaped, FailoversTyped
<1>2. ASSUME DOMAIN failover' = Failovers, \A x \in Failovers \ {dead} : failover'[x] = failover[x],
             FailoverShape(failover'[dead])
      PROVE  FailoversTyped'
  BY <1>1, <1>2 DEF FailoversTyped
<1>3. CASE StartFailover(dead)
  <2> DEFINE none == [f \in {} |-> {}]
  <2>1. PICK pc \in {"files", "drop", "done"}, healthy \in SUBSET Servers :
          failover' = [failover EXCEPT ![dead] =
            [pc |-> pc, healthy |-> healthy, files |-> DOMAIN store, records |-> {}, left |-> {},
             file |-> "none", copy |-> {}, updates |-> none]]
    BY <1>3 DEF StartFailover
  <2>2. DOMAIN none = {}
    OBVIOUS
  <2> HIDE DEF none
  <2> DEFINE r == [pc |-> pc, healthy |-> healthy, files |-> DOMAIN store, records |-> {}, left |-> {},
                   file |-> "none", copy |-> {}, updates |-> none]
  <2>3. /\ DOMAIN r = FailoverFields /\ r.pc = pc /\ r.healthy = healthy /\ r.files = DOMAIN store
        /\ r.records = {} /\ r.left = {} /\ r.copy = {} /\ r.updates = none
    BY DEF FailoverFields
  <2>4. failover' = [failover EXCEPT ![dead] = r]
    BY <2>1
  <2> HIDE DEF r
  <2>5. DOMAIN store \subseteq Files
    BY <1>1 DEF StoreTyped
  <2>6. FailoverShape(r)
    BY <2>2, <2>3, <2>5 DEF FailoverShape
  <2>7. FailoversTyped'
    BY <1>1, <1>2, <2>4, <2>6
  <2> QED
    BY <1>3, <2>7, Kept DEF StartFailover, nodes, Shaped
<1>4. ASSUME NEW f \in failover[dead].files, QueryFile(dead, f)
      PROVE  Shaped'
  <2> DEFINE r == failover'[dead]
             left == Cids({k \in Records(f) : k.server = dead})
  <2>1. s.pc = "files" /\ FailoverShape(s)
    BY <1>1, <1>4 DEF QueryFile
  <2>2. DOMAIN s = FailoverFields /\ s.files \subseteq Files
    BY <2>1, SMT DEF FailoverShape, Idle
  <2>3. failover' = [failover EXCEPT ![dead].files = @ \ {f}, ![dead].file = f,
                    ![dead].records = Records(f), ![dead].left = left]
    BY <1>4 DEF QueryFile
  <2>4. Records(f) \subseteq ChunkRecord
    BY <1>1, RecordsTyped
  <2>5. left \subseteq ChunkIds
    BY <2>4 DEF Cids, ChunkRecord
  <2> HIDE DEF left
  <2>6. /\ DOMAIN failover' = Failovers /\ \A x \in Failovers \ {dead} : failover'[x] = failover[x]
        /\ DOMAIN r = FailoverFields
        /\ r.pc = s.pc /\ r.healthy = s.healthy /\ r.files = s.files \ {f} /\ r.records = Records(f)
        /\ r.file = f /\ r.left = left /\ r.copy = s.copy /\ r.updates = s.updates
    BY <1>1, <2>2, <2>3 DEF FailoverFields
  <2>7. FailoverShape(r)
    BY <2>1, <2>2, <2>4, <2>5, <2>6, SMT DEF FailoverShape, Idle
  <2>8. FailoversTyped'
    BY <1>2, <2>6, <2>7
  <2> QED
    BY <1>4, <2>8, Kept DEF QueryFile, nodes, Shaped
<1>5. ASSUME NEW c \in failover[dead].left, CopyChunk(dead, c)
      PROVE  Shaped'
  <2> DEFINE r == failover'[dead]
             f == s.file
  <2>1. s.pc = "files" /\ FailoverShape(s)
    BY <1>1, <1>5 DEF CopyChunk
  <2>2. CopyRecord(dead, c)
    BY <1>1, <1>5, CopyRecords
  <2>3. /\ c \in ChunkIds /\ f \in Files /\ s.healthy \subseteq Servers /\ s.copy \subseteq ChunkCopy
        /\ s.records \subseteq ChunkRecord
    BY <2>1, SMT DEF FailoverShape, Idle
  <2>4. r.pc \in {"files", "repair"} /\ r.copy \subseteq ChunkCopy
    <3>1. CASE r.pc = s.pc /\ r.copy = s.copy
      BY <2>1, <2>3, <3>1
    <3>2. ASSUME r.pc = "repair", NEW k \in Sources(s, c, dead), NEW t \in Targets(s, c),
                 r.copy = {[chunk_id |-> c, server |-> t, data |-> h] : h \in ReadChunkFromServer(k, f)}
          PROVE  r.pc \in {"files", "repair"} /\ r.copy \subseteq ChunkCopy
      <4>1. k \in ChunkRecord /\ t \in Servers
        BY <2>3 DEF Sources, Targets
      <4>2. ReadChunkFromServer(k, f) \subseteq Uploads
        BY <2>3, <4>1, ReadFromUploads DEF Shaped
      <4>3. \A h \in Uploads : [chunk_id |-> c, server |-> t, data |-> h] \in ChunkCopy
        BY <2>3, <4>1 DEF ChunkCopy
      <4> QED
        BY <3>2, <4>2, <4>3
    <3> QED
      BY <2>2, <3>1, <3>2 DEF CopyRecord
  <2>5. FailoverShape(r)
    BY <2>1, <2>2, <2>3, <2>4, SMT DEF FailoverShape, Idle, CopyRecord
  <2>6. FailoversTyped'
    BY <1>2, <2>2, <2>5 DEF CopyRecord
  <2>7. UNCHANGED <<store, upload, transfers, download, delete>>
    BY <1>5 DEF CopyChunk
  <2> QED
    BY <1>5, <2>6, <2>7, CopyNodes, Kept DEF Shaped
<1>6. ASSUME NEW pc \in {"drop", "done"}, s.pc \in {"files", "drop"},
             failover' = [failover EXCEPT ![dead].pc = pc]
      PROVE  FailoversTyped'
  <2> DEFINE r == failover'[dead]
  <2>1. FailoverShape(s) /\ DOMAIN s = FailoverFields
    BY <1>1, <1>6, SMT DEF FailoverShape, Idle
  <2>2. /\ DOMAIN failover' = Failovers /\ \A x \in Failovers \ {dead} : failover'[x] = failover[x]
        /\ DOMAIN r = FailoverFields
        /\ r.pc = pc /\ r.healthy = s.healthy /\ r.files = s.files /\ r.records = s.records
        /\ r.file = s.file /\ r.left = s.left /\ r.copy = s.copy /\ r.updates = s.updates
    BY <1>1, <1>6, <2>1 DEF FailoverFields
  <2>3. FailoverShape(r)
    BY <1>6, <2>1, <2>2, SMT DEF FailoverShape, Idle
  <2> QED
    BY <1>2, <2>2, <2>3
<1>7. CASE ReplaceChunks(dead)
  <2>1. FailoversTyped'
    BY <1>6, <1>7 DEF ReplaceChunks
  <2>2. FailoverShape(s) /\ s.pc = "files"
    BY <1>1, <1>7 DEF ReplaceChunks
  <2>3. \A f \in DOMAIN s.updates : s.updates[f] \subseteq ChunkRecord /\ IsFiniteSet(s.updates[f])
    BY <2>2, SMT DEF FailoverShape, Idle
  <2>4. store' = AtomicReplaceServerChunks(store, dead, s.updates)
    BY <1>7 DEF ReplaceChunks
  <2>5. StoreTyped'
    BY <1>1, <2>3, <2>4, AtomicReplaceTyped
  <2> QED
    BY <1>7, <2>1, <2>5, Kept DEF ReplaceChunks, nodes, Shaped
<1>8. CASE DropServer(dead)
  <2>1. FailoversTyped'
    BY <1>6, <1>8 DEF DropServer
  <2>2. StoreTyped'
    BY <1>1, <1>8, DeleteServerTyped DEF DropServer
  <2> QED
    BY <1>8, <2>1, <2>2, Kept DEF DropServer, nodes, Shaped
<1>9. CASE RemoveServer(dead)
  <2>1. /\ DOMAIN failover' = Failovers /\ \A x \in Failovers \ {dead} : failover'[x] = failover[x]
        /\ failover'[dead] = [pc |-> "removed"]
    BY <1>1, <1>9 DEF RemoveServer
  <2>2. FailoversTyped'
    BY <1>2, <2>1 DEF FailoverShape
  <2> QED
    BY <1>9, <2>2, Kept DEF RemoveServer, Shaped
<1>10. ASSUME NEW x \in failover[dead].copy, RepairChunkOnServer(dead, x)
       PROVE  Shaped'
  <2> DEFINE r == failover'[dead]
             f == s.file
  <2>1. s.pc = "repair" /\ FailoverShape(s)
    BY <1>1, <1>10 DEF RepairChunkOnServer
  <2>2. RepairRecord(dead, x)
    BY <1>1, <1>10, RepairRecords
  <2>3. /\ x.chunk_id \in ChunkIds /\ x.server \in Servers /\ f \in Files /\ NodesTyped'
    BY <1>10, RepairNodes
  <2>4. /\ DOMAIN s.updates \subseteq Files
        /\ \A g \in DOMAIN s.updates : s.updates[g] \subseteq ChunkRecord /\ IsFiniteSet(s.updates[g])
    BY <2>1, SMT DEF FailoverShape, Idle
  <2>5. /\ DOMAIN r.updates \subseteq Files
        /\ \A g \in DOMAIN r.updates : r.updates[g] \subseteq ChunkRecord /\ IsFiniteSet(r.updates[g])
    <3>1. CASE r.updates = s.updates
      BY <2>4, <3>1
    <3>2. CASE r.updates # s.updates
      <4> DEFINE old == IF f \in DOMAIN s.updates THEN s.updates[f] ELSE {}
                 New == [chunk_id |-> x.chunk_id, server |-> x.server, path |-> dead, cut |-> FALSE]
      <4>1. /\ DOMAIN r.updates = DOMAIN s.updates \cup {f}
            /\ \A g \in DOMAIN s.updates : g # f => r.updates[g] = s.updates[g]
            /\ r.updates[f] = old \cup {New}
        BY <2>2, <3>2 DEF RepairRecord
      <4>2. New \in ChunkRecord
        BY <2>3, Constants DEF ChunkRecord
      <4>3. old \subseteq ChunkRecord /\ IsFiniteSet(old)
        BY <2>4, FS_EmptySet
      <4> HIDE DEF old, New
      <4>4. r.updates[f] \subseteq ChunkRecord
        BY <4>1, <4>2, <4>3
      <4>5. IsFiniteSet(r.updates[f])
        <5>1. IsFiniteSet(old \cup {New})
          BY <4>3, FS_AddElement
        <5> QED
          BY <4>1, <5>1
      <4> QED
        BY <2>3, <2>4, <4>1, <4>4, <4>5
    <3> QED
      BY <3>1, <3>2
  <2>6. FailoverShape(r)
    BY <2>1, <2>2, <2>3, <2>5, SMT DEF FailoverShape, Idle, RepairRecord
  <2>7. FailoversTyped'
    BY <1>2, <2>2, <2>6 DEF RepairRecord
  <2>8. UNCHANGED <<store, upload, transfers, download, delete>>
    BY <1>10 DEF RepairChunkOnServer
  <2> QED
    BY <2>3, <2>7, <2>8, Kept DEF Shaped
<1> QED
  BY <1>3, <1>4, <1>5, <1>7, <1>8, <1>9, <1>10 DEF FailoverStep

LEMMA ServersShaped ==
  ASSUME Shaped, NEW s \in Servers, Crash(s) \/ Start(s) \/ AddServer(s)
  PROVE  Shaped'
<1>1. NodesTyped
  BY DEF Shaped
<1>2. NodesTyped'
  BY <1>1 DEF NodesTyped, RegistryTyped, Crash, Start, AddServer
<1> QED
  BY <1>2, Kept DEF Crash, Start, AddServer, Shaped

LEMMA InitShaped == Init => Shaped
<1> SUFFICES ASSUME Init PROVE Shaped
  OBVIOUS
<1>1. StoreTyped /\ NodesTyped
  BY DEF Init, StoreTyped, NodesTyped, RegistryTyped
<1>2. TransfersTyped
  BY FS_EmptySet DEF Init, TransfersTyped
<1>3. UploadsTyped /\ DownloadsTyped /\ DeletesTyped /\ FailoversTyped
  BY DEF Init, UploadsTyped, DownloadsTyped, DeletesTyped, FailoversTyped, UploadShape,
         DownloadShape, DeleteShape, FailoverShape
<1> QED
  BY <1>1, <1>2, <1>3 DEF Shaped

LEMMA NextShaped ==
  ASSUME Inv, Shaped, [Next]_vars
  PROVE  Shaped'
<1>1. CASE UNCHANGED vars
  BY <1>1, Kept DEF vars, nodes, Shaped
<1>2. CASE \E u \in Uploads : UploadStep(u)
  BY <1>2, UploadsShaped
<1>3. CASE TransferStep
  BY <1>3, TransfersShaped
<1>4. CASE \E d \in Downloads : StartDownload(d) \/ DownloadStep(d)
  BY <1>4, DownloadsShaped
<1>5. CASE \E x \in Deletes : StartDelete(x) \/ DeleteStep(x)
  BY <1>5, DeletesShaped
<1>6. CASE \E s \in Failovers : RemoveServer(s) \/ FailoverStep(s)
  BY <1>6, FailoversShaped
<1>7. CASE \E s \in Servers : Crash(s) \/ Start(s) \/ AddServer(s)
  BY <1>7, ServersShaped
<1> QED
  BY <1>1, <1>2, <1>3, <1>4, <1>5, <1>6, <1>7 DEF Next

(* The server registry: failovers take entries away, registrations and     *)
(* operators add them.                                                     *)
LEMMA InitEntry == Init => EntryTyped
BY DEF Init, EntryTyped

(* The steps that give a server an entry, take it away or start the server *)
(* are the only ones by which a running server may come to have no ports.  *)
QuietStep == UNCHANGED entry /\ up' \subseteq up /\ disturbed \subseteq disturbed'
EntryStep ==
  \/ QuietStep
  \/ \E s \in Failovers : RemoveServer(s)
  \/ \E s \in Servers : Start(s) \/ AddServer(s)

LEMMA EntrySteps ==
  ASSUME [Next]_vars
  PROVE  EntryStep
<1>1. CASE UNCHANGED vars
  BY <1>1 DEF vars, nodes, history, EntryStep, QuietStep
<1>2. ASSUME NEW u \in Uploads, UploadStep(u)
      PROVE  QuietStep
  BY <1>2 DEF UploadStep, StartUpload, ReceiveChunk, AbortUpload, FinishUpload, nodes, history, QuietStep
<1>3. CASE TransferStep
  BY <1>3 DEF TransferStep, SendChunk, SendChunkFails, StoreChunk, nodes, history, EntryStep, QuietStep
<1>4. ASSUME NEW d \in Downloads, StartDownload(d) \/ DownloadStep(d)
      PROVE  QuietStep
  <2>1. CASE StartDownload(d) \/ Decide(d) \/ FinishDownload(d)
    BY <2>1 DEF StartDownload, Decide, FinishDownload, nodes, history, QuietStep
  <2>2. ASSUME NEW k, AskReplica(d, k)
        PROVE  QuietStep
    BY <2>2 DEF AskReplica, TakenUp, QuietStep
  <2>3. ASSUME NEW c, GetChunk(d, c)
        PROVE  QuietStep
    BY <2>3 DEF GetChunk, nodes, QuietStep
  <2> QED
    BY <1>4, <2>1, <2>2, <2>3 DEF DownloadStep
<1>5. ASSUME NEW x \in Deletes, StartDelete(x) \/ DeleteStep(x)
      PROVE  QuietStep
  <2>1. CASE StartDelete(x) \/ FinishDelete(x)
    BY <2>1 DEF StartDelete, FinishDelete, nodes, history, QuietStep
  <2>2. ASSUME NEW k, DeleteChunk(x, k)
        PROVE  QuietStep
    BY <2>2 DEF DeleteChunk, QuietStep
  <2> QED
    BY <1>5, <2>1, <2>2 DEF DeleteStep
<1>6. ASSUME NEW s \in Failovers, FailoverStep(s)
      PROVE  QuietStep
  <2>1. CASE StartFailover(s) \/ ReplaceChunks(s) \/ DropServer(s)
    BY <2>1 DEF StartFailover, ReplaceChunks, DropServer, nodes, history, QuietStep
  <2>2. ASSUME NEW f, QueryFile(s, f)
        PROVE  QuietStep
    BY <2>2 DEF QueryFile, nodes, history, QuietStep
  <2>3. ASSUME NEW c, CopyChunk(s, c)
        PROVE  QuietStep
    BY <2>3 DEF CopyChunk, history, QuietStep
  <2>4. ASSUME NEW x, RepairChunkOnServer(s, x)
        PROVE  QuietStep
    BY <2>4 DEF RepairChunkOnServer, StoreChunk, nodes, history, QuietStep
  <2> QED
    BY <1>6, <2>1, <2>2, <2>3, <2>4 DEF FailoverStep
<1>7. ASSUME NEW s \in Servers, Crash(s)
      PROVE  QuietStep
  BY <1>7 DEF Crash, QuietStep
<1> QED
  BY <1>1, <1>2, <1>3, <1>4, <1>5, <1>6, <1>7 DEF Next, EntryStep

LEMMA NextEntry ==
  ASSUME EntryTyped, [Next]_vars
  PROVE  EntryTyped'
<1>1. CASE UNCHANGED entry
  BY <1>1 DEF EntryTyped
<1>2. ASSUME NEW s \in Failovers, RemoveServer(s)
      PROVE  EntryTyped'
  BY <1>2 DEF RemoveServer, EntryTyped
<1>3. ASSUME NEW s \in Servers, AddServer(s)
      PROVE  EntryTyped'
  BY <1>3 DEF AddServer, EntryTyped
<1>4. ASSUME NEW s \in Servers, Start(s)
      PROVE  EntryTyped'
  BY <1>4 DEF Start, EntryTyped
<1> QED
  BY <1>1, <1>2, <1>3, <1>4, EntrySteps DEF EntryStep, QuietStep

(* For every set of files, servers, chunks and requests, any number of     *)
(* crashes and lost exchanges: the metadata stays well formed, and servers *)
(* hold and register chunks of the grid's files only, under the paths of   *)
(* uploads and failovers.                                                  *)
THEOREM GridAlwaysTyped == Spec => []TypeOK
<1>1. Inv /\ Shaped /\ EntryTyped /\ [Next]_vars => Inv' /\ Shaped' /\ EntryTyped'
  BY NextInv, NextShaped, NextEntry
<1>2. Shaped /\ EntryTyped => TypeOK
  BY ShapedTypes
<1> QED
  BY <1>1, <1>2, InitInv, InitShaped, InitEntry, PTL DEF Spec

-----------------------------------------------------------------------------
(* Clean downloads succeed.  A version of a file (the upload it came with) *)
(* that downloads count on is protected: the clean version in the store,   *)
(* or the one an undisturbed download is reading.                          *)
IsReading(d) == download[d].pc \in {"asking", "fetching"}
CleanVersion(f, h) == f \in clean /\ f \in DOMAIN store /\ store[f].file_hash = h
ReadVersion(f, h) == \E d \in Downloads : /\ FileOf[d] = f /\ IsReading(d) /\ d \notin disturbed
                                          /\ download[d].file_hash = h
Protected(f, h) == CleanVersion(f, h) \/ ReadVersion(f, h)

(* The upload under way that can become the next clean version.            *)
InProgress(u) == upload[u].pc \in {"receiving", "collecting"}
Arriving(f, h) == FileOf[h] = f /\ InProgress(h) /\ h \notin mixed
Guarded(f, h) == Protected(f, h) \/ Arriving(f, h)

(* The file at path p is of version h; so is whatever server s serves as   *)
(* chunk c of f by its registry; record k is good for version h.           *)
Holds(s, f, c, p, h) == /\ FileAt(s, f, c, p) \in DOMAIN content
                        /\ content[FileAt(s, f, c, p)] = h
Serves(s, f, c, h) == \A e \in registry[s] : e.file = f /\ e.chunk_id = c => Holds(s, f, c, e.path, h)
Good(f, h, k) == /\ k.chunk_id \in DOMAIN Content(h)
                 /\ Holds(k.server, f, k.chunk_id, k.path, h)
                 /\ Serves(k.server, f, k.chunk_id, h)

(* The records of f that a failover has made, and those it works from.     *)
Updates(f) == UNION {failover[s].updates[f] : s \in {r \in Failovers :
                       failover[r].pc \in {"files", "repair"} /\ f \in DOMAIN failover[r].updates}}
Sourced(f) == UNION {failover[s].records : s \in {r \in Failovers :
                       failover[r].pc \in {"files", "repair"} /\ failover[r].file = f}}
InUse(f) == Records(f) \cup Updates(f) \cup Sourced(f)

(* What failovers have read of f and are about to store is of version h.   *)
Copies(f) == UNION {failover[s].copy : s \in {r \in Failovers :
                      failover[r].pc = "repair" /\ failover[r].file = f}}
Right(x, h) == x.chunk_id \in DOMAIN Content(h) /\ x.data = h

(* Every record in use, and every copy, is good for every protected        *)
(* version.                                                                *)
GoodRecords ==
  \A f \in Files, h \in Uploads : Protected(f, h) =>
    /\ \A k \in InUse(f) : Good(f, h, k)
    /\ \A x \in Copies(f) : Right(x, h)
    /\ \A d \in Downloads : FileOf[d] = f /\ download[d].pc = "asking" /\ download[d].file_hash = h
         => \A k \in download[d].records : Good(f, h, k)

(* A download that nothing disturbs: its votes, and then its plan.         *)
AskingWell(d) ==
  LET s == download[d]
      f == FileOf[d]
      h == s.file_hash
  IN /\ \A c \in DOMAIN Content(h) : \E k \in s.records :
          k.chunk_id = c /\ k.server \in up /\ (k \in s.asked => \E v \in s.votes : v.key = k)
     /\ \A v \in s.votes : /\ v.hash = h /\ v.key \in s.asked /\ v.key.server \in up
                           /\ Knows(registry, v.key.server, f, v.key.chunk_id)

FetchingWell(d) ==
  LET s == download[d]
      f == FileOf[d]
      h == s.file_hash
  IN /\ \A c \in DOMAIN Content(h) :
          /\ s.plan[c] \in ChunkRecord
          /\ s.plan[c].chunk_id = c /\ s.plan[c].server \in up /\ s.expect[c] = h
          /\ Knows(registry, s.plan[c].server, f, c) /\ Serves(s.plan[c].server, f, c, h)
          /\ c \in s.ported
     /\ s.left \subseteq DOMAIN Content(h)
     /\ s.got = [c \in DOMAIN Content(h) \ s.left |-> h]

ReadersWell ==
  \A d \in Downloads \ disturbed : /\ download[d].pc = "asking" => AskingWell(d)
                                   /\ download[d].pc = "fetching" => FetchingWell(d)

(* Overlapping changes of a file are seen, and what an upload that         *)
(* overlaps none has stored is there.                                      *)
Overlaps ==
  \A f \in Files : /\ \A u, v \in Uploading(f) : u # v => u \in mixed
                   /\ Changing(f) => Uploading(f) \subseteq mixed
Arrived ==
  \A t \in transfers :
    /\ upload[t.upload].pc # "idle"
    /\ t.state = "ok" /\ InProgress(t.upload) =>
         LET u == t.upload
             f == FileOf[u]
         IN /\ f \notin clean /\ Reading(f) \subseteq disturbed
            /\ u \notin mixed => /\ Holds(t.server, f, t.chunk_id, u, u)
                                 /\ Serves(t.server, f, t.chunk_id, u)

(* The replicas it may choose from are entered with their ports.           *)
Ported(d) == \A k \in download[d].records : k.server \in up => entry[k.server] = "ports"
AskingPorted == \A d \in Downloads \ disturbed : download[d].pc = "asking" => Ported(d)

CleanInv == /\ Inv /\ Shaped /\ EntryTyped /\ GoodRecords /\ ReadersWell /\ AskingPorted
            /\ Overlaps /\ Arrived /\ CleanDownloadSucceeds

-----------------------------------------------------------------------------
(* What a retrieval gives.                                                 *)
Retrieves(k, f, h) ==
  /\ ReadChunkFromServer(k, f) \subseteq {h}
  /\ Reached(k.server) => h \in ReadChunkFromServer(k, f) /\ Retrieved(k, f) # {}
  /\ ~Reached(k.server) => ReadChunkFromServer(k, f) = {}

LEMMA GoodRetrieval ==
  ASSUME NodesTyped, NEW k \in ChunkRecord, NEW f \in Files, NEW h,
         Holds(k.server, f, k.chunk_id, k.path, h), Serves(k.server, f, k.chunk_id, h)
  PROVE  Retrieves(k, f, h)
<1> DEFINE found == Retrieved(k, f)
<1>1. k.path \in Paths
  BY DEF ChunkRecord
<1>2. /\ \A p \in found : /\ Reached(k.server)
                          /\ \/ \E e \in registry[k.server] : e.file = f /\ e.chunk_id = k.chunk_id /\ e.path = p
                             \/ p = k.path
      /\ Reached(k.server) => found # {}
  <2>1. /\ \A p \in Served(k, f, {k.path}) :
             \/ \E e \in registry[k.server] : e.file = f /\ e.chunk_id = k.chunk_id /\ e.path = p
             \/ p = k.path
        /\ k.server \in up => Served(k, f, {k.path}) # {}
    BY <1>1, ServedPaths, SMT DEF Holds
  <2>2. Reached(k.server) => k.server \in up
    BY DEF Reached
  <2>3. found = IF Reached(k.server) THEN Served(k, f, {k.path}) ELSE {}
    BY DEF Retrieved
  <2> HIDE DEF found
  <2> QED
    BY <2>1, <2>2, <2>3
<1>3. ReadChunkFromServer(k, f) = {content[FileAt(k.server, f, k.chunk_id, p)] : p \in found}
  BY DEF ReadChunkFromServer
<1> HIDE DEF found
<1>4. \A p \in found : content[FileAt(k.server, f, k.chunk_id, p)] = h
  BY <1>2, SMT DEF Holds, Serves
<1>5. ReadChunkFromServer(k, f) \subseteq {h}
  BY <1>3, <1>4
<1>6. ASSUME Reached(k.server)
      PROVE  h \in ReadChunkFromServer(k, f) /\ found # {}
  BY <1>2, <1>3, <1>4, <1>6
<1>7. ASSUME ~Reached(k.server)
      PROVE  ReadChunkFromServer(k, f) = {}
  BY <1>2, <1>3, <1>7
<1> QED
  BY <1>5, <1>6, <1>7 DEF found, Retrieves

LEMMA GoodFetch ==
  ASSUME NodesTyped, NEW k \in ChunkRecord, NEW f \in Files, NEW h, k.server \in up,
         Knows(registry, k.server, f, k.chunk_id), Serves(k.server, f, k.chunk_id, h)
  PROVE  HandlePublicConnection(k, f) = {h}
<1> DEFINE found == Served(k, f, {})
<1>1. /\ \A p \in found : \E e \in registry[k.server] : e.file = f /\ e.chunk_id = k.chunk_id /\ e.path = p
      /\ found # {}
  BY ServedPaths
<1>2. HandlePublicConnection(k, f) = {content[FileAt(k.server, f, k.chunk_id, p)] : p \in found}
  BY DEF HandlePublicConnection
<1> HIDE DEF found
<1>3. \A p \in found : content[FileAt(k.server, f, k.chunk_id, p)] = h
  BY <1>1, SMT DEF Holds, Serves
<1> QED
  BY <1>1, <1>2, <1>3, SMT

(* The vote, when all answers agree.                                       *)
LEMMA MajorityAgreed ==
  ASSUME NEW votes, IsFiniteSet(votes), NEW h \in Uploads, \A v \in votes : v.hash = h,
         NEW c, NEW v0 \in votes, v0.key.chunk_id = c
  PROVE  Majority(votes, c) = h
<1> DEFINE N(g) == Cardinality(VotesFor(votes, c, g))
           Most == {g \in Hashes : \A i \in Hashes : N(i) <= N(g)}
<1>1. \A g : VotesFor(votes, c, g) \in SUBSET votes
  BY DEF VotesFor
<1>2. \A g : IsFiniteSet(VotesFor(votes, c, g))
  BY <1>1, FS_Subset
<1>3. \A g : N(g) \in Nat /\ (N(g) = 0 <=> VotesFor(votes, c, g) = {})
  BY <1>2, FS_CardinalityType, FS_EmptySet
<1>4. v0 \in VotesFor(votes, c, h)
  BY DEF VotesFor
<1>5. \A g : g # h => VotesFor(votes, c, g) = {}
  BY DEF VotesFor
<1>6. h \in Hashes /\ h \in Nat
  BY Constants
<1>7. N(h) \in Nat /\ N(h) # 0 /\ \A g : g # h => N(g) = 0
  BY <1>3, <1>4, <1>5
<1>8. Majority(votes, c) = Min(Most)
  BY DEF Majority
<1> HIDE DEF N
<1>9. Most = {h}
  BY <1>6, <1>7, SMT
<1> HIDE DEF Most
<1>10. Min({h}) = h
  <2>1. \E x \in {h} : \A y \in {h} : x <= y
    BY <1>6, SMT
  <2> QED
    BY <2>1 DEF Min
<1> QED
  BY <1>8, <1>9, <1>10

LEMMA VotesFinite ==
  ASSUME NEW records, IsFiniteSet(records), NEW h, NEW votes,
         votes \subseteq [key : ChunkRecord, hash : Uploads],
         \A v \in votes : v.hash = h /\ v.key \in records
  PROVE  IsFiniteSet(votes)
<1> DEFINE F == [k \in records |-> [key |-> k, hash |-> h]]
<1>1. F = [k \in records |-> F[k]]
  OBVIOUS
<1>2. votes \in SUBSET {F[k] : k \in records}
  <2>1. \A v \in votes : v = F[v.key]
    BY SMT
  <2> QED
    BY <2>1
<1> HIDE DEF F
<1>3. IsFiniteSet({F[k] : k \in records})
  BY <1>1, ImageFinite
<1> QED
  BY <1>2, <1>3, FS_Subset

(* A file put together from all its chunks is the file.                    *)
LEMMA WholeFile ==
  ASSUME NEW h, NEW got, got = [c \in DOMAIN Content(h) |-> h]
  PROVE  Assembled(got) = Content(h)
<1> DEFINE D == DOMAIN Content(h)
<1>1. CASE upload[h].empty
  <2>1. Content(h) = [c \in {} |-> 0]
    BY <1>1 DEF Content
  <2>2. DOMAIN got = {}
    BY <2>1
  <2>3. {c \in DOMAIN got : c < Cardinality(DOMAIN got)} = {}
    BY <2>2
  <2> QED
    BY <2>1, <2>3 DEF Assembled
<1>2. CASE ~upload[h].empty
  <2>1. Content(h) = [c \in ChunkIds |-> h]
    BY <1>2 DEF Content
  <2>2. DOMAIN got = ChunkIds /\ got = [c \in ChunkIds |-> h]
    BY <2>1
  <2>3. Cardinality(ChunkIds) \in Nat /\ ChunkIds = 0 .. Cardinality(ChunkIds) - 1
    BY GridAssumption, FS_CardinalityType
  <2>4. {c \in ChunkIds : c < Cardinality(ChunkIds)} = ChunkIds
    BY <2>3, SMT
  <2> QED
    BY <2>1, <2>2, <2>4 DEF Assembled
<1> QED
  BY <1>1, <1>2

-----------------------------------------------------------------------------
(* What a step leaves of version h of file f on the servers.               *)
NodesKeep(f, h) ==
  /\ \A s \in Servers, c \in ChunkIds, p \in Paths : Holds(s, f, c, p, h) => Holds(s, f, c, p, h)'
  /\ \A s \in Servers, c \in ChunkIds : Serves(s, f, c, h) => Serves(s, f, c, h)'
  /\ \A s \in Servers, c \in ChunkIds :
       s \in up' /\ Knows(registry, s, f, c) => Knows(registry', s, f, c)

LEMMA NodesSame ==
  ASSUME UNCHANGED <<registry, content>>, NEW f, NEW h
  PROVE  NodesKeep(f, h)
BY DEF NodesKeep, Holds, Serves, Knows

(* A new path at which version h is does no harm.                          *)
LEMMA ContentKeeps ==
  ASSUME NodesTyped, NEW f \in Files, NEW h,
         \A s \in Servers, c \in ChunkIds, p \in Paths : Holds(s, f, c, p, h) => Holds(s, f, c, p, h)',
         \A s \in Servers : \A e \in registry'[s] : e.file = f =>
           e \in Entries /\ (e \in registry[s] \/ Holds(s, f, e.chunk_id, e.path, h)'),
         \A s \in Servers, c \in ChunkIds :
           s \in up' /\ Knows(registry, s, f, c) => Knows(registry', s, f, c)
  PROVE  NodesKeep(f, h)
<1>1. ASSUME NEW s \in Servers, NEW c \in ChunkIds, Serves(s, f, c, h),
             NEW e \in registry'[s], e.file = f, e.chunk_id = c
      PROVE  Holds(s, f, c, e.path, h)'
  <2>1. e \in Entries /\ e.path \in Paths
    BY <1>1 DEF Entries
  <2>2. CASE e \in registry[s]
    BY <1>1, <2>1, <2>2 DEF Serves
  <2>3. CASE e \notin registry[s]
    BY <1>1, <2>3
  <2> QED
    BY <2>2, <2>3
<1>2. \A s \in Servers, c \in ChunkIds : Serves(s, f, c, h) => Serves(s, f, c, h)'
  BY <1>1 DEF Serves
<1> QED
  BY <1>2 DEF NodesKeep

LEMMA AskKeeps ==
  ASSUME NodesTyped, NEW k \in ChunkRecord, NEW f0 \in Files,
         registry' \in {registry, AfterRetrieval(k, f0)}, UNCHANGED content,
         NEW f \in Files, NEW h,
         registry' # registry /\ f = f0 => Holds(k.server, f, k.chunk_id, k.path, h)
  PROVE  NodesKeep(f, h)
<1>1. CASE registry' = registry
  BY <1>1, NodesSame
<1>2. CASE registry' # registry
  <2> DEFINE R == AfterRetrieval(k, f0)
  <2>1. /\ RegistryTyped(R)
        /\ \A s \in Servers : \A e \in R[s] :
             \/ e \in registry[s]
             \/ s = k.server /\ e.file = f0 /\ e.chunk_id = k.chunk_id /\ e.path = k.path
        /\ \A s \in Servers : \A g, c : Knows(registry, s, g, c) => Knows(R, s, g, c)
    <3>1. /\ RegistryTyped(R)
          /\ \A s \in Servers : \A e \in R[s] :
               \/ e \in registry[s]
               \/ /\ s = k.server /\ e.file = f0 /\ e.chunk_id = k.chunk_id /\ e.path = k.path
                  /\ ~Knows(registry, s, f0, k.chunk_id)
                  /\ R # registry
          /\ \A s \in Servers : \A g, c : Knows(registry, s, g, c) => Knows(R, s, g, c)
      BY RetrievalEntries
    <3> QED
      BY <3>1
  <2>2. registry' = R
    BY <1>2
  <2> HIDE DEF R
  <2>3. \A s, c, p : Holds(s, f, c, p, h) => Holds(s, f, c, p, h)'
    BY DEF Holds
  <2>4. \A s \in Servers : registry'[s] \subseteq Entries
    BY <2>1, <2>2 DEF RegistryTyped
  <2>5. ASSUME NEW s \in Servers, NEW e \in registry'[s], e.file = f
        PROVE  e \in Entries /\ (e \in registry[s] \/ Holds(s, f, e.chunk_id, e.path, h)')
    BY <1>2, <2>1, <2>2, <2>3, <2>4, <2>5
  <2>6. /\ \A s \in Servers, c \in ChunkIds, p \in Paths : Holds(s, f, c, p, h) => Holds(s, f, c, p, h)'
        /\ \A s \in Servers, c \in ChunkIds :
             s \in up' /\ Knows(registry, s, f, c) => Knows(registry', s, f, c)
    BY <2>1, <2>2, <2>3
  <2> QED
    BY <2>5, <2>6, ContentKeeps
<1> QED
  BY <1>1, <1>2

LEMMA StoreKeeps ==
  ASSUME NodesTyped, NEW reg, RegistryTyped(reg), NEW s0 \in Servers, NEW f0 \in Files,
         NEW c0 \in ChunkIds, NEW p0 \in Paths, NEW data \in Uploads,
         StoreChunk(reg, s0, f0, c0, p0, data),
         NEW f \in Files, NEW h,
         \A s \in Servers : \A e \in reg[s] : e.file = f =>
           e \in registry[s] \/ Holds(s, f, e.chunk_id, e.path, h),
         \A s \in Servers : \A g, c : Knows(registry, s, g, c) => Knows(reg, s, g, c),
         f = f0 => data = h
  PROVE  NodesKeep(f, h)
<1> DEFINE x0 == FileAt(s0, f0, c0, p0)
<1>0. ChunkStored(reg, s0, f0, c0, p0, data)
  BY StoreChunkEntries
<1>1. /\ NodesTyped'
      /\ \A r \in Servers : \A e \in Entries :
           e \in registry'[r] <=> IF r = s0 /\ e.file = f0 /\ e.chunk_id = c0 THEN e.path = p0
                                  ELSE e \in reg[r]
      /\ DOMAIN content' = DOMAIN content \cup {x0}
      /\ content'[x0] = data
      /\ \A x \in DOMAIN content : x # x0 => content'[x] = content[x]
  BY <1>0 DEF ChunkStored
<1>2. \A s, c, p : FileAt(s, f, c, p) = x0 => f = f0
  BY DEF FileAt
<1>3. ASSUME NEW s \in Servers, NEW c \in ChunkIds, NEW p \in Paths, Holds(s, f, c, p, h)
      PROVE  Holds(s, f, c, p, h)'
  <2>1. CASE FileAt(s, f, c, p) = x0
    BY <1>1, <1>2, <2>1 DEF Holds
  <2>2. CASE FileAt(s, f, c, p) # x0
    BY <1>1, <1>3, <2>2 DEF Holds
  <2> QED
    BY <2>1, <2>2
<1>4. \A r \in Servers : registry'[r] \subseteq Entries /\ reg[r] \subseteq Entries
  BY <1>1 DEF NodesTyped, RegistryTyped
<1>5. ASSUME NEW s \in Servers, NEW e \in registry'[s], e.file = f
      PROVE  e \in Entries /\ (e \in registry[s] \/ Holds(s, f, e.chunk_id, e.path, h)')
  <2>1. e \in Entries /\ e.chunk_id \in ChunkIds /\ e.path \in Paths
    BY <1>4 DEF Entries
  <2>2. CASE s = s0 /\ e.file = f0 /\ e.chunk_id = c0
    <3>1. e.path = p0 /\ f = f0
      BY <1>1, <1>5, <2>1, <2>2
    <3>2. Holds(s, f, e.chunk_id, e.path, h)'
      BY <1>1, <2>2, <3>1 DEF Holds
    <3> QED
      BY <2>1, <3>2
  <2>3. CASE ~(s = s0 /\ e.file = f0 /\ e.chunk_id = c0)
    <3>1. e \in reg[s]
      BY <1>1, <1>5, <2>1, <2>3
    <3> QED
      BY <1>3, <1>5, <2>1, <3>1
  <2> QED
    BY <2>2, <2>3
<1>6. ASSUME NEW s \in Servers, NEW c \in ChunkIds, Knows(registry, s, f, c)
      PROVE  Knows(registry', s, f, c)
  <2>1. PICK e \in reg[s] : e.file = f /\ e.chunk_id = c
    BY <1>6, SMT DEF Knows
  <2>2. e \in Entries
    BY <1>4
  <2>3. CASE s = s0 /\ f = f0 /\ c = c0
    <3> DEFINE y == [file |-> f0, chunk_id |-> c0, path |-> p0]
    <3>1. y \in Entries /\ y.file = f0 /\ y.chunk_id = c0 /\ y.path = p0
      BY DEF Entries
    <3> HIDE DEF y
    <3>2. y \in registry'[s]
      BY <1>1, <2>3, <3>1
    <3> QED
      BY <2>3, <3>1, <3>2 DEF Knows
  <2>4. CASE ~(s = s0 /\ f = f0 /\ c = c0)
    BY <1>1, <2>1, <2>2, <2>4 DEF Knows
  <2> QED
    BY <2>3, <2>4
<1> QED
  BY <1>3, <1>5, <1>6, ContentKeeps

-----------------------------------------------------------------------------
(* What a step must leave alone for the invariant to last: what is         *)
(* protected was so before, and what is guarded stays on the servers; ...  *)
ProtectedFact == \A f \in Files, h \in Uploads : Protected(f, h)' => Protected(f, h)
NodesFact == \A f \in Files, h \in Uploads : Guarded(f, h) /\ Guarded(f, h)' => NodesKeep(f, h)
(* ... a record that comes into use, and a copy, is good, ...              *)
RecordsFact == \A f \in Files, h \in Uploads : Protected(f, h)' =>
                 /\ \A k \in InUse(f)' : k \in InUse(f) \/ Good(f, h, k)'
                 /\ \A x \in Copies(f)' : x \in Copies(f) \/ Right(x, h)'
AskingFact ==
  \A d \in Downloads : download'[d].pc = "asking" =>
    \/ /\ download[d].pc = "asking" /\ download'[d].file_hash = download[d].file_hash
       /\ download'[d].records = download[d].records
    \/ download'[d].records = Records(FileOf[d])
(* ... overlaps are noted, ...                                             *)
OverlapFact ==
  /\ mixed \subseteq mixed'
  /\ \A f \in Files : /\ Uploading(f)' \subseteq Uploading(f)
                      /\ Changing(f)' => Changing(f) \/ Uploading(f) \subseteq mixed'
(* ... and so are the downloads that lose a server, or a version.          *)
ReadersFact ==
  /\ disturbed \subseteq disturbed'
  /\ \A d \in Downloads \ disturbed' : IsReading(d)' =>
       \/ download'[d] = download[d] /\ up \subseteq up'
       \/ /\ download'[d].pc = "asking" => AskingWell(d)'
          /\ download'[d].pc = "fetching" => FetchingWell(d)'
ArrivedFact ==
  /\ mixed \subseteq mixed'
  /\ \A t \in transfers' :
       /\ upload'[t.upload].pc # "idle"
       /\ t.state = "ok" /\ InProgress(t.upload)' =>
            /\ FileOf[t.upload] \notin clean' /\ Reading(FileOf[t.upload])' \subseteq disturbed'
            /\ \/ t \in transfers /\ InProgress(t.upload)
               \/ /\ Holds(t.server, FileOf[t.upload], t.chunk_id, t.upload, t.upload)'
                  /\ Serves(t.server, FileOf[t.upload], t.chunk_id, t.upload)'

LEMMA ProtectedCommitted ==
  ASSUME Inv, NEW f, NEW h, Protected(f, h)
  PROVE  Committed(h, f)
BY DEF Inv, StoreCommitted, SnapshotCommitted, Protected, CleanVersion, ReadVersion, IsReading

LEMMA CommittedContent ==
  ASSUME UploadsKept, NEW f, NEW h, Committed(h, f)
  PROVE  Content(h)' = Content(h)
BY DEF UploadsKept, Committed, Content

LEMMA InUseTyped ==
  ASSUME Shaped, NEW f
  PROVE  InUse(f) \subseteq ChunkRecord
<1>1. Records(f) \subseteq ChunkRecord
  BY RecordsTyped DEF Shaped
<1>2. Updates(f) \subseteq ChunkRecord
  <2>1. ASSUME NEW s \in Failovers, failover[s].pc \in {"files", "repair"}, f \in DOMAIN failover[s].updates
        PROVE  failover[s].updates[f] \subseteq ChunkRecord
    BY <2>1, SMT DEF Shaped, FailoversTyped, FailoverShape, Idle
  <2> QED
    BY <2>1 DEF Updates
<1>3. Sourced(f) \subseteq ChunkRecord
  <2>1. ASSUME NEW s \in Failovers, failover[s].pc \in {"files", "repair"}
        PROVE  failover[s].records \subseteq ChunkRecord
    BY <2>1, SMT DEF Shaped, FailoversTyped, FailoverShape, Idle
  <2> QED
    BY <2>1 DEF Sourced
<1> QED
  BY <1>1, <1>2, <1>3 DEF InUse

LEMMA GoodStays ==
  ASSUME NEW f, NEW h, NodesKeep(f, h), Content(h)' = Content(h), NEW k \in ChunkRecord, Good(f, h, k)
  PROVE  Good(f, h, k)'
<1>1. k.server \in Servers /\ k.chunk_id \in ChunkIds /\ k.path \in Paths
  BY DEF ChunkRecord
<1> QED
  BY <1>1 DEF Good, NodesKeep

LEMMA GoodFollows ==
  ASSUME CleanInv, UploadsKept, ProtectedFact, NodesFact, RecordsFact, AskingFact
  PROVE  GoodRecords'
<1> SUFFICES ASSUME NEW f \in Files, NEW h \in Uploads, Protected(f, h)'
             PROVE  /\ \A k \in InUse(f)' : Good(f, h, k)'
                    /\ \A x \in Copies(f)' : Right(x, h)'
                    /\ \A d \in Downloads :
                         FileOf[d] = f /\ download'[d].pc = "asking" /\ download'[d].file_hash = h
                           => \A k \in download'[d].records : Good(f, h, k)'
  BY DEF GoodRecords
<1>1. Inv /\ Shaped /\ GoodRecords
  BY DEF CleanInv
<1>2. Protected(f, h)
  BY DEF ProtectedFact
<1>3. NodesKeep(f, h)
  BY <1>2 DEF NodesFact, Guarded
<1>4. Content(h)' = Content(h)
  BY <1>1, <1>2, ProtectedCommitted, CommittedContent
<1>5. \A k \in InUse(f) : Good(f, h, k) /\ Good(f, h, k)'
  BY <1>1, <1>2, <1>3, <1>4, InUseTyped, GoodStays DEF GoodRecords
<1>6. \A k \in InUse(f)' : Good(f, h, k)'
  BY <1>5 DEF RecordsFact
<1>7. ASSUME NEW d \in Downloads, FileOf[d] = f, download'[d].pc = "asking", download'[d].file_hash = h,
             NEW k \in download'[d].records
      PROVE  Good(f, h, k)'
  <2>1. CASE download'[d].records = Records(FileOf[d])
    BY <1>5, <1>7, <2>1 DEF InUse
  <2>2. CASE /\ download[d].pc = "asking" /\ download'[d].file_hash = download[d].file_hash
             /\ download'[d].records = download[d].records
    <3>1. Good(f, h, k)
      BY <1>1, <1>2, <1>7, <2>2 DEF GoodRecords
    <3>2. DownloadShape(download[d])
      BY <1>1 DEF Shaped, DownloadsTyped
    <3>3. download[d].records \subseteq ChunkRecord
      BY <2>2, <3>2, SMT DEF DownloadShape, Idle, Asking
    <3> QED
      BY <1>3, <1>4, <1>7, <2>2, <3>1, <3>3, GoodStays
  <2> QED
    BY <1>7, <2>1, <2>2 DEF AskingFact
<1>8. ASSUME NEW x \in Copies(f)'
      PROVE  Right(x, h)'
  <2>1. x \in Copies(f) => Right(x, h)
    BY <1>1, <1>2 DEF GoodRecords
  <2>2. Right(x, h) => Right(x, h)'
    BY <1>4 DEF Right
  <2> QED
    BY <1>8, <2>1, <2>2 DEF RecordsFact
<1> QED
  BY <1>6, <1>7, <1>8

LEMMA OverlapsFollow ==
  ASSUME CleanInv, OverlapFact
  PROVE  Overlaps'
<1>1. Overlaps
  BY DEF CleanInv
<1> SUFFICES ASSUME NEW f \in Files
             PROVE  /\ \A u, v \in Uploading(f)' : u # v => u \in mixed'
                    /\ Changing(f)' => Uploading(f)' \subseteq mixed'
  BY DEF Overlaps
<1>2. Uploading(f)' \subseteq Uploading(f) /\ mixed \subseteq mixed'
  BY DEF OverlapFact
<1>3. \A u, v \in Uploading(f) : u # v => u \in mixed
  BY <1>1 DEF Overlaps
<1>4. Changing(f)' => Uploading(f) \subseteq mixed'
  BY <1>1, <1>2 DEF Overlaps, OverlapFact
<1> QED
  BY <1>2, <1>3, <1>4

LEMMA ReadersFollow ==
  ASSUME CleanInv, UploadsKept, NodesFact, ReadersFact
  PROVE  ReadersWell'
<1>1. Inv /\ Shaped /\ ReadersWell
  BY DEF CleanInv
<1> SUFFICES ASSUME NEW d \in Downloads \ disturbed', download'[d] = download[d], up \subseteq up',
                    IsReading(d)'
             PROVE  /\ download'[d].pc = "asking" => AskingWell(d)'
                    /\ download'[d].pc = "fetching" => FetchingWell(d)'
  BY DEF ReadersWell, ReadersFact, IsReading
<1> DEFINE s == download[d]
           f == FileOf[d]
           h == s.file_hash
<1>2. d \notin disturbed /\ IsReading(d)
  BY DEF ReadersFact, IsReading
<1>3. ReadVersion(f, h) /\ ReadVersion(f, h)'
  BY <1>2 DEF ReadVersion
<1>4. f \in Files /\ h \in Uploads /\ Committed(h, f)
  BY <1>1, <1>2, Constants DEF Inv, SnapshotCommitted, IsReading, Committed
<1>5. NodesKeep(f, h)
  BY <1>3, <1>4 DEF NodesFact, Guarded, Protected
<1>6. Content(h)' = Content(h)
  BY <1>4, CommittedContent
<1>7. ASSUME s.pc = "asking"
      PROVE  AskingWell(d)'
  <2>1. AskingWell(d)
    BY <1>1, <1>2, <1>7 DEF ReadersWell
  <2>2. DownloadShape(s)
    BY <1>1 DEF Shaped, DownloadsTyped
  <2>3. s.votes \subseteq [key : ChunkRecord, hash : Uploads]
    BY <1>7, <2>2, SMT DEF DownloadShape, Idle, Asking
  <2>4. ASSUME NEW v \in s.votes
        PROVE  /\ v.hash = h /\ v.key \in s.asked /\ v.key.server \in up'
               /\ Knows(registry', v.key.server, f, v.key.chunk_id)
    <3>1. v.key.server \in Servers /\ v.key.chunk_id \in ChunkIds
      BY <2>3 DEF ChunkRecord
    <3> QED
      BY <1>5, <2>1, <3>1 DEF AskingWell, NodesKeep
  <2>5. \A c \in DOMAIN Content(h) : \E k \in s.records :
          k.chunk_id = c /\ k.server \in up' /\ (k \in s.asked => \E v \in s.votes : v.key = k)
    BY <2>1 DEF AskingWell
  <2> QED
    BY <1>6, <2>4, <2>5, SMT DEF AskingWell
<1>8. ASSUME s.pc = "fetching"
      PROVE  FetchingWell(d)'
  <2>1. FetchingWell(d)
    BY <1>1, <1>2, <1>8 DEF ReadersWell
  <2>2. ASSUME NEW c \in DOMAIN Content(h)
        PROVE  /\ s.plan[c] \in ChunkRecord
               /\ s.plan[c].chunk_id = c /\ s.plan[c].server \in up' /\ s.expect[c] = h
               /\ Knows(registry', s.plan[c].server, f, c) /\ Serves(s.plan[c].server, f, c, h)'
               /\ c \in s.ported
    <3>1. /\ s.plan[c] \in ChunkRecord
          /\ s.plan[c].chunk_id = c /\ s.plan[c].server \in up /\ s.expect[c] = h
          /\ Knows(registry, s.plan[c].server, f, c) /\ Serves(s.plan[c].server, f, c, h)
          /\ c \in s.ported
      BY <2>1 DEF FetchingWell
    <3>2. s.plan[c].server \in Servers /\ c \in ChunkIds
      BY <3>1 DEF ChunkRecord
    <3> QED
      BY <1>5, <3>1, <3>2 DEF NodesKeep
  <2>3. s.left \subseteq DOMAIN Content(h) /\ s.got = [c \in DOMAIN Content(h) \ s.left |-> h]
    BY <2>1 DEF FetchingWell
  <2> QED
    BY <1>6, <2>2, <2>3 DEF FetchingWell
<1> QED
  BY <1>7, <1>8

LEMMA ArrivedFollows ==
  ASSUME CleanInv, NodesFact, ArrivedFact
  PROVE  Arrived'
<1>1. Arrived /\ TransfersTyped
  BY DEF CleanInv, Shaped
<1> SUFFICES ASSUME NEW t \in transfers', t.state = "ok", InProgress(t.upload)', t.upload \notin mixed',
                    t \in transfers, InProgress(t.upload)
             PROVE  /\ Holds(t.server, FileOf[t.upload], t.chunk_id, t.upload, t.upload)'
                    /\ Serves(t.server, FileOf[t.upload], t.chunk_id, t.upload)'
  BY DEF Arrived, ArrivedFact
<1> DEFINE u == t.upload
           f == FileOf[u]
<1>2. u \in Uploads /\ t.server \in Servers /\ t.chunk_id \in ChunkIds /\ u \in Paths /\ f \in Files
  BY <1>1, Constants DEF TransfersTyped, Transfer
<1>3. u \notin mixed
  BY DEF ArrivedFact
<1>4. NodesKeep(f, u)
  BY <1>2, <1>3 DEF NodesFact, Guarded, Arriving
<1>5. Holds(t.server, f, t.chunk_id, u, u) /\ Serves(t.server, f, t.chunk_id, u)
  BY <1>1, <1>3 DEF Arrived
<1> QED
  BY <1>2, <1>4, <1>5 DEF NodesKeep

-----------------------------------------------------------------------------
(* The facts a step owes to what it leaves unchanged.                      *)
LEMMA Frames ==
  ASSUME CleanInv
  PROVE  /\ UNCHANGED <<store, failover>> => RecordsFact
         /\ UNCHANGED download => AskingFact
         /\ UNCHANGED <<registry, content>> => NodesFact
         /\ UNCHANGED download /\ disturbed \subseteq disturbed' /\ up \subseteq up' => ReadersFact
         /\ UNCHANGED download /\ disturbed \subseteq disturbed' => CleanDownloadSucceeds'
         /\ UNCHANGED <<upload, transfers, delete, failover>> /\ mixed \subseteq mixed' => OverlapFact
         /\ UNCHANGED <<upload, transfers, download>> /\ mixed \subseteq mixed' /\ clean' \subseteq clean
            /\ disturbed \subseteq disturbed' => ArrivedFact
<1>1. ASSUME UNCHANGED <<store, failover>> PROVE RecordsFact
  BY <1>1 DEF RecordsFact, InUse, Records, Updates, Sourced, Copies
<1>2. ASSUME UNCHANGED download PROVE AskingFact
  BY <1>2 DEF AskingFact
<1>3. ASSUME UNCHANGED <<registry, content>> PROVE NodesFact
  BY <1>3, NodesSame DEF NodesFact
<1>4. ASSUME UNCHANGED download, disturbed \subseteq disturbed', up \subseteq up' PROVE ReadersFact
  BY <1>4 DEF ReadersFact
<1>5. ASSUME UNCHANGED download, disturbed \subseteq disturbed' PROVE CleanDownloadSucceeds'
  BY <1>5 DEF CleanInv, CleanDownloadSucceeds
<1>6. ASSUME UNCHANGED <<upload, transfers, delete, failover>>, mixed \subseteq mixed' PROVE OverlapFact
  BY <1>6 DEF OverlapFact, Uploading, Changing
<1>7. ASSUME UNCHANGED <<upload, transfers, download>>, mixed \subseteq mixed',
             clean' \subseteq clean, disturbed \subseteq disturbed'
      PROVE  ArrivedFact
  BY <1>7 DEF CleanInv, Arrived, ArrivedFact, InProgress, Reading
<1> QED
  BY <1>1, <1>2, <1>3, <1>4, <1>5, <1>6, <1>7

LEMMA ProtectedFrame ==
  ASSUME clean' \subseteq clean, disturbed \subseteq disturbed',
         \A f \in DOMAIN store' \cap clean' : f \in DOMAIN store /\ store'[f].file_hash = store[f].file_hash,
         \A d \in Downloads \ disturbed' : IsReading(d)' =>
           \/ IsReading(d) /\ download'[d].file_hash = download[d].file_hash
           \/ CleanVersion(FileOf[d], download'[d].file_hash)
  PROVE  ProtectedFact
<1> SUFFICES ASSUME NEW f \in Files, NEW h \in Uploads, Protected(f, h)'
             PROVE  Protected(f, h)
  BY DEF ProtectedFact
<1>1. CASE CleanVersion(f, h)'
  BY <1>1 DEF CleanVersion, Protected
<1>2. CASE ReadVersion(f, h)'
  <2>1. PICK d \in Downloads : /\ FileOf[d] = f /\ IsReading(d)' /\ d \notin disturbed'
                               /\ download'[d].file_hash = h
    BY <1>2 DEF ReadVersion
  <2> QED
    BY <2>1 DEF Protected, ReadVersion
<1> QED
  BY <1>1, <1>2 DEF Protected

(* An upload's step that commits nothing and begins nothing.               *)
LEMMA UploadFrame ==
  ASSUME CleanInv, clean' \subseteq clean,
         UNCHANGED <<store, registry, content, up, download, delete, failover, mixed, disturbed>>,
         \A v \in Uploads : /\ InProgress(v)' => InProgress(v)
                            /\ upload[v].pc # "idle" => upload'[v].pc # "idle",
         transfers' \subseteq Transfer,
         \A t \in transfers' : t \in transfers \/ (t.state = "queued" /\ InProgress(t.upload))
  PROVE  /\ ProtectedFact /\ NodesFact /\ RecordsFact /\ AskingFact /\ OverlapFact
         /\ ReadersFact /\ ArrivedFact /\ CleanDownloadSucceeds'
<1>1. Arrived
  BY DEF CleanInv
<1>2. ProtectedFact
  BY ProtectedFrame DEF IsReading
<1>3. \A t \in transfers' : t.upload \in Uploads
  BY DEF Transfer
<1>4. ASSUME NEW f \in Files, NEW v \in Uploading(f)'
      PROVE  v \in Uploading(f)
  <2>1. /\ v \in Uploads /\ FileOf[v] = f
        /\ InProgress(v)' \/ \E t \in transfers' : t.upload = v /\ t.state = "queued"
    BY <1>4 DEF Uploading, InProgress
  <2>2. InProgress(v) \/ \E t \in transfers : t.upload = v /\ t.state = "queued"
    BY <2>1
  <2> QED
    BY <2>1, <2>2 DEF Uploading, InProgress
<1>5. OverlapFact
  BY <1>4 DEF OverlapFact, Changing
<1>6. ASSUME NEW t \in transfers'
      PROVE  upload'[t.upload].pc # "idle"
  <2>1. upload[t.upload].pc # "idle"
    BY <1>1 DEF Arrived, InProgress
  <2> QED
    BY <1>3, <2>1
<1>7. ASSUME NEW t \in transfers', t.state = "ok", InProgress(t.upload)'
      PROVE  /\ FileOf[t.upload] \notin clean' /\ Reading(FileOf[t.upload])' \subseteq disturbed'
             /\ t \in transfers /\ InProgress(t.upload)
  <2>1. t \in transfers /\ InProgress(t.upload)
    BY <1>3, <1>7
  <2>2. FileOf[t.upload] \notin clean /\ Reading(FileOf[t.upload]) \subseteq disturbed
    BY <1>1, <1>7, <2>1 DEF Arrived
  <2>3. Reading(FileOf[t.upload])' = Reading(FileOf[t.upload])
    BY DEF Reading
  <2> QED
    BY <2>1, <2>2, <2>3
<1>8. ArrivedFact
  BY <1>6, <1>7 DEF ArrivedFact
<1> QED
  BY <1>2, <1>5, <1>8, Frames

LEMMA UploadsGoOn ==
  ASSUME CleanInv, NEW u \in Uploads,
         ReceiveChunk(u) \/ AbortUpload(u) \/ (FinishUpload(u) /\ Collected(u) = {})
  PROVE  /\ ProtectedFact /\ NodesFact /\ RecordsFact /\ AskingFact /\ OverlapFact
         /\ ReadersFact /\ ArrivedFact /\ CleanDownloadSucceeds'
<1>1. DOMAIN upload = Uploads /\ TransfersTyped /\ InProgress(u) /\ "pc" \in DOMAIN upload[u]
  BY DEF CleanInv, Shaped, UploadsTyped, Inv, Sessions, InProgress, ReceiveChunk, AbortUpload, FinishUpload
<1>2. /\ UNCHANGED <<store, registry, content, up, download, delete, failover, mixed, disturbed>>
      /\ clean' \subseteq clean
  BY DEF ReceiveChunk, AbortUpload, FinishUpload, nodes, history
<1>3. /\ \A v \in Uploads \ {u} : upload'[v] = upload[v]
      /\ upload'[u].pc # "idle"
  <2>1. CASE ReceiveChunk(u)
    BY <1>1, <2>1 DEF ReceiveChunk
  <2>2. CASE AbortUpload(u)
    BY <1>1, <2>2 DEF AbortUpload
  <2>3. CASE FinishUpload(u)
    BY <1>1, <2>3 DEF FinishUpload
  <2> QED
    BY <2>1, <2>2, <2>3
<1>4. \A v \in Uploads : /\ InProgress(v)' => InProgress(v)
                         /\ upload[v].pc # "idle" => upload'[v].pc # "idle"
  BY <1>1, <1>3 DEF InProgress
<1>5. \A t \in transfers' : t \in transfers \/ (t.state = "queued" /\ t.upload = u)
  BY SMT DEF ReceiveChunk, AbortUpload, FinishUpload, SubmitChunkTransfers
<1>6. Shaped'
  <2>1. UploadStep(u)
    BY DEF UploadStep
  <2> QED
    BY <2>1, UploadsShaped DEF CleanInv
<1>7. transfers' \subseteq Transfer
  BY <1>6 DEF Shaped, TransfersTyped
<1> QED
  BY <1>1, <1>2, <1>4, <1>5, <1>7, UploadFrame

(* An upload begins, and is not of a 0-byte file.                          *)
LEMMA UploadBegins ==
  ASSUME CleanInv, NEW u \in Uploads, StartUpload(u)
  PROVE  /\ Overlaps' /\ (~upload'[u].empty => ArrivedFact /\ ProtectedFact)
         /\ NodesFact /\ AskingFact /\ ReadersFact /\ CleanDownloadSucceeds'
         /\ mixed \subseteq mixed' /\ Uploading(FileOf[u]) \subseteq mixed'
         /\ \A v \in Uploads \ {u} : upload'[v] = upload[v]
         /\ upload'[u].pc # "idle" /\ \A t \in transfers' : t \in transfers /\ t.upload # u
         /\ u \notin mixed' => Uploading(FileOf[u]) = {} /\ ~Changing(FileOf[u])
<1> DEFINE f0 == FileOf[u]
<1>1. /\ DOMAIN upload = Uploads /\ TransfersTyped /\ Arrived /\ Overlaps /\ f0 \in Files
      /\ upload[u].pc = "idle"
  BY Constants, SMT DEF CleanInv, Shaped, UploadsTyped, StartUpload, Idle
<1>2. UNCHANGED <<registry, content, up, crashes, transfers, download, delete, failover, disturbed>>
  BY DEF StartUpload, nodes
<1>3. /\ \A v \in Uploads \ {u} : upload'[v] = upload[v]
      /\ upload'[u].pc # "idle"
  BY <1>1, SMT DEF StartUpload
<1>4. \A t \in transfers' : t \in transfers /\ t.upload # u
  BY <1>1, <1>2 DEF Arrived
<1>5. /\ mixed \subseteq mixed' /\ Uploading(f0) \subseteq mixed'
      /\ u \notin mixed' => Uploading(f0) = {} /\ ~Changing(f0)
  BY DEF StartUpload
<1>6. \A f : Uploading(f)' \subseteq Uploading(f) \cup {u}
  BY <1>2, <1>3 DEF Uploading
<1>7. \A f \in Files : u \in Uploading(f)' => f = f0
  BY DEF Uploading
<1>8. \A f : Changing(f)' <=> Changing(f)
  BY <1>2 DEF Changing
<1>9. Overlaps'
  <2> SUFFICES ASSUME NEW f \in Files
               PROVE  /\ \A v, w \in Uploading(f)' : v # w => v \in mixed'
                      /\ Changing(f)' => Uploading(f)' \subseteq mixed'
    BY DEF Overlaps
  <2>1. /\ \A v, w \in Uploading(f) : v # w => v \in mixed'
        /\ Changing(f) => Uploading(f) \subseteq mixed'
    BY <1>1, <1>5 DEF Overlaps
  <2>2. CASE u \in Uploading(f)'
    <3>1. f = f0
      BY <1>7, <2>2
    <3>2. CASE u \in mixed'
      BY <1>5, <1>6, <3>1, <3>2
    <3>3. CASE u \notin mixed'
      BY <1>5, <1>6, <1>8, <3>1, <3>3
    <3> QED
      BY <3>2, <3>3
  <2>3. CASE u \notin Uploading(f)'
    BY <1>6, <1>8, <2>1, <2>3
  <2> QED
    BY <2>2, <2>3
<1>10. ASSUME ~upload'[u].empty
       PROVE  ArrivedFact /\ ProtectedFact
  <2>1. UNCHANGED <<store, clean>>
    BY <1>10 DEF StartUpload
  <2>2. ProtectedFact
    BY <1>2, <2>1, ProtectedFrame DEF IsReading
  <2>3. \A t \in transfers' : t.upload \in Uploads \ {u} /\ t \in transfers
    BY <1>1, <1>4 DEF TransfersTyped, Transfer
  <2>4. ASSUME NEW t \in transfers'
        PROVE  /\ upload'[t.upload].pc # "idle"
               /\ t.state = "ok" /\ InProgress(t.upload)' =>
                    /\ FileOf[t.upload] \notin clean' /\ Reading(FileOf[t.upload])' \subseteq disturbed'
                    /\ t \in transfers /\ InProgress(t.upload)
    <3>1. upload'[t.upload] = upload[t.upload] /\ t \in transfers
      BY <1>3, <2>3
    <3>2. Reading(FileOf[t.upload])' = Reading(FileOf[t.upload])
      BY <1>2 DEF Reading
    <3> QED
      BY <1>1, <1>2, <2>1, <3>1, <3>2 DEF Arrived, InProgress
  <2>5. ArrivedFact
    BY <1>5, <2>4 DEF ArrivedFact
  <2> QED
    BY <2>2, <2>5
<1> QED
  BY <1>2, <1>3, <1>4, <1>5, <1>9, <1>10, Frames

(* A file's metadata is stored: the records of a clean upload are good,    *)
(* and nobody relies on those they replace.                                *)
LEMMA CommitGood ==
  ASSUME CleanInv, UploadsKept, NEW u \in Uploads, upload[u].pc # "success",
         UNCHANGED <<registry, content, download, failover, disturbed>>,
         DOMAIN store' = DOMAIN store \cup {FileOf[u]}, store'[FileOf[u]].file_hash = u,
         \A g \in DOMAIN store \ {FileOf[u]} : store'[g] = store[g],
         \A g \in clean' : g # FileOf[u] => g \in clean,
         \A h : ReadVersion(FileOf[u], h) => DOMAIN store'[FileOf[u]].chunks = {},
         FileOf[u] \in clean' =>
           /\ Updates(FileOf[u]) = {} /\ Sourced(FileOf[u]) = {} /\ Copies(FileOf[u]) = {}
           /\ \A k \in DOMAIN store'[FileOf[u]].chunks : Good(FileOf[u], u, k)'
  PROVE  GoodRecords'
<1> DEFINE f0 == FileOf[u]
<1>1. Inv /\ Shaped /\ GoodRecords
  BY DEF CleanInv
<1> SUFFICES ASSUME NEW f \in Files, NEW h \in Uploads, Protected(f, h)'
             PROVE  /\ \A k \in InUse(f)' : Good(f, h, k)'
                    /\ \A x \in Copies(f)' : Right(x, h)'
                    /\ \A d \in Downloads :
                         FileOf[d] = f /\ download[d].pc = "asking" /\ download[d].file_hash = h
                           => \A k \in download[d].records : Good(f, h, k)'
  BY DEF GoodRecords
<1>2. ReadVersion(f, h)' <=> ReadVersion(f, h)
  BY DEF ReadVersion, IsReading
<1>3. Updates(f)' = Updates(f) /\ Sourced(f)' = Sourced(f) /\ Copies(f)' = Copies(f)
  BY SMT DEF Updates, Sourced, Copies
<1>4. ASSUME Protected(f, h)
      PROVE  /\ \A k \in InUse(f) : Good(f, h, k)'
             /\ \A x \in Copies(f) : Right(x, h)'
             /\ \A d \in Downloads : FileOf[d] = f /\ download[d].pc = "asking" /\ download[d].file_hash = h
                  => \A k \in download[d].records : Good(f, h, k)'
  <2>1. Content(h)' = Content(h)
    BY <1>1, <1>4, ProtectedCommitted, CommittedContent
  <2>2. \A k : Good(f, h, k) => Good(f, h, k)'
    BY <2>1 DEF Good, Holds, Serves
  <2>3. \A x : Right(x, h) => Right(x, h)'
    BY <2>1 DEF Right
  <2> QED
    BY <1>1, <1>4, <2>2, <2>3 DEF GoodRecords
<1>5. CASE f # f0
  <2>1. Protected(f, h)
    BY <1>2, <1>5 DEF Protected, CleanVersion
  <2>2. Records(f)' = Records(f)
    BY <1>5 DEF Records
  <2> QED
    BY <1>3, <1>4, <2>1, <2>2 DEF InUse
<1>6. CASE f = f0 /\ ReadVersion(f, h)
  <2>1. Records(f)' = {}
    BY <1>6 DEF Records
  <2> QED
    BY <1>3, <1>4, <1>6, <2>1 DEF InUse, Protected
<1>7. CASE f = f0 /\ ~ReadVersion(f, h)
  <2>1. f0 \in clean' /\ h = u
    BY <1>2, <1>7 DEF Protected, CleanVersion
  <2>2. \A k \in InUse(f)' : Good(f, h, k)'
    BY <1>3, <1>7, <2>1 DEF InUse, Records
  <2>3. \A d \in Downloads : ~(download[d].pc = "asking" /\ download[d].file_hash = u)
    BY <1>1 DEF Inv, SnapshotCommitted, Committed
  <2>4. Copies(f)' = {}
    BY <1>3, <1>7, <2>1
  <2> QED
    BY <2>1, <2>2, <2>3, <2>4
<1> QED
  BY <1>5, <1>6, <1>7

CleanRest == GoodRecords /\ ReadersWell /\ Overlaps /\ Arrived /\ CleanDownloadSucceeds

LEMMA FactsSuffice ==
  ASSUME CleanInv, UploadsKept, ProtectedFact, NodesFact, RecordsFact, AskingFact, OverlapFact,
         ReadersFact, ArrivedFact, CleanDownloadSucceeds'
  PROVE  CleanRest'
BY GoodFollows, OverlapsFollow, ReadersFollow, ArrivedFollows DEF CleanRest

LEMMA StartUploadClean ==
  ASSUME CleanInv, UploadsKept, NEW u \in Uploads, StartUpload(u)
  PROVE  CleanRest'
<1> DEFINE f == FileOf[u]
<1>1. /\ Overlaps' /\ (~upload'[u].empty => ArrivedFact /\ ProtectedFact)
      /\ NodesFact /\ AskingFact /\ ReadersFact /\ CleanDownloadSucceeds'
      /\ mixed \subseteq mixed' /\ Uploading(f) \subseteq mixed'
      /\ \A v \in Uploads \ {u} : upload'[v] = upload[v]
      /\ upload'[u].pc # "idle" /\ \A t \in transfers' : t \in transfers /\ t.upload # u
      /\ u \notin mixed' => Uploading(f) = {} /\ ~Changing(f)
  BY UploadBegins
<1>2. UNCHANGED <<registry, content, download, failover, disturbed>>
  BY DEF StartUpload, nodes
<1>3. CASE ~upload'[u].empty
  <2>1. UNCHANGED store
    BY <1>3 DEF StartUpload
  <2>2. RecordsFact
    BY <1>2, <2>1, Frames
  <2> QED
    BY <1>1, <1>3, <2>2, GoodFollows, ReadersFollow, ArrivedFollows DEF CleanRest
<1>4. CASE upload'[u].empty
  <2>1. store' = StoreMetadata(u, {})
    BY <1>4 DEF StartUpload
  <2>2. StoreTyped /\ TransfersTyped /\ Arrived /\ f \in Files
    BY Constants DEF CleanInv, Shaped
  <2>3. /\ DOMAIN store' = DOMAIN store \cup {f}
        /\ store'[f].file_hash = u /\ DOMAIN store'[f].chunks = {}
        /\ \A g \in DOMAIN store \ {f} : store'[g] = store[g]
    BY <2>1, <2>2, StoreMetadataTyped, FS_EmptySet
  <2>4. /\ \A g \in clean' : g # f => g \in clean
        /\ f \in clean' => u \notin mixed'
    BY <1>4 DEF StartUpload
  <2>5. upload[u].pc # "success"
    BY SMT DEF StartUpload, Idle
  <2>6. ~Changing(f) => Updates(f) = {} /\ Sourced(f) = {} /\ Copies(f) = {}
    BY DEF Changing, Updates, Sourced, Copies
  <2>7. GoodRecords'
    BY <1>1, <1>2, <2>3, <2>4, <2>5, <2>6, CommitGood
  <2>8. ASSUME NEW t \in transfers'
        PROVE  /\ upload'[t.upload].pc # "idle"
               /\ t.state = "ok" /\ InProgress(t.upload)' =>
                    /\ FileOf[t.upload] \notin clean' /\ Reading(FileOf[t.upload])' \subseteq disturbed'
                    /\ t \in transfers /\ InProgress(t.upload)
    <3>1. /\ upload'[t.upload] = upload[t.upload] /\ t \in transfers /\ t.upload \in Uploads
          /\ FileOf[t.upload] \in Files
      BY <1>1, <2>2, Constants DEF TransfersTyped, Transfer
    <3>2. Reading(FileOf[t.upload])' = Reading(FileOf[t.upload])
      BY <1>2 DEF Reading
    <3>3. InProgress(t.upload) => t.upload \in Uploading(FileOf[t.upload])
      BY <3>1 DEF Uploading, InProgress
    <3>4. ASSUME t.state = "ok", InProgress(t.upload)
          PROVE  FileOf[t.upload] \notin clean' /\ Reading(FileOf[t.upload]) \subseteq disturbed
      <4>1. FileOf[t.upload] \notin clean /\ Reading(FileOf[t.upload]) \subseteq disturbed
        BY <2>2, <3>1, <3>4 DEF Arrived
      <4> QED
        BY <1>1, <2>4, <3>3, <3>4, <4>1
    <3> QED
      BY <1>2, <2>2, <3>1, <3>2, <3>4 DEF Arrived, InProgress
  <2>9. ArrivedFact
    BY <1>1, <2>8 DEF ArrivedFact
  <2> QED
    BY <1>1, <2>7, <2>9, ReadersFollow, ArrivedFollows DEF CleanRest
<1> QED
  BY <1>3, <1>4

LEMMA FinishUploadClean ==
  ASSUME CleanInv, UploadsKept, NEW u \in Uploads, FinishUpload(u), Collected(u) # {}
  PROVE  CleanRest'
<1> DEFINE f == FileOf[u]
           K == Collected(u)
<1>1. StoreTyped /\ TransfersTyped /\ UploadsTyped /\ Arrived /\ Overlaps /\ f \in Files
  BY Constants DEF CleanInv, Shaped
<1>2. /\ UNCHANGED <<registry, content, up, transfers, download, delete, failover, mixed, disturbed>>
      /\ store' = StoreMetadata(u, K) /\ upload[u].pc = "collecting"
      /\ upload' = [upload EXCEPT ![u].pc = "success"]
  BY DEF FinishUpload, nodes
<1>3. /\ \A g \in clean' : g # f => g \in clean
      /\ f \in clean' => u \notin mixed /\ Cids(K) = ChunkIds
  BY DEF FinishUpload
<1>4. /\ \A v \in Uploads \ {u} : upload'[v] = upload[v]
      /\ upload'[u].pc = "success" /\ upload'[u].empty = upload[u].empty /\ ~upload[u].empty
  BY <1>1, <1>2, SMT DEF UploadsTyped, UploadShape, Idle
<1>5. /\ DOMAIN store' = DOMAIN store \cup {f}
      /\ store'[f].file_hash = u /\ DOMAIN store'[f].chunks = K
      /\ \A g \in DOMAIN store \ {f} : store'[g] = store[g]
  BY <1>1, <1>2, StoreMetadataTyped, CollectedTyped
<1>6. InProgress(u) /\ u \in Uploading(f)
  BY <1>2 DEF InProgress, Uploading
<1>7. ASSUME NEW k \in K
      PROVE  /\ f \notin clean /\ Reading(f) \subseteq disturbed
             /\ f \in clean' => Good(f, u, k)'
  <2>1. PICK t \in transfers : /\ t.upload = u /\ t.state = "ok"
                               /\ k = [chunk_id |-> t.chunk_id, server |-> t.server, path |-> u, cut |-> FALSE]
    BY <1>7 DEF Collected
  <2>2. /\ f \notin clean /\ Reading(f) \subseteq disturbed
        /\ u \notin mixed => Holds(t.server, f, t.chunk_id, u, u) /\ Serves(t.server, f, t.chunk_id, u)
    BY <1>1, <1>6, <2>1 DEF Arrived
  <2>3. k.chunk_id = t.chunk_id /\ k.server = t.server /\ k.path = u /\ t.chunk_id \in ChunkIds
    BY <1>1, <2>1 DEF TransfersTyped, Transfer
  <2>4. DOMAIN Content(u)' = ChunkIds
    BY <1>4 DEF Content
  <2>5. ASSUME u \notin mixed
        PROVE  Holds(t.server, f, t.chunk_id, u, u)' /\ Serves(t.server, f, t.chunk_id, u)'
    BY <1>2, <2>2, <2>5 DEF Holds, Serves
  <2>6. f \in clean' => Good(f, u, k)'
    BY <1>3, <2>3, <2>4, <2>5 DEF Good
  <2> QED
    BY <2>2, <2>6
<1>8. Reading(f) \subseteq disturbed
  BY <1>7
<1>9. \A h : ~ReadVersion(f, h)
  BY <1>8 DEF ReadVersion, Reading, IsReading
<1>10. f \in clean' => Updates(f) = {} /\ Sourced(f) = {} /\ Copies(f) = {}
  <2>1. ~Changing(f) => Updates(f) = {} /\ Sourced(f) = {} /\ Copies(f) = {}
    BY DEF Changing, Updates, Sourced, Copies
  <2>2. f \in clean' => ~Changing(f)
    BY <1>1, <1>3, <1>6 DEF Overlaps
  <2> QED
    BY <2>1, <2>2
<1>11. GoodRecords'
  BY <1>2, <1>3, <1>5, <1>7, <1>9, <1>10, CommitGood
<1>12. \A v \in Uploads : InProgress(v)' => InProgress(v) /\ v # u
  BY <1>4 DEF InProgress
<1>13. \A g : Uploading(g)' \subseteq Uploading(g)
  BY <1>2, <1>12 DEF Uploading, InProgress
<1>14. OverlapFact
  BY <1>2, <1>13 DEF OverlapFact, Changing
<1>15. ASSUME NEW t \in transfers'
       PROVE  /\ upload'[t.upload].pc # "idle"
              /\ t.state = "ok" /\ InProgress(t.upload)' =>
                   /\ FileOf[t.upload] \notin clean' /\ Reading(FileOf[t.upload])' \subseteq disturbed'
                   /\ t \in transfers /\ InProgress(t.upload)
  <2>1. t \in transfers /\ t.upload \in Uploads /\ FileOf[t.upload] \in Files
    BY <1>1, <1>2, Constants DEF TransfersTyped, Transfer
  <2>2. upload'[t.upload].pc # "idle"
    BY <1>1, <1>4, <2>1 DEF Arrived
  <2>3. Reading(FileOf[t.upload])' = Reading(FileOf[t.upload])
    BY <1>2 DEF Reading
  <2>4. ASSUME t.state = "ok", InProgress(t.upload)'
        PROVE  /\ FileOf[t.upload] \notin clean' /\ Reading(FileOf[t.upload]) \subseteq disturbed
               /\ InProgress(t.upload)
    <3>1. InProgress(t.upload) /\ t.upload # u
      BY <1>12, <2>1, <2>4
    <3>2. FileOf[t.upload] \notin clean /\ Reading(FileOf[t.upload]) \subseteq disturbed
      BY <1>1, <2>1, <2>4, <3>1 DEF Arrived
    <3>3. t.upload \in Uploading(FileOf[t.upload])
      BY <2>1, <3>1 DEF Uploading, InProgress
    <3>4. FileOf[t.upload] = f => u \in mixed
      BY <1>1, <1>6, <3>1, <3>3 DEF Overlaps
    <3> QED
      BY <1>3, <3>1, <3>2, <3>4
  <2> QED
    BY <1>2, <2>1, <2>2, <2>3, <2>4
<1>16. ArrivedFact
  BY <1>2, <1>15 DEF ArrivedFact
<1>17. NodesFact /\ ReadersFact /\ CleanDownloadSucceeds'
  BY <1>2, Frames
<1> QED
  BY <1>11, <1>14, <1>16, <1>17, OverlapsFollow, ReadersFollow, ArrivedFollows DEF CleanRest

LEMMA UploadsClean ==
  ASSUME CleanInv, NEW u \in Uploads, UploadStep(u)
  PROVE  CleanRest'
<1>1. UploadsKept
  BY UploadSteps DEF CleanInv
<1>2. CASE StartUpload(u)
  BY <1>1, <1>2, StartUploadClean
<1>3. CASE FinishUpload(u) /\ Collected(u) # {}
  BY <1>1, <1>3, FinishUploadClean
<1>4. CASE ReceiveChunk(u) \/ AbortUpload(u) \/ (FinishUpload(u) /\ Collected(u) = {})
  BY <1>1, <1>4, UploadsGoOn, FactsSuffice
<1> QED
  BY <1>2, <1>3, <1>4 DEF UploadStep

-----------------------------------------------------------------------------
(* A step that takes a file from the clean ones and disturbs its readers   *)
(* leaves no version of it protected.                                      *)
LEMMA Unprotected ==
  ASSUME NEW f, f \notin clean', Reading(f) \subseteq disturbed', UNCHANGED download
  PROVE  \A h : ~Protected(f, h)'
BY DEF Protected, CleanVersion, ReadVersion, IsReading, Reading

(* What is stored is served.                                               *)
LEMMA StoredIsServed ==
  ASSUME NodesTyped, NEW reg, RegistryTyped(reg), NEW s \in Servers, NEW f \in Files,
         NEW c \in ChunkIds, NEW p \in Paths, NEW data \in Uploads, StoreChunk(reg, s, f, c, p, data)
  PROVE  Holds(s, f, c, p, data)' /\ Serves(s, f, c, data)'
<1>0. ChunkStored(reg, s, f, c, p, data)
  BY StoreChunkEntries
<1>1. /\ NodesTyped'
      /\ \A r \in Servers : \A e \in Entries :
           e \in registry'[r] <=> IF r = s /\ e.file = f /\ e.chunk_id = c THEN e.path = p
                                  ELSE e \in reg[r]
      /\ DOMAIN content' = DOMAIN content \cup {FileAt(s, f, c, p)}
      /\ content'[FileAt(s, f, c, p)] = data
  BY <1>0 DEF ChunkStored
<1>2. registry'[s] \subseteq Entries
  BY <1>1 DEF NodesTyped, RegistryTyped
<1>3. Holds(s, f, c, p, data)'
  BY <1>1 DEF Holds
<1>4. \A e \in registry'[s] : e.file = f /\ e.chunk_id = c => e.path = p
  BY <1>1, <1>2
<1> QED
  BY <1>3, <1>4 DEF Serves

LEMMA TransfersClean ==
  ASSUME CleanInv, TransferStep
  PROVE  CleanRest'
<1>1. /\ NodesTyped /\ TransfersTyped /\ Arrived /\ Overlaps /\ DOMAIN upload = Uploads
  BY DEF CleanInv, Shaped, UploadsTyped
<1>2. PICK t \in transfers : SendChunk(t) \/ SendChunkFails(t)
  BY DEF TransferStep
<1> DEFINE u == t.upload
           f0 == FileOf[u]
<1>3. /\ t \in Transfer /\ t.state = "queued" /\ u \in Uploads /\ f0 \in Files /\ u \in Paths
      /\ t.server \in Servers /\ t.chunk_id \in ChunkIds
  BY <1>1, <1>2, Constants DEF TransfersTyped, Transfer, SendChunk, SendChunkFails
<1>4. u \in Uploading(f0)
  BY <1>3 DEF Uploading
<1>5. UNCHANGED <<store, up, upload, download, delete, failover, mixed>>
  BY <1>2 DEF SendChunk, SendChunkFails, nodes, history, StoreChunk
<1>6. disturbed \subseteq disturbed' /\ clean' \subseteq clean
  BY <1>2 DEF SendChunk, SendChunkFails, history
<1>7. UploadsKept
  BY <1>5, Unchanged DEF CleanInv
<1>8. PICK st \in {"ok", "failed"} : Done(t, st) /\ (st = "ok" => SendChunk(t))
  BY <1>2 DEF SendChunk, SendChunkFails
<1> DEFINE r == [t EXCEPT !.state = st]
<1>9. r.state = st /\ r.upload = u /\ r.server = t.server /\ r.chunk_id = t.chunk_id
  BY <1>3 DEF Transfer
<1>10. transfers' = (transfers \ {t}) \cup {r}
  BY <1>8 DEF Done
<1> HIDE DEF r
<1>11. ProtectedFact
  BY <1>5, <1>6, ProtectedFrame DEF IsReading
<1>12. \A g : Uploading(g)' \subseteq Uploading(g)
  BY <1>5, <1>9, <1>10 DEF Uploading
<1>13. OverlapFact
  BY <1>5, <1>12 DEF OverlapFact, Changing
<1>14. RecordsFact /\ AskingFact /\ ReadersFact /\ CleanDownloadSucceeds'
  BY <1>5, <1>6, Frames
<1>15. ASSUME SendChunk(t)
       PROVE  /\ f0 \notin clean' /\ Reading(f0)' \subseteq disturbed' /\ NodesFact
              /\ Holds(t.server, f0, t.chunk_id, u, u)' /\ Serves(t.server, f0, t.chunk_id, u)'
  <2>1. /\ StoreChunk(registry, t.server, f0, t.chunk_id, u, u)
        /\ f0 \notin clean' /\ Reading(f0) \subseteq disturbed'
    BY <1>15 DEF SendChunk
  <2>2. Reading(f0)' = Reading(f0)
    BY <1>5 DEF Reading
  <2>3. ASSUME NEW f \in Files, NEW h \in Uploads, Guarded(f, h)'
        PROVE  NodesKeep(f, h)
    <3>1. f = f0 => h = u
      <4> SUFFICES ASSUME f = f0, h # u PROVE FALSE
        OBVIOUS
      <4>1. ~Protected(f0, h)'
        BY <1>5, <2>1, Unprotected
      <4>2. FileOf[h] = f0 /\ InProgress(h)' /\ h \notin mixed'
        BY <2>3, <4>1 DEF Guarded, Arriving
      <4>3. h \in Uploading(f0) /\ h \notin mixed
        BY <1>5, <4>2 DEF Uploading, InProgress
      <4> QED
        BY <1>1, <1>3, <1>4, <4>3 DEF Overlaps
    <3>2. RegistryTyped(registry)
      BY <1>1 DEF NodesTyped
    <3> QED
      BY <1>1, <1>3, <2>1, <3>1, <3>2, StoreKeeps, SMT
  <2>4. NodesFact
    BY <2>3 DEF NodesFact
  <2>5. Holds(t.server, f0, t.chunk_id, u, u)' /\ Serves(t.server, f0, t.chunk_id, u)'
    BY <1>1, <1>3, <2>1, StoredIsServed DEF NodesTyped
  <2> QED
    BY <2>1, <2>2, <2>4, <2>5
<1>16. NodesFact
  <2>1. CASE SendChunkFails(t)
    BY <2>1, Frames DEF SendChunkFails, nodes
  <2> QED
    BY <1>2, <1>15, <2>1
<1>17. ASSUME NEW x \in transfers'
       PROVE  /\ upload'[x.upload].pc # "idle"
              /\ x.state = "ok" /\ InProgress(x.upload)' =>
                   /\ FileOf[x.upload] \notin clean' /\ Reading(FileOf[x.upload])' \subseteq disturbed'
                   /\ \/ x \in transfers /\ InProgress(x.upload)
                      \/ /\ Holds(x.server, FileOf[x.upload], x.chunk_id, x.upload, x.upload)'
                         /\ Serves(x.server, FileOf[x.upload], x.chunk_id, x.upload)'
  <2>1. CASE x \in transfers
    BY <1>1, <1>5, <1>6, <2>1 DEF Arrived, InProgress, Reading
  <2>2. CASE x \notin transfers
    <3>1. x = r
      BY <1>10, <2>2
    <3>2. upload'[x.upload].pc # "idle"
      BY <1>1, <1>5, <1>9, <3>1 DEF Arrived
    <3> QED
      BY <1>8, <1>9, <1>15, <3>1, <3>2
  <2> QED
    BY <2>1, <2>2
<1>18. ArrivedFact
  BY <1>5, <1>17 DEF ArrivedFact
<1> QED
  BY <1>7, <1>11, <1>13, <1>14, <1>16, <1>18, FactsSuffice

-----------------------------------------------------------------------------
(* A step of a download is about its own record, the registry of a server  *)
(* it asks, and the history.                                               *)
LEMMA DownloadFrame ==
  ASSUME CleanInv, NEW d \in Downloads,
         UNCHANGED <<store, upload, transfers, delete, failover, up>>,
         mixed \subseteq mixed', clean' \subseteq clean, disturbed \subseteq disturbed',
         \A e \in Downloads \ {d} : download'[e] = download[e],
         NodesFact,
         IsReading(d)' /\ d \notin disturbed' =>
           \/ IsReading(d) /\ download'[d].file_hash = download[d].file_hash
           \/ CleanVersion(FileOf[d], download'[d].file_hash),
         download'[d].pc = "asking" =>
           \/ /\ download[d].pc = "asking" /\ download'[d].file_hash = download[d].file_hash
              /\ download'[d].records = download[d].records
           \/ download'[d].records = Records(FileOf[d]),
         d \notin disturbed' => /\ download'[d].pc = "asking" => AskingWell(d)'
                                /\ download'[d].pc = "fetching" => FetchingWell(d)'
                                /\ download'[d].pc # "failed"
  PROVE  CleanRest'
<1>1. UploadsKept
  BY Unchanged DEF CleanInv
<1>2. ProtectedFact
  <2>1. ASSUME NEW e \in Downloads \ disturbed', IsReading(e)'
        PROVE  \/ IsReading(e) /\ download'[e].file_hash = download[e].file_hash
               \/ CleanVersion(FileOf[e], download'[e].file_hash)
    BY <2>1 DEF IsReading
  <2> QED
    BY <2>1, ProtectedFrame
<1>3. AskingFact
  BY DEF AskingFact
<1>4. RecordsFact /\ OverlapFact
  BY Frames
<1>5. ReadersFact
  BY DEF ReadersFact, IsReading
<1>6. CleanDownloadSucceeds'
  <2>1. CleanDownloadSucceeds
    BY DEF CleanInv
  <2> QED
    BY <2>1 DEF CleanDownloadSucceeds
<1>7. ArrivedFact
  <2>1. Arrived
    BY DEF CleanInv
  <2>2. ASSUME NEW f, f \notin clean, Reading(f) \subseteq disturbed
        PROVE  Reading(f)' \subseteq disturbed'
    <3> SUFFICES ASSUME NEW e \in Downloads, FileOf[e] = f, IsReading(e)', e \notin disturbed'
                 PROVE  FALSE
      BY DEF Reading, IsReading
    <3>1. IsReading(e) \/ CleanVersion(f, download'[e].file_hash)
      BY DEF IsReading
    <3>2. ~IsReading(e)
      BY <2>2 DEF Reading, IsReading
    <3> QED
      BY <2>2, <3>1, <3>2 DEF CleanVersion
  <2> QED
    BY <2>1, <2>2 DEF Arrived, ArrivedFact, InProgress
<1> QED
  BY <1>1, <1>2, <1>3, <1>4, <1>5, <1>6, <1>7, FactsSuffice

LEMMA StartDownloadClean ==
  ASSUME CleanInv, NEW d \in Downloads, StartDownload(d)
  PROVE  CleanRest'
<1> DEFINE f == FileOf[d]
           s == [pc |-> "asking", file_hash |-> store[f].file_hash, records |-> Records(f),
                 asked |-> {}, votes |-> {}]
<1>1. DOMAIN download = Downloads
  BY DEF CleanInv, Shaped, DownloadsTyped
<1>2. /\ UNCHANGED <<store, upload, transfers, delete, failover, up, registry, content, mixed, clean>>
      /\ disturbed \subseteq disturbed'
      /\ d \notin disturbed' =>
           /\ f \in clean /\ f \in DOMAIN store
           /\ \A c \in DOMAIN Content(store[f].file_hash) :
                \E k \in Records(f) : k.chunk_id = c /\ k.server \in up
  BY DEF StartDownload, nodes
<1>3. \/ f \in DOMAIN store /\ download' = [download EXCEPT ![d] = s]
      \/ f \notin DOMAIN store /\ download' = [download EXCEPT ![d] = [pc |-> "failed"]]
  BY DEF StartDownload, Answer
<1>4. \A e \in Downloads \ {d} : download'[e] = download[e]
  BY <1>1, <1>3
<1>5. \/ f \in DOMAIN store /\ download'[d] = s
      \/ f \notin DOMAIN store /\ download'[d].pc = "failed"
  BY <1>1, <1>3, SMT
<1>6. /\ s.pc = "asking" /\ s.file_hash = store[f].file_hash /\ s.records = Records(f)
      /\ s.asked = {} /\ s.votes = {}
  OBVIOUS
<1> HIDE DEF s
<1>7. NodesFact
  BY <1>2, Frames
<1>8. Content(store[f].file_hash)' = Content(store[f].file_hash)
  BY <1>2 DEF Content
<1>9. ASSUME d \notin disturbed'
      PROVE  /\ download'[d].pc = "asking" /\ AskingWell(d)'
             /\ CleanVersion(f, download'[d].file_hash)
  <2>1. download'[d] = s /\ f \in clean /\ f \in DOMAIN store
    BY <1>2, <1>5, <1>9
  <2>2. AskingWell(d)'
    BY <1>2, <1>6, <1>8, <1>9, <2>1 DEF AskingWell
  <2> QED
    BY <1>6, <2>1, <2>2 DEF CleanVersion
<1>10. download'[d].pc = "asking" => download'[d].records = Records(f)
  BY <1>5, <1>6
<1> QED
  BY <1>2, <1>4, <1>7, <1>9, <1>10, DownloadFrame

(* An undisturbed download reads a protected version, from good records.   *)
LEMMA ReaderGood ==
  ASSUME CleanInv, NEW d \in Downloads \ disturbed, IsReading(d)
  PROVE  /\ FileOf[d] \in Files /\ download[d].file_hash \in Uploads
         /\ Protected(FileOf[d], download[d].file_hash)
         /\ download[d].pc = "asking" =>
              /\ download[d] \in Asking /\ IsFiniteSet(download[d].records)
              /\ download[d].asked \subseteq download[d].records /\ AskingWell(d) /\ Ported(d)
              /\ \A k \in download[d].records : Good(FileOf[d], download[d].file_hash, k)
         /\ download[d].pc = "fetching" =>
              /\ DOMAIN download[d] = {"pc", "file_hash", "plan", "ported", "expect", "left", "got"}
              /\ FetchingWell(d)
<1>1. /\ Inv /\ DownloadShape(download[d]) /\ GoodRecords /\ ReadersWell
  BY DEF CleanInv, Shaped, DownloadsTyped
<1>2. FileOf[d] \in Files /\ download[d].file_hash \in Uploads
  BY <1>1, Constants DEF Inv, SnapshotCommitted, Committed, IsReading
<1>3. Protected(FileOf[d], download[d].file_hash)
  BY DEF Protected, ReadVersion
<1>4. download[d].pc = "asking" =>
        /\ download[d] \in Asking /\ IsFiniteSet(download[d].records)
        /\ download[d].asked \subseteq download[d].records
  BY <1>1, SMT DEF DownloadShape, Idle
<1>5. download[d].pc = "fetching" =>
        DOMAIN download[d] = {"pc", "file_hash", "plan", "ported", "expect", "left", "got"}
  BY <1>1, SMT DEF DownloadShape, Idle, Asking
<1>6. download[d].pc = "asking" => \A k \in download[d].records : Good(FileOf[d], download[d].file_hash, k)
  BY <1>1, <1>2, <1>3 DEF GoodRecords
<1>7. /\ download[d].pc = "asking" => AskingWell(d)
      /\ download[d].pc = "fetching" => FetchingWell(d)
  BY <1>1 DEF ReadersWell
<1>8. download[d].pc = "asking" => Ported(d)
  BY DEF CleanInv, AskingPorted
<1> QED
  BY <1>2, <1>3, <1>4, <1>5, <1>6, <1>7, <1>8

(* Where a chunk is registered anew while it is asked for, it is under the *)
(* path of the version read.                                               *)
LEMMA TakenUpNodes ==
  ASSUME CleanInv, NEW d \in Downloads, download[d].pc = "asking", NEW k \in download[d].records,
         registry' \in {registry, AfterRetrieval(k, FileOf[d])}, NEW extra, TakenUp(d, extra),
         UNCHANGED <<store, content, upload>>,
         \A e \in Downloads : download'[e].pc = download[e].pc /\ download'[e].file_hash = download[e].file_hash
  PROVE  /\ NodesFact
         /\ mixed \subseteq mixed' /\ clean' \subseteq clean /\ disturbed \subseteq disturbed'
         /\ extra \subseteq disturbed'
<1> DEFINE f0 == FileOf[d]
           h0 == download[d].file_hash
<1>1. /\ NodesTyped /\ GoodRecords /\ f0 \in Files /\ k \in ChunkRecord
  BY Constants, SMT DEF CleanInv, Shaped, DownloadsTyped, DownloadShape, Asking, Idle
<1>2. /\ mixed \subseteq mixed' /\ clean' \subseteq clean /\ disturbed \subseteq disturbed'
      /\ extra \subseteq disturbed'
  BY DEF TakenUp
<1>3. ProtectedFact
  BY <1>2, ProtectedFrame DEF IsReading
<1>4. ASSUME NEW f \in Files, NEW h \in Uploads, Guarded(f, h)', registry' # registry, f = f0
      PROVE  Holds(k.server, f, k.chunk_id, k.path, h)
  <2>1. /\ mixed' = mixed \cup Uploading(f0)
        /\ clean' = IF f0 \in DOMAIN store /\ store[f0].file_hash = h0 THEN clean ELSE clean \ {f0}
        /\ {e \in Reading(f0) : download[e].file_hash # h0} \subseteq disturbed'
    BY <1>4 DEF TakenUp
  <2>2. ~Arriving(f, h)'
    BY <1>4, <2>1 DEF Arriving, InProgress, Uploading
  <2>3. Protected(f, h)'
    BY <1>4, <2>2 DEF Guarded
  <2>6. h = h0
    <3>1. CleanVersion(f, h)' => h = h0
      BY <1>4, <2>1 DEF CleanVersion
    <3>2. ReadVersion(f, h)' => h = h0
      BY <1>4, <2>1 DEF ReadVersion, IsReading, Reading
    <3> QED
      BY <2>3, <3>1, <3>2 DEF Protected
  <2>7. Protected(f, h)
    BY <1>3, <2>3 DEF ProtectedFact
  <2>8. Good(f, h, k)
    BY <1>1, <1>4, <2>6, <2>7 DEF GoodRecords
  <2> QED
    BY <2>8 DEF Good
<1>5. ASSUME NEW f \in Files, NEW h \in Uploads, Guarded(f, h)'
      PROVE  NodesKeep(f, h)
  BY <1>1, <1>4, <1>5, AskKeeps
<1> QED
  BY <1>2, <1>5 DEF NodesFact

LEMMA AskReplicaClean ==
  ASSUME CleanInv, NEW d \in Downloads, NEW k \in download[d].records, AskReplica(d, k)
  PROVE  CleanRest'
<1> DEFINE f == FileOf[d]
           h == download[d].file_hash
           answers == {[key |-> k, hash |-> x] : x \in ReadChunkFromServer(k, f)}
<1>1. /\ NodesTyped /\ DOMAIN download = Downloads /\ download[d] \in Asking /\ k \in ChunkRecord
      /\ f \in Files /\ download[d].pc = "asking"
  BY Constants, SMT DEF CleanInv, Shaped, DownloadsTyped, DownloadShape, Asking, Idle, AskReplica
<1>2. UNCHANGED <<store, content, up, upload, transfers, delete, failover>>
  BY DEF AskReplica
<1>3. PICK lost \in BOOLEAN :
        /\ TakenUp(d, IF lost THEN {d} ELSE {}) /\ registry' \in {registry, AfterRetrieval(k, f)}
        /\ ~lost => /\ registry' = AfterRetrieval(k, f)
                    /\ download' = [download EXCEPT ![d].asked = @ \cup {k}, ![d].votes = @ \cup answers]
        /\ lost => download' = [download EXCEPT ![d].asked = @ \cup {k}]
  <2>1. CASE /\ registry' = AfterRetrieval(k, f)
             /\ download' = [download EXCEPT ![d].asked = @ \cup {k}, ![d].votes = @ \cup answers]
             /\ TakenUp(d, {})
    <3> WITNESS FALSE \in BOOLEAN
    <3> QED
      BY <2>1
  <2>2. CASE /\ download' = [download EXCEPT ![d].asked = @ \cup {k}]
             /\ registry' \in {registry, AfterRetrieval(k, f)}
             /\ TakenUp(d, {d})
    <3> WITNESS TRUE \in BOOLEAN
    <3> QED
      BY <2>2
  <2> QED
    BY <2>1, <2>2 DEF AskReplica
<1>4. DOMAIN download[d] = {"pc", "file_hash", "records", "asked", "votes"}
  BY <1>1 DEF Asking
<1> HIDE DEF answers
<1>5. /\ download'[d].pc = "asking" /\ download'[d].file_hash = h
      /\ download'[d].records = download[d].records
      /\ download'[d].asked = download[d].asked \cup {k}
      /\ ~lost => download'[d].votes = download[d].votes \cup answers
      /\ \A e \in Downloads \ {d} : download'[e] = download[e]
  BY <1>1, <1>3, <1>4, SMT
<1>6. \A e \in Downloads : download'[e].pc = download[e].pc /\ download'[e].file_hash = download[e].file_hash
  BY <1>1, <1>5
<1>7. /\ NodesFact
      /\ mixed \subseteq mixed' /\ clean' \subseteq clean /\ disturbed \subseteq disturbed'
      /\ (IF lost THEN {d} ELSE {}) \subseteq disturbed'
  BY <1>1, <1>2, <1>3, <1>6, TakenUpNodes
<1>8. ASSUME d \notin disturbed'
      PROVE  AskingWell(d)'
  <2>1. ~lost /\ d \notin disturbed /\ IsReading(d)
    BY <1>1, <1>7, <1>8 DEF IsReading
  <2>2. h \in Uploads /\ AskingWell(d) /\ Good(f, h, k) /\ Ported(d)
    BY <1>1, <2>1, ReaderGood
  <2>3. /\ ReadChunkFromServer(k, f) \subseteq {h}
        /\ k.server \in up => h \in ReadChunkFromServer(k, f) /\ Retrieved(k, f) # {}
        /\ k.server \notin up => ReadChunkFromServer(k, f) = {}
    <3>1. Holds(k.server, f, k.chunk_id, k.path, h) /\ Serves(k.server, f, k.chunk_id, h)
      BY <2>2 DEF Good
    <3>2. Retrieves(k, f, h)
      BY <1>1, <3>1, GoodRetrieval
    <3>3. /\ k.server \in up => Reached(k.server)
          /\ k.server \notin up => ~Reached(k.server)
      BY <2>2 DEF Ported, Reached
    <3> QED
      BY <3>2, <3>3 DEF Retrieves
  <2>4. /\ \A s \in Servers : \A g, c : Knows(registry, s, g, c) => Knows(registry', s, g, c)
        /\ Retrieved(k, f) # {} => Knows(registry', k.server, f, k.chunk_id)
    <3> DEFINE R == AfterRetrieval(k, f)
    <3>1. /\ RegistryTyped(R)
          /\ \A s \in Servers : \A e \in R[s] :
               \/ e \in registry[s]
               \/ /\ s = k.server /\ e.file = f /\ e.chunk_id = k.chunk_id /\ e.path = k.path
                  /\ ~Knows(registry, s, f, k.chunk_id)
                  /\ R # registry
          /\ \A s \in Servers : \A g, c : Knows(registry, s, g, c) => Knows(R, s, g, c)
          /\ Retrieved(k, f) # {} => Knows(R, k.server, f, k.chunk_id)
      BY <1>1, RetrievalEntries
    <3>2. registry' = R
      BY <1>3, <2>1
    <3> QED
      BY <3>1, <3>2
  <2>5. Content(h)' = Content(h)
    BY <1>2, <1>5 DEF Content
  <2>6. ASSUME NEW c \in DOMAIN Content(h)
        PROVE  \E j \in download'[d].records : /\ j.chunk_id = c /\ j.server \in up'
                  /\ (j \in download'[d].asked => \E v \in download'[d].votes : v.key = j)
    <3>1. PICK j \in download[d].records : /\ j.chunk_id = c /\ j.server \in up
              /\ (j \in download[d].asked => \E v \in download[d].votes : v.key = j)
      BY <2>2 DEF AskingWell
    <3>2. CASE j # k
      BY <1>2, <1>5, <2>1, <3>1, <3>2, SMT
    <3>3. CASE j = k
      <4>1. h \in ReadChunkFromServer(k, f)
        BY <2>3, <3>1, <3>3
      <4>2. PICK v : v = [key |-> k, hash |-> h]
        OBVIOUS
      <4>3. v \in answers
        BY <4>1, <4>2 DEF answers
      <4>4. v.key = k
        BY <4>2
      <4> QED
        BY <1>2, <1>5, <2>1, <3>1, <3>3, <4>3, <4>4
    <3> QED
      BY <3>2, <3>3
  <2>7. ASSUME NEW v \in download'[d].votes
        PROVE  /\ v.hash = h /\ v.key \in download'[d].asked /\ v.key.server \in up'
               /\ Knows(registry', v.key.server, f, v.key.chunk_id)
    <3>1. CASE v \in download[d].votes
      <4>1. v.key.server \in Servers
        BY <1>1, <3>1 DEF Asking, ChunkRecord
      <4> QED
        BY <1>2, <1>5, <2>2, <2>4, <3>1, <4>1 DEF AskingWell
    <3>2. CASE v \in answers
      <4>1. PICK x \in ReadChunkFromServer(k, f) : v = [key |-> k, hash |-> x]
        BY <3>2 DEF answers
      <4>2. v.hash = h /\ v.key = k /\ k.server \in up
        BY <2>3, <4>1
      <4> QED
        BY <1>2, <1>5, <2>3, <2>4, <4>2
    <3> QED
      BY <1>5, <2>1, <3>1, <3>2
  <2> QED
    BY <1>5, <2>5, <2>6, <2>7, SMT DEF AskingWell
<1> QED
  BY <1>1, <1>2, <1>5, <1>7, <1>8, DownloadFrame DEF IsReading

(* The other steps of a download leave everything else alone.              *)
LEMMA DownloadAlone ==
  ASSUME CleanInv, NEW d \in Downloads, IsReading(d),
         UNCHANGED <<store, registry, content, up, upload, transfers, delete, failover, mixed, clean>>,
         disturbed \subseteq disturbed', NEW s, download' = [download EXCEPT ![d] = s],
         s.pc \in {"fetching", "ok", "failed"},
         d \notin disturbed' =>
           /\ s.pc # "failed"
           /\ s.pc = "fetching" => s.file_hash = download[d].file_hash /\ FetchingWell(d)'
  PROVE  CleanRest'
<1>1. download'[d] = s /\ \A e \in Downloads \ {d} : download'[e] = download[e]
  BY DEF CleanInv, Shaped, DownloadsTyped
<1>2. NodesFact
  BY Frames
<1>3. IsReading(d)' => s.pc = "fetching"
  BY <1>1 DEF IsReading
<1> QED
  BY <1>1, <1>2, <1>3, DownloadFrame

LEMMA DecideClean ==
  ASSUME CleanInv, NEW d \in Downloads, Decide(d)
  PROVE  CleanRest'
<1> DEFINE s == download[d]
           cids == Cids(s.records)
           new(P) == [pc |-> "fetching", file_hash |-> s.file_hash, plan |-> P,
                      ported |-> {c \in cids : entry[P[c].server] = "ports"},
                      expect |-> [c \in cids |-> Majority(s.votes, c)],
                      left |-> cids, got |-> [c \in {} |-> 0]]
           plans == {P \in [cids -> {v.key : v \in s.votes}] : \A c \in cids :
                      P[c] \in {v.key : v \in VotesFor(s.votes, c, Majority(s.votes, c))}}
           decided == \A c \in cids : \E v \in s.votes : v.key.chunk_id = c
<1>1. /\ s.pc = "asking" /\ s.asked = s.records /\ IsReading(d)
      /\ UNCHANGED <<store, registry, content, up, upload, transfers, delete, failover,
                     mixed, clean, disturbed>>
  BY DEF Decide, nodes, history, IsReading
<1>2. /\ decided => \E P \in plans : download' = [download EXCEPT ![d] = new(P)]
      /\ ~decided => Answer(d, "failed")
  BY DEF Decide
<1>3. CASE ~decided
  <2>1. download' = [download EXCEPT ![d] = [pc |-> "failed"]]
    BY <1>2, <1>3 DEF Answer
  <2>2. d \in disturbed
    <3> SUFFICES ASSUME d \notin disturbed PROVE FALSE
      OBVIOUS
    <3>1. /\ \A k \in s.records : Good(FileOf[d], s.file_hash, k)
          /\ AskingWell(d)
      BY <1>1, ReaderGood
    <3>2. PICK c \in cids : ~\E v \in s.votes : v.key.chunk_id = c
      BY <1>3
    <3>3. c \in DOMAIN Content(s.file_hash)
      BY <3>1, <3>2 DEF Cids, Good
    <3>4. PICK k \in s.records : k.chunk_id = c /\ (k \in s.asked => \E v \in s.votes : v.key = k)
      BY <3>1, <3>3 DEF AskingWell
    <3> QED
      BY <1>1, <3>2, <3>4
  <2> QED
    BY <1>1, <2>1, <2>2, DownloadAlone
<1>4. CASE decided
  <2>1. PICK P \in plans : download' = [download EXCEPT ![d] = new(P)]
    BY <1>2, <1>4
  <2>2. /\ new(P).pc = "fetching" /\ new(P).file_hash = s.file_hash /\ new(P).plan = P
        /\ new(P).ported = {c \in cids : entry[P[c].server] = "ports"}
        /\ new(P).expect = [c \in cids |-> Majority(s.votes, c)]
        /\ new(P).left = cids /\ new(P).got = [c \in {} |-> 0]
    OBVIOUS
  <2>3. download'[d] = new(P)
    BY <2>1 DEF CleanInv, Shaped, DownloadsTyped
  <2> HIDE DEF new
  <2>4. ASSUME d \notin disturbed
        PROVE  FetchingWell(d)'
    <3> DEFINE f == FileOf[d]
    <3>1. PICK h : h = s.file_hash
      OBVIOUS
    <3> DEFINE D == DOMAIN Content(h)
    <3>2. /\ h \in Uploads /\ s \in Asking /\ IsFiniteSet(s.records) /\ AskingWell(d) /\ Ported(d)
          /\ \A k \in s.records : Good(f, h, k)
      BY <1>1, <2>4, <3>1, ReaderGood
    <3>3. cids = D
      <4>1. cids \subseteq D
        BY <3>2 DEF Cids, Good
      <4>2. \A c \in D : \E k \in s.records : k.chunk_id = c
        BY <3>1, <3>2 DEF AskingWell
      <4> QED
        BY <4>1, <4>2 DEF Cids
    <3>4. \A v \in s.votes : /\ v.hash = h /\ v.key \in s.records /\ v.key.server \in up
                             /\ Knows(registry, v.key.server, f, v.key.chunk_id)
      BY <1>1, <3>1, <3>2 DEF AskingWell
    <3>5. s.records \subseteq ChunkRecord /\ s.votes \subseteq [key : ChunkRecord, hash : Uploads]
      BY <3>2 DEF Asking
    <3>6. IsFiniteSet(s.votes)
      BY <3>2, <3>4, <3>5, VotesFinite
    <3>7. \A c \in D : Majority(s.votes, c) = h
      BY <1>4, <3>2, <3>3, <3>4, <3>6, MajorityAgreed, SMT
    <3>8. ASSUME NEW c \in D
          PROVE  /\ P[c] \in ChunkRecord /\ P[c].chunk_id = c /\ P[c].server \in up
                 /\ Knows(registry, P[c].server, f, c) /\ Serves(P[c].server, f, c, h)
                 /\ entry[P[c].server] = "ports"
      <4>1. PICK v \in VotesFor(s.votes, c, Majority(s.votes, c)) : P[c] = v.key
        BY <3>3
      <4>2. v \in s.votes /\ v.key.chunk_id = c
        BY <4>1 DEF VotesFor
      <4>3. Good(f, h, v.key)
        BY <3>2, <3>4, <4>2
      <4>4. entry[v.key.server] = "ports"
        BY <3>2, <3>4, <4>2 DEF Ported
      <4> QED
        BY <3>4, <3>5, <4>1, <4>2, <4>3, <4>4 DEF Good
    <3>9. [c \in {} |-> 0] = [c \in D \ D |-> h]
      OBVIOUS
    <3>10. Content(h)' = Content(h)
      BY <1>1 DEF Content
    <3>11. /\ \A c \in D : Serves(P[c].server, f, c, h) => Serves(P[c].server, f, c, h)'
      BY <1>1 DEF Serves, Holds
    <3>12. /\ download'[d].file_hash = h /\ download'[d].plan = P /\ download'[d].left = D
           /\ download'[d].got = [c \in D \ D |-> h]
      BY <2>2, <2>3, <3>1, <3>3, <3>9
    <3>13. \A c \in D : download'[d].expect[c] = h
      <4>1. download'[d].expect = [c \in D |-> Majority(s.votes, c)]
        BY <2>2, <2>3, <3>3
      <4> QED
        BY <3>7, <4>1
    <3>14. \A c \in D : c \in download'[d].ported
      BY <2>2, <2>3, <3>3, <3>8
    <3> QED
      BY <1>1, <3>8, <3>10, <3>11, <3>12, <3>13, <3>14 DEF FetchingWell
  <2> QED
    BY <1>1, <2>1, <2>2, <2>4, DownloadAlone
<1> QED
  BY <1>3, <1>4

LEMMA GetChunkClean ==
  ASSUME CleanInv, NEW d \in Downloads, NEW c0, GetChunk(d, c0)
  PROVE  CleanRest'
<1> DEFINE s == download[d]
           f == FileOf[d]
           k == s.plan[c0]
           data == IF c0 \in s.ported THEN HandlePublicConnection(k, f) ELSE {}
           got == [i \in DOMAIN s.got \cup {c0} |-> IF i = c0 THEN s.expect[c0] ELSE s.got[i]]
           new == [[s EXCEPT !.left = @ \ {c0}] EXCEPT !.got = got]
<1>1. /\ s.pc = "fetching" /\ c0 \in s.left /\ IsReading(d)
      /\ UNCHANGED <<store, registry, content, up, upload, transfers, delete, failover, mixed, clean>>
      /\ disturbed \subseteq disturbed'
  BY DEF GetChunk, nodes, IsReading
<1>2. /\ NodesTyped /\ DOMAIN download = Downloads
      /\ DOMAIN s = {"pc", "file_hash", "plan", "ported", "expect", "left", "got"}
  BY <1>1, SMT DEF CleanInv, Shaped, DownloadsTyped, DownloadShape, Asking, Idle
<1>3. ASSUME d \notin disturbed
      PROVE  data = {s.expect[c0]} /\ FetchingWell(d)
  <2>1. FetchingWell(d) /\ f \in Files
    BY <1>1, <1>3, ReaderGood
  <2>2. /\ k \in ChunkRecord /\ k.chunk_id = c0 /\ k.server \in up /\ s.expect[c0] = s.file_hash
        /\ Knows(registry, k.server, f, c0) /\ Serves(k.server, f, c0, s.file_hash)
        /\ c0 \in s.ported
    BY <1>1, <2>1 DEF FetchingWell
  <2>3. PICK j, h : j = k /\ h = s.file_hash
    OBVIOUS
  <2>4. /\ j \in ChunkRecord /\ j.chunk_id = c0 /\ j.server \in up
        /\ Knows(registry, j.server, f, c0) /\ Serves(j.server, f, c0, h)
    BY <2>2, <2>3
  <2>5. HandlePublicConnection(j, f) = {h}
    BY <1>2, <2>1, <2>4, GoodFetch
  <2> QED
    BY <2>1, <2>2, <2>3, <2>5
<1>4. \/ /\ data = {s.expect[c0]} /\ disturbed' = disturbed
         /\ download' = [download EXCEPT ![d].left = @ \ {c0}, ![d].got =
                           [i \in DOMAIN @ \cup {c0} |-> IF i = c0 THEN s.expect[c0] ELSE @[i]]]
      \/ /\ data # {s.expect[c0]}
         /\ Answer(d, "failed")
      \/ Answer(d, "failed") /\ d \in disturbed'
  BY DEF GetChunk
<1>5. ASSUME Answer(d, "failed"), d \in disturbed'
      PROVE  CleanRest'
  BY <1>1, <1>5, DownloadAlone DEF Answer
<1>6. CASE /\ disturbed' = disturbed
           /\ download' = [download EXCEPT ![d].left = @ \ {c0}, ![d].got =
                           [i \in DOMAIN @ \cup {c0} |-> IF i = c0 THEN s.expect[c0] ELSE @[i]]]
  <2>1. download' = [download EXCEPT ![d] = new]
    BY <1>2, <1>6
  <2>2. /\ new.pc = "fetching" /\ new.file_hash = s.file_hash /\ new.plan = s.plan
        /\ new.expect = s.expect /\ new.left = s.left \ {c0} /\ new.got = got
        /\ new.ported = s.ported
    BY <1>1, <1>2
  <2>3. download'[d] = new
    BY <1>2, <2>1
  <2> HIDE DEF new
  <2>4. ASSUME d \notin disturbed
        PROVE  FetchingWell(d)'
    <3>1. PICK h, P : h = s.file_hash /\ P = s.plan
      OBVIOUS
    <3> DEFINE D == DOMAIN Content(h)
    <3>2. /\ \A c \in D :
               /\ P[c] \in ChunkRecord /\ P[c].chunk_id = c /\ P[c].server \in up /\ s.expect[c] = h
               /\ Knows(registry, P[c].server, f, c) /\ Serves(P[c].server, f, c, h)
               /\ c \in s.ported
          /\ s.left \subseteq D
          /\ s.got = [c \in D \ s.left |-> h]
      BY <1>3, <2>4, <3>1 DEF FetchingWell
    <3>3. got = [c \in D \ (s.left \ {c0}) |-> h]
      <4>1. DOMAIN s.got \cup {c0} = D \ (s.left \ {c0}) /\ s.expect[c0] = h
        BY <1>1, <3>2
      <4>2. \A i \in D \ (s.left \ {c0}) : (IF i = c0 THEN s.expect[c0] ELSE s.got[i]) = h
        BY <3>2, <4>1
      <4> QED
        BY <4>1, <4>2
    <3> HIDE DEF got
    <3>4. Content(h)' = Content(h)
      BY <1>1 DEF Content
    <3>5. \A c \in D : Serves(P[c].server, f, c, h)'
      BY <1>1, <3>2 DEF Serves, Holds
    <3>6. /\ download'[d].file_hash = h /\ download'[d].plan = P /\ download'[d].expect = s.expect
          /\ download'[d].left = s.left \ {c0} /\ download'[d].ported = s.ported
          /\ download'[d].got = [c \in D \ (s.left \ {c0}) |-> h]
      BY <2>2, <2>3, <3>1, <3>3
    <3> QED
      BY <1>1, <3>2, <3>4, <3>5, <3>6 DEF FetchingWell
  <2> QED
    BY <1>1, <1>6, <2>1, <2>2, <2>4, DownloadAlone
<1> QED
  BY <1>1, <1>3, <1>4, <1>5, <1>6

LEMMA FinishDownloadClean ==
  ASSUME CleanInv, NEW d \in Downloads, FinishDownload(d)
  PROVE  CleanRest'
<1> DEFINE s == download[d]
           file == Assembled(s.got)
<1>1. /\ s.pc = "fetching" /\ s.left = {} /\ IsReading(d)
      /\ UNCHANGED <<store, registry, content, up, upload, transfers, delete, failover,
                     mixed, clean, disturbed>>
  BY DEF FinishDownload, nodes, history, IsReading
<1>2. d \notin disturbed => file = Content(s.file_hash)
  <2> SUFFICES ASSUME d \notin disturbed PROVE file = Content(s.file_hash)
    OBVIOUS
  <2>1. FetchingWell(d)
    BY <1>1, ReaderGood
  <2>2. s.got = [c \in DOMAIN Content(s.file_hash) |-> s.file_hash]
    BY <1>1, <2>1 DEF FetchingWell
  <2> QED
    BY <2>2, WholeFile
<1>3. \/ download' = [download EXCEPT ![d] = [pc |-> "ok", file |-> file]]
      \/ file # Content(s.file_hash) /\ download' = [download EXCEPT ![d] = [pc |-> "failed"]]
  BY DEF FinishDownload, Answer
<1>4. CASE download' = [download EXCEPT ![d] = [pc |-> "ok", file |-> file]]
  BY <1>1, <1>4, DownloadAlone
<1>5. CASE file # Content(s.file_hash) /\ download' = [download EXCEPT ![d] = [pc |-> "failed"]]
  BY <1>1, <1>2, <1>5, DownloadAlone
<1> QED
  BY <1>3, <1>4, <1>5

LEMMA DownloadsClean ==
  ASSUME CleanInv, NEW d \in Downloads, StartDownload(d) \/ DownloadStep(d)
  PROVE  CleanRest'
BY StartDownloadClean, AskReplicaClean, DecideClean, GetChunkClean, FinishDownloadClean DEF DownloadStep

-----------------------------------------------------------------------------
(* A step of no upload, transfer or download.                              *)
LEMMA ChangeFrame ==
  ASSUME CleanInv, UNCHANGED <<upload, transfers, download>>,
         mixed \subseteq mixed', clean' \subseteq clean, disturbed \subseteq disturbed', up \subseteq up',
         \A f \in DOMAIN store' : f \in DOMAIN store /\ store'[f].file_hash = store[f].file_hash,
         \A f \in Files : Changing(f)' => Changing(f) \/ Uploading(f) \subseteq mixed',
         NodesFact, RecordsFact
  PROVE  CleanRest'
<1>1. UploadsKept
  BY Unchanged DEF CleanInv
<1>2. ProtectedFact
  BY ProtectedFrame DEF IsReading
<1>3. AskingFact /\ ReadersFact /\ CleanDownloadSucceeds' /\ ArrivedFact
  BY Frames
<1>4. OverlapFact
  BY DEF OverlapFact, Uploading
<1> QED
  BY <1>1, <1>2, <1>3, <1>4, FactsSuffice

LEMMA StartDeleteClean ==
  ASSUME CleanInv, NEW x \in Deletes, StartDelete(x)
  PROVE  CleanRest'
<1>1. /\ UNCHANGED <<store, registry, content, up, upload, transfers, download, failover, clean, disturbed>>
      /\ mixed' = mixed \cup Uploading(FileOf[x])
      /\ \A y \in Deletes \ {x} : delete'[y] = delete[y]
  BY DEF StartDelete, nodes, CleanInv, Shaped, DeletesTyped
<1>2. NodesFact /\ RecordsFact
  BY <1>1, Frames
<1>3. \A f \in Files : Changing(f)' => Changing(f) \/ Uploading(f) \subseteq mixed'
  BY <1>1 DEF Changing
<1> QED
  BY <1>1, <1>2, <1>3, ChangeFrame

LEMMA DeleteChunkClean ==
  ASSUME CleanInv, NEW x \in Deletes, NEW k \in delete[x].left, DeleteChunk(x, k)
  PROVE  CleanRest'
<1> DEFINE f0 == FileOf[x]
           found == Served(k, f0, {})
<1>1. NodesTyped /\ Overlaps /\ f0 \in Files /\ DOMAIN delete = Deletes
  BY Constants DEF CleanInv, Shaped, DeletesTyped
<1>2. /\ delete[x].pc = "deleting"
      /\ UNCHANGED <<store, up, upload, transfers, download, failover, mixed>>
  BY Zenon DEF DeleteChunk
<1>3. \/ UNCHANGED <<registry, content, clean, disturbed>>
      \/ /\ registry' = [registry EXCEPT ![k.server] =
                           {e \in @ : ~(e.file = f0 /\ e.chunk_id = k.chunk_id)}]
         /\ content' = [y \in DOMAIN content \ {FileAt(k.server, f0, k.chunk_id, p) : p \in found} |->
                          content[y]]
         /\ clean' = clean \ {f0} /\ disturbed' = disturbed \cup Reading(f0)
  BY Zenon DEF DeleteChunk
<1>4. PICK ok \in BOOLEAN :
        delete' = [delete EXCEPT ![x].left = @ \ {k}, ![x].all_deleted = @ /\ ok]
  BY Zenon DEF DeleteChunk
<1> HIDE DEF found
<1>5. \A y \in Deletes : delete'[y].pc = delete[y].pc
  BY <1>1, <1>4, SMT
<1>6. \A f \in Files : Changing(f)' => Changing(f)
  BY <1>2, <1>5 DEF Changing
<1>7. RecordsFact
  BY <1>2, Frames
<1>8. clean' \subseteq clean /\ disturbed \subseteq disturbed'
  BY <1>3
<1>9. CASE UNCHANGED <<registry, content>>
  <2>1. NodesFact
    BY <1>9, Frames
  <2> QED
    BY <1>2, <1>6, <1>7, <1>8, <2>1, ChangeFrame
<1>10. CASE ~UNCHANGED <<registry, content>>
  <2>1. /\ \A s \in Servers : \A e : e \in registry'[s] <=>
             e \in registry[s] /\ ~(s = k.server /\ e.file = f0 /\ e.chunk_id = k.chunk_id)
        /\ \A y \in DOMAIN content : y \in DOMAIN content' \/ \E p : y = FileAt(k.server, f0, k.chunk_id, p)
        /\ \A y \in DOMAIN content' : y \in DOMAIN content /\ content'[y] = content[y]
        /\ f0 \notin clean' /\ Reading(f0) \subseteq disturbed'
    BY <1>1, <1>3, <1>10, SMT DEF NodesTyped, RegistryTyped
  <2>2. ASSUME NEW f \in Files, NEW h \in Uploads, Guarded(f, h)'
        PROVE  NodesKeep(f, h)
    <3>1. f # f0
      <4> SUFFICES ASSUME f = f0 PROVE FALSE
        OBVIOUS
      <4>1. ~Protected(f0, h)'
        BY <1>2, <2>1, Unprotected
      <4>2. Arriving(f0, h)'
        BY <2>2, <4>1 DEF Guarded
      <4>3. h \in Uploading(f0) /\ h \notin mixed
        BY <1>2, <4>2 DEF Arriving, InProgress, Uploading
      <4>4. Changing(f0)
        BY <1>2 DEF Changing
      <4> QED
        BY <1>1, <4>3, <4>4 DEF Overlaps
    <3>2. \A s, c, p, q : FileAt(s, f, c, p) # FileAt(k.server, f0, k.chunk_id, q)
      BY <3>1 DEF FileAt
    <3>3. \A s \in Servers, c \in ChunkIds, p \in Paths : Holds(s, f, c, p, h) => Holds(s, f, c, p, h)'
      BY <2>1, <3>2, SMT DEF Holds
    <3>4. \A s \in Servers : \A e \in registry'[s] : e \in Entries /\ e \in registry[s]
      BY <1>1, <2>1 DEF NodesTyped, RegistryTyped
    <3>5. \A s \in Servers, c \in ChunkIds : Knows(registry, s, f, c) => Knows(registry', s, f, c)
      BY <2>1, <3>1 DEF Knows
    <3> QED
      BY <1>1, <3>3, <3>4, <3>5, ContentKeeps
  <2>3. NodesFact
    BY <2>2 DEF NodesFact
  <2> QED
    BY <1>2, <1>6, <1>7, <1>8, <2>3, ChangeFrame
<1> QED
  BY <1>9, <1>10

LEMMA FinishDeleteClean ==
  ASSUME CleanInv, NEW x \in Deletes, FinishDelete(x)
  PROVE  CleanRest'
<1>1. /\ UNCHANGED <<registry, content, up, upload, transfers, download, failover, mixed, clean, disturbed>>
      /\ delete[x].pc = "deleting"
      /\ store' = store \/ store' = RemoveFile(store, FileOf[x])
      /\ \A y \in Deletes \ {x} : delete'[y] = delete[y]
  BY DEF FinishDelete, nodes, history, CleanInv, Shaped, DeletesTyped
<1>2. \A f \in DOMAIN store' : f \in DOMAIN store /\ store'[f] = store[f]
  BY <1>1 DEF RemoveFile
<1>3. \A f : Records(f)' \subseteq Records(f)
  BY <1>2 DEF Records
<1>4. RecordsFact
  BY <1>1, <1>3 DEF RecordsFact, InUse, Updates, Sourced, Copies
<1>5. NodesFact
  BY <1>1, Frames
<1>6. \A f \in Files : Changing(f)' => Changing(f)
  BY <1>1 DEF Changing
<1> QED
  BY <1>1, <1>2, <1>4, <1>5, <1>6, ChangeFrame

LEMMA DeletesClean ==
  ASSUME CleanInv, NEW x \in Deletes, StartDelete(x) \/ DeleteStep(x)
  PROVE  CleanRest'
BY StartDeleteClean, DeleteChunkClean, FinishDeleteClean DEF DeleteStep

-----------------------------------------------------------------------------
(* The records a failover has in use.                                      *)
LEMMA InUseOf ==
  ASSUME NEW s \in Failovers, failover[s].pc \in {"files", "repair"}, NEW f
  PROVE  /\ failover[s].file = f => failover[s].records \subseteq InUse(f)
         /\ f \in DOMAIN failover[s].updates => failover[s].updates[f] \subseteq InUse(f)
BY DEF InUse, Updates, Sourced

LEMMA InUseFrom ==
  ASSUME NEW dead \in Failovers, \A x \in Failovers \ {dead} : failover'[x] = failover[x],
         NEW f, NEW k \in InUse(f)'
  PROVE  \/ k \in InUse(f) \/ k \in Records(f)'
         \/ /\ failover'[dead].pc \in {"files", "repair"}
            /\ \/ failover'[dead].file = f /\ k \in failover'[dead].records
               \/ f \in DOMAIN failover'[dead].updates /\ k \in failover'[dead].updates[f]
<1>1. CASE k \in Updates(f)'
  <2>1. PICK s \in Failovers : /\ failover'[s].pc \in {"files", "repair"} /\ f \in DOMAIN failover'[s].updates
                               /\ k \in failover'[s].updates[f]
    BY <1>1 DEF Updates
  <2>2. CASE s = dead
    BY <2>1, <2>2
  <2>3. CASE s # dead
    BY <2>1, <2>3, InUseOf
  <2> QED
    BY <2>2, <2>3
<1>2. CASE k \in Sourced(f)'
  <2>1. PICK s \in Failovers : /\ failover'[s].pc \in {"files", "repair"} /\ failover'[s].file = f
                               /\ k \in failover'[s].records
    BY <1>2 DEF Sourced
  <2>2. CASE s = dead
    BY <2>1, <2>2
  <2>3. CASE s # dead
    BY <2>1, <2>3, InUseOf
  <2> QED
    BY <2>2, <2>3
<1> QED
  BY <1>1, <1>2 DEF InUse

LEMMA CopiesFrom ==
  ASSUME NEW dead \in Failovers, \A y \in Failovers \ {dead} : failover'[y] = failover[y],
         NEW f, NEW x \in Copies(f)'
  PROVE  \/ x \in Copies(f)
         \/ failover'[dead].pc = "repair" /\ failover'[dead].file = f /\ x \in failover'[dead].copy
<1>1. PICK s \in Failovers : failover'[s].pc = "repair" /\ failover'[s].file = f /\ x \in failover'[s].copy
  BY DEF Copies
<1>2. CASE s = dead
  BY <1>1, <1>2
<1>3. CASE s # dead
  BY <1>1, <1>3 DEF Copies
<1> QED
  BY <1>2, <1>3

(* A failover that begins makes every upload under way a mixed one.        *)
LEMMA RemoveServerClean ==
  ASSUME CleanInv, NEW dead \in Failovers, RemoveServer(dead)
  PROVE  CleanRest'
<1>1. /\ UNCHANGED <<store, registry, content, up, upload, transfers, download, delete, clean>>
      /\ mixed' = mixed \cup UNION {Uploading(f) : f \in Files}
      /\ disturbed \subseteq disturbed'
      /\ failover' = [failover EXCEPT ![dead] = [pc |-> "removed"]]
  BY DEF RemoveServer
<1>2. DOMAIN failover = Failovers
  BY DEF CleanInv, Shaped, FailoversTyped
<1>3. (\A y \in Failovers \ {dead} : failover'[y] = failover[y]) /\ failover'[dead].pc = "removed"
  BY <1>1, <1>2
<1>4. \A f : Records(f)' = Records(f)
  BY <1>1 DEF Records
<1>5. \A f : \A k \in InUse(f)' : k \in InUse(f)
  BY <1>3, <1>4, InUseFrom DEF InUse
<1>6. \A f : \A x \in Copies(f)' : x \in Copies(f)
  BY <1>3, CopiesFrom
<1>7. RecordsFact
  BY <1>5, <1>6 DEF RecordsFact
<1>8. NodesFact
  BY <1>1, Frames
<1>9. \A f \in Files : Uploading(f) \subseteq mixed'
  BY <1>1
<1>10. mixed \subseteq mixed' /\ up \subseteq up' /\ clean' \subseteq clean
  BY <1>1
<1> QED
  BY <1>1, <1>7, <1>8, <1>9, <1>10, ChangeFrame

LEMMA StartFailoverClean ==
  ASSUME CleanInv, NEW dead \in Failovers, StartFailover(dead)
  PROVE  CleanRest'
<1> DEFINE none == [f \in {} |-> {}]
           r == failover'[dead]
<1>1. /\ UNCHANGED <<store, registry, content, up, upload, transfers, download, delete,
                     mixed, clean, disturbed>>
      /\ DOMAIN failover = Failovers /\ failover[dead].pc = "removed"
  BY DEF StartFailover, nodes, history, CleanInv, Shaped, FailoversTyped
<1>2. PICK pc, healthy :
        failover' = [failover EXCEPT ![dead] =
          [pc |-> pc, healthy |-> healthy, files |-> DOMAIN store, records |-> {}, left |-> {},
           file |-> "none", copy |-> {}, updates |-> none]]
  BY DEF StartFailover
<1>3. DOMAIN none = {}
  OBVIOUS
<1> HIDE DEF none
<1>4. /\ \A x \in Failovers \ {dead} : failover'[x] = failover[x]
      /\ r.records = {} /\ r.updates = none /\ r.copy = {}
  BY <1>1, <1>2
<1>5. \A f : Records(f)' = Records(f)
  BY <1>1 DEF Records
<1>6. \A f : \A k \in InUse(f)' : k \in InUse(f)
  BY <1>3, <1>4, <1>5, InUseFrom DEF InUse
<1>7. \A f : \A x \in Copies(f)' : x \in Copies(f)
  BY <1>4, CopiesFrom
<1>8. RecordsFact
  BY <1>6, <1>7 DEF RecordsFact
<1>9. NodesFact
  BY <1>1, Frames
<1>10. \A f : Changing(f)
  BY <1>1 DEF Changing
<1> QED
  BY <1>1, <1>8, <1>9, <1>10, ChangeFrame

LEMMA QueryFileClean ==
  ASSUME CleanInv, NEW dead \in Failovers, NEW f \in failover[dead].files, QueryFile(dead, f)
  PROVE  CleanRest'
<1> DEFINE s == failover[dead]
           r == failover'[dead]
           left == Cids({k \in Records(f) : k.server = dead})
<1>1. /\ UNCHANGED <<store, registry, content, up, upload, transfers, download, delete,
                     mixed, clean, disturbed>>
      /\ DOMAIN failover = Failovers /\ s.pc = "files" /\ FailoverShape(s)
  BY DEF QueryFile, nodes, history, CleanInv, Shaped, FailoversTyped
<1>2. DOMAIN s = FailoverFields
  BY <1>1, SMT DEF FailoverShape, Idle
<1>3. failover' = [failover EXCEPT ![dead].files = @ \ {f}, ![dead].file = f,
                     ![dead].records = Records(f), ![dead].left = left]
  BY DEF QueryFile
<1> HIDE DEF left
<1>4. /\ \A x \in Failovers \ {dead} : failover'[x] = failover[x]
      /\ r.pc = s.pc /\ r.records = Records(f) /\ r.file = f /\ r.updates = s.updates
  BY <1>1, <1>2, <1>3 DEF FailoverFields
<1>5. \A g : Records(g)' = Records(g)
  BY <1>1 DEF Records
<1>6. ASSUME NEW g, NEW k \in InUse(g)'
      PROVE  k \in InUse(g)
  <2>1. \/ k \in InUse(g) \/ k \in Records(g)'
        \/ /\ r.pc \in {"files", "repair"}
           /\ \/ r.file = g /\ k \in r.records
              \/ g \in DOMAIN r.updates /\ k \in r.updates[g]
    BY <1>4, <1>6, InUseFrom
  <2>2. Records(g) \subseteq InUse(g) /\ (g \in DOMAIN s.updates => s.updates[g] \subseteq InUse(g))
    BY <1>1, InUseOf DEF InUse
  <2> QED
    BY <1>4, <1>5, <2>1, <2>2
<1>7. \A g : \A x \in Copies(g)' : x \in Copies(g)
  BY <1>1, <1>4, CopiesFrom
<1>8. RecordsFact
  BY <1>6, <1>7 DEF RecordsFact
<1>9. NodesFact
  BY <1>1, Frames
<1>10. \A g \in Files : Changing(g)' => Changing(g)
  BY <1>1, <1>4 DEF Changing
<1> QED
  BY <1>1, <1>8, <1>9, <1>10, ChangeFrame

(* A copy of a chunk, from the point of view of a protected version: it is *)
(* read from a good record, and where it goes there is a good one.         *)
LEMMA CopySource ==
  ASSUME CleanInv, NEW dead \in Failovers, failover[dead].pc = "files", NEW c \in failover[dead].left,
         NEW k \in Sources(failover[dead], c, dead)
  PROVE  /\ failover[dead].file \in Files /\ c \in ChunkIds /\ k \in ChunkRecord /\ k.chunk_id = c
         /\ failover[dead].healthy \subseteq Servers
         /\ \A h \in Uploads : Protected(failover[dead].file, h) => Good(failover[dead].file, h, k)
<1> DEFINE s == failover[dead]
           f == s.file
<1>1. FailoverShape(s) /\ GoodRecords
  BY DEF CleanInv, Shaped, FailoversTyped
<1>2. f \in Files /\ c \in ChunkIds /\ s.records \subseteq ChunkRecord /\ s.healthy \subseteq Servers
  BY <1>1, SMT DEF FailoverShape, Idle
<1>3. k \in s.records /\ k.chunk_id = c
  BY DEF Sources
<1>4. k \in InUse(f)
  BY <1>3, InUseOf
<1> QED
  BY <1>1, <1>2, <1>3, <1>4 DEF GoodRecords

(* While a file changes, what is guarded is a version that is protected.   *)
LEMMA ChangingGuards ==
  ASSUME CleanInv, UNCHANGED <<store, upload, transfers, download, mixed, clean, disturbed>>,
         NEW g \in Files, Changing(g), NEW h \in Uploads, Guarded(g, h)'
  PROVE  Protected(g, h)
<1>1. ProtectedFact
  BY ProtectedFrame DEF IsReading
<1>2. Uploading(g) \subseteq mixed
  BY DEF CleanInv, Overlaps
<1>3. ~Arriving(g, h)'
  BY <1>2 DEF Arriving, InProgress, Uploading
<1> QED
  BY <1>1, <1>3 DEF Guarded, ProtectedFact

LEMMA CopyChunkClean ==
  ASSUME CleanInv, NEW dead \in Failovers, NEW c \in failover[dead].left, CopyChunk(dead, c)
  PROVE  CleanRest'
<1> DEFINE s == failover[dead]
           r == failover'[dead]
           f == s.file
<1>1. NodesTyped /\ FailoversTyped /\ s.pc = "files"
  BY DEF CleanInv, Shaped, CopyChunk
<1>2. UNCHANGED <<store, content, up, upload, transfers, download, delete, mixed, clean, disturbed>>
  BY Zenon DEF CopyChunk, history
<1>3. \/ UNCHANGED registry
      \/ \E k \in Sources(s, c, dead) : registry' \in {registry, AfterRetrieval(k, f)}
  BY Zenon DEF CopyChunk
<1>4. CopyRecord(dead, c)
  BY <1>1, CopyRecords
<1>5. ProtectedFact
  BY <1>2, ProtectedFrame DEF IsReading
<1>6. \A g : Changing(g)
  BY <1>1 DEF Changing
<1> HIDE DEF s
<1>7. ASSUME NEW g \in Files, NEW h \in Uploads, Protected(g, h)
      PROVE  NodesKeep(g, h)
  <2>1. CASE UNCHANGED registry
    BY <1>2, <2>1, NodesSame
  <2>2. ASSUME NEW k \in Sources(s, c, dead), registry' \in {registry, AfterRetrieval(k, f)}
        PROVE  NodesKeep(g, h)
    <3>1. /\ f \in Files /\ k \in ChunkRecord
          /\ g = f => Good(f, h, k)
      BY <1>1, <1>7, CopySource DEF s
    <3>2. g = f => Holds(k.server, g, k.chunk_id, k.path, h)
      BY <3>1 DEF Good
    <3> QED
      BY <1>1, <1>2, <2>2, <3>1, <3>2, AskKeeps
  <2> QED
    BY <1>3, <2>1, <2>2
<1>8. NodesFact
  BY <1>2, <1>6, <1>7, ChangingGuards DEF NodesFact
<1>9. \A g : Records(g)' = Records(g)
  BY <1>2 DEF Records
<1>10. ASSUME NEW g, NEW n \in InUse(g)'
       PROVE  n \in InUse(g)
  <2>1. \/ n \in InUse(g) \/ n \in Records(g)'
        \/ r.file = g /\ n \in r.records
        \/ g \in DOMAIN r.updates /\ n \in r.updates[g]
    BY <1>4, <1>10, InUseFrom DEF CopyRecord
  <2>2. /\ Records(g) \subseteq InUse(g)
        /\ s.file = g => s.records \subseteq InUse(g)
        /\ g \in DOMAIN s.updates => s.updates[g] \subseteq InUse(g)
    BY <1>1, InUseOf DEF s, InUse
  <2>3. r.file = s.file /\ r.records = s.records /\ r.updates = s.updates
    BY <1>4 DEF CopyRecord, s
  <2> QED
    BY <1>9, <2>1, <2>2, <2>3
<1>11. ASSUME NEW g \in Files, NEW h \in Uploads, Protected(g, h), NEW x \in Copies(g)', x \notin Copies(g)
       PROVE  Right(x, h)'
  <2>1. r.pc = "repair" /\ r.file = g /\ x \in r.copy
    BY <1>4, <1>11, CopiesFrom DEF CopyRecord
  <2>2. r.file = s.file /\ r.pc # s.pc
    BY <1>1, <1>4, <2>1 DEF CopyRecord, s
  <2>3. PICK k \in Sources(s, c, dead), t \in Targets(s, c) :
          r.copy = {[chunk_id |-> c, server |-> t, data |-> i] : i \in ReadChunkFromServer(k, s.file)}
    BY <1>4, <2>2 DEF CopyRecord, s
  <2>4. PICK i \in ReadChunkFromServer(k, g) : x = [chunk_id |-> c, server |-> t, data |-> i]
    BY <2>1, <2>2, <2>3
  <2>5. x.chunk_id = c /\ x.data = i
    BY <2>4
  <2>6. k \in ChunkRecord /\ k.chunk_id = c /\ Good(g, h, k)
    BY <1>1, <1>11, <2>1, <2>2, CopySource DEF s
  <2>7. Holds(k.server, g, k.chunk_id, k.path, h) /\ Serves(k.server, g, k.chunk_id, h)
    BY <2>6 DEF Good
  <2>8. Retrieves(k, g, h)
    BY <1>1, <2>6, <2>7, GoodRetrieval
  <2>9. i = h
    BY <2>4, <2>8 DEF Retrieves
  <2>10. c \in DOMAIN Content(h)'
    BY <1>2, <2>6 DEF Good, Content
  <2> QED
    BY <2>5, <2>9, <2>10 DEF Right
<1>12. RecordsFact
  BY <1>5, <1>10, <1>11 DEF RecordsFact, ProtectedFact
<1> QED
  BY <1>2, <1>6, <1>8, <1>12, ChangeFrame

LEMMA RepairClean ==
  ASSUME CleanInv, NEW dead \in Failovers, NEW x \in failover[dead].copy, RepairChunkOnServer(dead, x)
  PROVE  CleanRest'
<1> DEFINE s == failover[dead]
           r == failover'[dead]
           New == [chunk_id |-> x.chunk_id, server |-> x.server, path |-> dead, cut |-> FALSE]
           stored(f) == StoreChunk(registry, x.server, f, x.chunk_id, dead, x.data)
<1>1. NodesTyped /\ FailoversTyped /\ GoodRecords /\ Shaped /\ s.pc = "repair" /\ dead \in Paths
  BY Constants DEF CleanInv, Shaped, RepairChunkOnServer
<1>2. UNCHANGED <<store, upload, transfers, download, delete, mixed, clean, disturbed>>
  BY Zenon DEF RepairChunkOnServer, history
<1>3. stored(s.file) \/ UNCHANGED <<registry, content, up>>
  BY Zenon DEF RepairChunkOnServer, nodes
<1>4. /\ s.file \in Files /\ x.server \in Servers /\ x.chunk_id \in ChunkIds /\ x.data \in Uploads
  BY <1>1, RepairNodes
<1>0. PICK f \in Files : f = s.file
  BY <1>4
<1>5. RepairRecord(dead, x)
  BY <1>1, RepairRecords
<1>6. up' = up
  BY <1>3 DEF StoreChunk
<1>7. ProtectedFact
  BY <1>2, ProtectedFrame DEF IsReading
<1>8. \A g : Changing(g)
  BY <1>1 DEF Changing
<1>9. x \in Copies(f)
  BY <1>0, <1>1 DEF Copies
<1>10. ASSUME NEW h \in Uploads, Protected(f, h)
       PROVE  Right(x, h)
  BY <1>1, <1>9, <1>10 DEF GoodRecords
<1> HIDE DEF s, stored
<1>11. ASSUME NEW g \in Files, NEW h \in Uploads, Protected(g, h)
       PROVE  NodesKeep(g, h)
  <2>1. CASE UNCHANGED <<registry, content, up>>
    BY <2>1, NodesSame
  <2>2. CASE stored(f)
    <3>1. g = f => x.data = h
      BY <1>10, <1>11 DEF Right
    <3>2. RegistryTyped(registry)
      BY <1>1 DEF NodesTyped
    <3>3. StoreChunk(registry, x.server, f, x.chunk_id, dead, x.data)
      BY <2>2 DEF stored
    <3> QED
      BY <1>1, <1>4, <3>1, <3>2, <3>3, StoreKeeps, SMT
  <2> QED
    BY <1>0, <1>3, <2>1, <2>2
<1>12. NodesFact
  BY <1>2, <1>8, <1>11, ChangingGuards DEF NodesFact
<1>13. \A g : Records(g)' = Records(g)
  BY <1>2 DEF Records
<1>14. \A g : \A y \in Copies(g)' : y \in Copies(g)
  BY <1>5, CopiesFrom DEF RepairRecord
<1>15. ASSUME NEW g \in Files, NEW h \in Uploads, Protected(g, h), NEW n \in InUse(g)', n \notin InUse(g)
       PROVE  Good(g, h, n)'
  <2>1. \/ n \in Records(g)'
        \/ r.file = g /\ n \in r.records
        \/ g \in DOMAIN r.updates /\ n \in r.updates[g]
    BY <1>5, <1>15, InUseFrom DEF RepairRecord
  <2>2. /\ Records(g) \subseteq InUse(g)
        /\ s.file = g => s.records \subseteq InUse(g)
        /\ g \in DOMAIN s.updates => s.updates[g] \subseteq InUse(g)
    BY <1>1, InUseOf DEF s, InUse
  <2>3. r.file = s.file /\ r.records = s.records
    BY <1>5 DEF RepairRecord, s
  <2>4. g \in DOMAIN r.updates /\ n \in r.updates[g] /\ r.updates # s.updates
    BY <1>13, <1>15, <2>1, <2>2, <2>3
  <2>5. /\ DOMAIN r.updates = DOMAIN s.updates \cup {f}
        /\ \A i \in DOMAIN s.updates : i # f => r.updates[i] = s.updates[i]
        /\ stored(f)
        /\ r.updates[f] = (IF f \in DOMAIN s.updates THEN s.updates[f] ELSE {}) \cup {New}
    BY <1>0, <1>5, <2>4 DEF RepairRecord, s, stored
  <2>6. g = f /\ n = New
    BY <1>15, <2>2, <2>4, <2>5
  <2>7. n.chunk_id = x.chunk_id /\ n.server = x.server /\ n.path = dead
    BY <2>6
  <2>8. StoreChunk(registry, x.server, f, x.chunk_id, dead, x.data) /\ RegistryTyped(registry)
    BY <1>1, <2>5 DEF stored, NodesTyped
  <2>9. Holds(x.server, f, x.chunk_id, dead, x.data)' /\ Serves(x.server, f, x.chunk_id, x.data)'
    BY <1>1, <1>4, <2>8, StoredIsServed
  <2>10. x.chunk_id \in DOMAIN Content(h) /\ x.data = h
    BY <1>10, <1>15, <2>6 DEF Right
  <2>11. Content(h)' = Content(h)
    BY <1>2 DEF Content
  <2>12. /\ Holds(n.server, g, n.chunk_id, n.path, h)' /\ Serves(n.server, g, n.chunk_id, h)'
         /\ n.chunk_id \in DOMAIN Content(h)'
    BY <2>6, <2>7, <2>9, <2>10, <2>11
  <2> QED
    BY <2>12 DEF Good
<1>16. RecordsFact
  BY <1>7, <1>14, <1>15 DEF RecordsFact, ProtectedFact
<1> QED
  BY <1>2, <1>6, <1>8, <1>12, <1>16, ChangeFrame

(* The two operations on the store that end a failover.                    *)
LEMMA ReplaceClean ==
  ASSUME CleanInv, NEW dead \in Failovers, ReplaceChunks(dead) \/ DropServer(dead)
  PROVE  CleanRest'
<1> DEFINE s == failover[dead]
           r == failover'[dead]
<1>1. /\ UNCHANGED <<registry, content, up, upload, transfers, download, delete, mixed, clean, disturbed>>
      /\ StoreTyped /\ DOMAIN failover = Failovers /\ FailoverShape(s) /\ s.pc \in {"files", "drop"}
  BY DEF ReplaceChunks, DropServer, nodes, history, CleanInv, Shaped, FailoversTyped
<1>2. PICK pc \in {"drop", "done"} : failover' = [failover EXCEPT ![dead].pc = pc]
  BY DEF ReplaceChunks, DropServer
<1>3. DOMAIN s = FailoverFields
  BY <1>1, SMT DEF FailoverShape, Idle
<1>4. (\A x \in Failovers \ {dead} : failover'[x] = failover[x]) /\ r.pc \in {"drop", "done"}
  BY <1>1, <1>2, <1>3 DEF FailoverFields
<1>5. /\ DOMAIN store' = DOMAIN store
      /\ \A f \in DOMAIN store : /\ store'[f].file_hash = store[f].file_hash
                                 /\ DOMAIN store'[f].chunks \subseteq InUse(f)
  <2>1. CASE ReplaceChunks(dead)
    <3>1. s.pc = "files" /\ store' = AtomicReplaceServerChunks(store, dead, s.updates)
      BY <2>1 DEF ReplaceChunks
    <3>2. \A f \in DOMAIN s.updates : s.updates[f] \subseteq ChunkRecord /\ IsFiniteSet(s.updates[f])
      BY <1>1, <3>1, SMT DEF FailoverShape, Idle
    <3>3. /\ DOMAIN store' = DOMAIN store
          /\ \A f \in DOMAIN store :
               /\ store'[f].file_hash = store[f].file_hash
               /\ \A k \in DOMAIN store'[f].chunks :
                    k \in DOMAIN store[f].chunks \/ (f \in DOMAIN s.updates /\ k \in s.updates[f])
      BY <1>1, <3>1, <3>2, AtomicReplaceTyped
    <3>4. \A f \in DOMAIN s.updates : s.updates[f] \subseteq InUse(f)
      BY <3>1, InUseOf
    <3>5. \A f \in DOMAIN store : DOMAIN store[f].chunks \subseteq InUse(f)
      BY DEF InUse, Records
    <3> QED
      BY <3>3, <3>4, <3>5
  <2>2. CASE DropServer(dead)
    <3>1. /\ DOMAIN store' = DOMAIN store
          /\ \A f \in DOMAIN store : /\ store'[f].file_hash = store[f].file_hash
                                     /\ DOMAIN store'[f].chunks \subseteq DOMAIN store[f].chunks
      BY <1>1, <2>2, DeleteServerTyped DEF DropServer
    <3>2. \A f \in DOMAIN store : DOMAIN store[f].chunks \subseteq InUse(f)
      BY DEF InUse, Records
    <3> QED
      BY <3>1, <3>2
  <2> QED
    BY <2>1, <2>2
<1>6. \A f : Records(f)' \subseteq InUse(f)
  BY <1>5 DEF Records
<1>7. \A f : \A k \in InUse(f)' : k \in InUse(f)
  BY <1>4, <1>6, InUseFrom
<1>8. \A f : \A x \in Copies(f)' : x \in Copies(f)
  BY <1>4, CopiesFrom
<1>9. RecordsFact
  BY <1>7, <1>8 DEF RecordsFact
<1>10. NodesFact
  BY <1>1, Frames
<1>11. \A g \in Files : Changing(g)' => Changing(g)
  BY <1>1, <1>4 DEF Changing
<1> QED
  BY <1>1, <1>5, <1>9, <1>10, <1>11, ChangeFrame

LEMMA FailoversClean ==
  ASSUME CleanInv, NEW dead \in Failovers, RemoveServer(dead) \/ FailoverStep(dead)
  PROVE  CleanRest'
BY RemoveServerClean, StartFailoverClean, QueryFileClean, CopyChunkClean, RepairClean, ReplaceClean
   DEF FailoverStep

-----------------------------------------------------------------------------
(* A server that ends disturbs every download that is going on; one that   *)
(* starts has an empty registry, and one that is entered keeps its own.    *)
LEMMA ServersClean ==
  ASSUME CleanInv, NEW s \in Servers, Crash(s) \/ Start(s) \/ AddServer(s)
  PROVE  CleanRest'
<1>1. CASE Start(s) \/ AddServer(s)
  <2>1. /\ UNCHANGED <<store, registry, content, upload, transfers, download, delete, failover,
                       mixed, clean>>
        /\ disturbed \subseteq disturbed' /\ up \subseteq up'
    BY <1>1 DEF Start, AddServer, history
  <2>2. NodesFact /\ RecordsFact
    BY <2>1, Frames
  <2>3. \A f \in Files : Changing(f)' => Changing(f)
    BY <2>1 DEF Changing
  <2> QED
    BY <2>1, <2>2, <2>3, ChangeFrame
<1>2. CASE Crash(s)
  <2>1. /\ UNCHANGED <<store, content, upload, transfers, download, delete, failover, mixed, clean>>
        /\ up' = up \ {s} /\ registry' = [registry EXCEPT ![s] = {}]
        /\ disturbed' = disturbed \cup UNION {Reading(f) : f \in Files}
    BY <1>2 DEF Crash
  <2>2. NodesTyped
    BY DEF CleanInv, Shaped
  <2>3. /\ \A t \in Servers : registry'[t] \subseteq registry[t] /\ registry'[t] \subseteq Entries
        /\ \A t \in Servers \ {s} : registry'[t] = registry[t]
    BY <2>1, <2>2 DEF NodesTyped, RegistryTyped
  <2>4. ASSUME NEW f \in Files, NEW h
        PROVE  NodesKeep(f, h)
    <3>1. \A t, c, p : Holds(t, f, c, p, h) => Holds(t, f, c, p, h)'
      BY <2>1 DEF Holds
    <3>2. \A t \in Servers, c \in ChunkIds :
            t \in up' /\ Knows(registry, t, f, c) => Knows(registry', t, f, c)
      BY <2>1, <2>3 DEF Knows
    <3>3. \A t \in Servers : \A e \in registry'[t] : e \in Entries /\ e \in registry[t]
      BY <2>3
    <3> QED
      BY <2>2, <3>1, <3>2, <3>3, ContentKeeps
  <2>5. NodesFact
    BY <2>4 DEF NodesFact
  <2>6. mixed \subseteq mixed' /\ clean' \subseteq clean /\ disturbed \subseteq disturbed'
    BY <2>1
  <2>7. \A d \in Downloads : IsReading(d)' => d \in disturbed'
    BY <2>1, Constants, SMT DEF IsReading, Reading
  <2>8. ReadersFact
    BY <2>6, <2>7 DEF ReadersFact
  <2>9. ProtectedFact
    BY <2>1, <2>6, ProtectedFrame DEF IsReading
  <2>10. RecordsFact /\ AskingFact /\ OverlapFact /\ ArrivedFact /\ CleanDownloadSucceeds'
    BY <2>1, <2>6, Frames
  <2>11. UploadsKept
    BY <2>1, Unchanged DEF CleanInv
  <2> QED
    BY <2>5, <2>8, <2>9, <2>10, <2>11, FactsSuffice
<1> QED
  BY <1>1, <1>2

(* A download that asks has asked before, of the same records, unless it   *)
(* begins.                                                                 *)
LEMMA AskingFrom ==
  ASSUME Inv, Shaped, [Next]_vars, NEW d \in Downloads, download'[d].pc = "asking", ~StartDownload(d)
  PROVE  download[d].pc = "asking" /\ download'[d].records = download[d].records
<1> DEFINE Same == download[d].pc = "asking" /\ download'[d].records = download[d].records
<1>1. DOMAIN download = Downloads /\ \A e \in Downloads : DownloadShape(download[e])
  BY DEF Shaped, DownloadsTyped
<1>2. CASE UNCHANGED download
  BY <1>2
<1>3. ASSUME NEW e \in Downloads, \A x \in Downloads \ {e} : download'[x] = download[x],
             download'[e].pc # "asking"
      PROVE  Same
  BY <1>3
<1>4. ASSUME NEW e \in Downloads, StartDownload(e)
      PROVE  Same
  <2>1. e # d
    BY <1>4
  <2>2. \E s : download' = [download EXCEPT ![e] = s]
    BY <1>4 DEF StartDownload, Answer
  <2> QED
    BY <1>1, <2>1, <2>2
<1>5. ASSUME NEW e \in Downloads, Answer(e, "failed")
      PROVE  Same
  <2>1. (\A x \in Downloads \ {e} : download'[x] = download[x]) /\ download'[e].pc = "failed"
    BY <1>1, <1>5, SMT DEF Answer
  <2> QED
    BY <1>3, <2>1
<1>6. ASSUME NEW e \in Downloads, Decide(e)
      PROVE  Same
  <2> DEFINE cids == Cids(download[e].records)
             expect == [c \in cids |-> Majority(download[e].votes, c)]
             none == [c \in {} |-> 0]
  <2>1. CASE ~Answer(e, "failed")
    <3>1. PICK P, ported :
            download' = [download EXCEPT ![e] =
              [pc |-> "fetching", file_hash |-> download[e].file_hash, plan |-> P,
               ported |-> ported, expect |-> expect, left |-> cids, got |-> none]]
      BY <1>6, <2>1 DEF Decide
    <3> HIDE DEF cids, expect, none
    <3>2. (\A x \in Downloads \ {e} : download'[x] = download[x]) /\ download'[e].pc = "fetching"
      BY <1>1, <3>1, SMT
    <3> QED
      BY <1>3, <3>2
  <2> QED
    BY <1>5, <2>1
<1>7. ASSUME NEW e \in Downloads, FinishDownload(e)
      PROVE  Same
  <2>1. \/ Answer(e, "failed")
        \/ \E file : download' = [download EXCEPT ![e] = [pc |-> "ok", file |-> file]]
    BY <1>7 DEF FinishDownload
  <2>2. ASSUME NEW file, download' = [download EXCEPT ![e] = [pc |-> "ok", file |-> file]]
        PROVE  (\A x \in Downloads \ {e} : download'[x] = download[x]) /\ download'[e].pc = "ok"
    BY <1>1, <2>2, SMT
  <2> QED
    BY <1>3, <1>5, <2>1, <2>2
<1>8. ASSUME NEW e \in Downloads, NEW k, AskReplica(e, k)
      PROVE  Same
  <2>1. download[e].pc = "asking"
    BY <1>8 DEF AskReplica
  <2>2. DOMAIN download[e] = {"pc", "file_hash", "records", "asked", "votes"}
    BY <1>1, <2>1, SMT DEF DownloadShape, Idle, Asking
  <2>3. \E asked, votes : download' = [download EXCEPT ![e].asked = asked, ![e].votes = votes]
    <3> DEFINE asked == download[e].asked \cup {k}
               answers == {[key |-> k, hash |-> h] : h \in ReadChunkFromServer(k, FileOf[e])}
    <3>1. \/ download' = [download EXCEPT ![e].asked = @ \cup {k}, ![e].votes = @ \cup answers]
          \/ download' = [download EXCEPT ![e].asked = @ \cup {k}]
      BY <1>8 DEF AskReplica
    <3> HIDE DEF answers
    <3>2. download' = [download EXCEPT ![e].asked = asked, ![e].votes = download[e].votes \cup answers]
          \/ download' = [download EXCEPT ![e].asked = asked, ![e].votes = download[e].votes]
      BY <1>1, <2>2, <3>1, SMT
    <3> QED
      BY <3>2
  <2> QED
    BY <1>1, <2>1, <2>2, <2>3, SMT
<1>9. ASSUME NEW e \in Downloads, NEW c, GetChunk(e, c)
      PROVE  Same
  <2>1. CASE ~Answer(e, "failed")
    <3>1. PICK left, got : download' = [download EXCEPT ![e].left = left, ![e].got = got]
      BY <1>9, <2>1 DEF GetChunk
    <3>2. download[e].pc = "fetching"
          /\ DOMAIN download[e] = {"pc", "file_hash", "plan", "ported", "expect", "left", "got"}
      BY <1>1, <1>9, SMT DEF GetChunk, DownloadShape, Idle, Asking
    <3> QED
      BY <1>1, <3>1, <3>2
  <2> QED
    BY <1>5, <2>1
<1>10. CASE UNCHANGED vars
  BY <1>2, <1>10 DEF vars
<1>11. ASSUME NEW u \in Uploads, UploadStep(u)
       PROVE  UNCHANGED download
  BY <1>11 DEF UploadStep, StartUpload, ReceiveChunk, AbortUpload, FinishUpload
<1>12. ASSUME NEW e \in Downloads, StartDownload(e) \/ DownloadStep(e)
       PROVE  Same
  BY <1>4, <1>6, <1>7, <1>8, <1>9, <1>12 DEF DownloadStep
<1> HIDE DEF Same
<1>13. Same
  BY <1>2, <1>10, <1>11, <1>12, OtherSteps DEF Next, Same
<1> QED
  BY <1>13 DEF Same

(* The ports of the servers a download may choose stay as it found them,   *)
(* or the download is disturbed.                                           *)
LEMMA NextPorted ==
  ASSUME CleanInv, [Next]_vars
  PROVE  AskingPorted'
<1> SUFFICES ASSUME NEW d \in Downloads, d \notin disturbed', download'[d].pc = "asking",
                    NEW k \in download'[d].records, k.server \in up'
             PROVE  entry'[k.server] = "ports"
  BY DEF AskingPorted, Ported
<1>1. Inv /\ Shaped /\ EntryTyped /\ AskingPorted /\ DOMAIN download = Downloads
  BY DEF CleanInv, Shaped, DownloadsTyped
<1>2. CASE StartDownload(d)
  <2>1. UNCHANGED <<up, entry>>
    BY <1>2 DEF StartDownload, nodes
  <2>2. \A j \in Records(FileOf[d]) : j.server \in up => entry[j.server] = "ports"
    BY <1>2 DEF StartDownload
  <2>3. download'[d].records = Records(FileOf[d])
    <3> DEFINE s == [pc |-> "asking", file_hash |-> store[FileOf[d]].file_hash, records |-> Records(FileOf[d]),
                     asked |-> {}, votes |-> {}]
    <3>1. download' = [download EXCEPT ![d] = s] \/ download' = [download EXCEPT ![d] = [pc |-> "failed"]]
      BY <1>2 DEF StartDownload, Answer
    <3>2. s.records = Records(FileOf[d])
      OBVIOUS
    <3> HIDE DEF s
    <3>3. download'[d] = s \/ download'[d].pc = "failed"
      BY <1>1, <3>1, SMT
    <3> QED
      BY <3>2, <3>3
  <2> QED
    BY <2>1, <2>2, <2>3
<1>3. CASE ~StartDownload(d)
  <2>1. download[d].pc = "asking" /\ k \in download[d].records
    BY <1>1, <1>3, AskingFrom
  <2>2. d \notin disturbed => (k.server \in up => entry[k.server] = "ports")
    BY <1>1, <2>1 DEF AskingPorted, Ported
  <2>3. DOMAIN entry = Servers /\ k.server \in Servers
    <3>1. k \in ChunkRecord
      BY <1>1, <2>1, SMT DEF Shaped, DownloadsTyped, DownloadShape, Idle, Asking
    <3> QED
      BY <1>1, <3>1 DEF EntryTyped, ChunkRecord
  <2>4. CASE QuietStep
    BY <2>2, <2>4 DEF QuietStep
  <2>5. ASSUME NEW x \in Failovers, RemoveServer(x)
        PROVE  entry'[k.server] = "ports"
    <3>1. disturbed \subseteq disturbed' /\ up' = up
      BY <2>5 DEF RemoveServer
    <3>2. entry[k.server] = "ports"
      BY <2>2, <3>1
    <3>3. ASSUME NEW s \in Servers, entry' = [entry EXCEPT ![s] = "none"],
                 s \in up => Considering(s) \subseteq disturbed'
          PROVE  entry'[k.server] = "ports"
      <4>1. k.server # s
        BY <2>1, <3>1, <3>3 DEF Considering
      <4> QED
        BY <2>3, <3>2, <3>3, <4>1
    <3> QED
      BY <2>5, <3>2, <3>3 DEF RemoveServer
  <2>6. ASSUME NEW s \in Servers, Start(s)
        PROVE  entry'[k.server] = "ports"
    <3>1. /\ disturbed \subseteq disturbed' /\ up' = up \cup {s} /\ entry' = entry
          /\ entry[s] # "ports" => Considering(s) \subseteq disturbed'
      BY <2>6 DEF Start
    <3>2. k.server = s => entry[s] = "ports"
      BY <2>1, <3>1 DEF Considering
    <3> QED
      BY <2>2, <3>1, <3>2
  <2>7. ASSUME NEW s \in Servers, AddServer(s)
        PROVE  entry'[k.server] = "ports"
    <3>1. /\ UNCHANGED <<up, disturbed>> /\ entry[s] = "none"
          /\ \E e : entry' = [entry EXCEPT ![s] = e]
      BY <2>7 DEF AddServer, history
    <3>2. entry[k.server] = "ports" /\ k.server # s
      BY <2>2, <3>1
    <3> QED
      BY <2>3, <3>1, <3>2
  <2> QED
    BY <2>4, <2>5, <2>6, <2>7, EntrySteps DEF EntryStep
<1> QED
  BY <1>2, <1>3

LEMMA InitClean == Init => CleanInv
<1> SUFFICES ASSUME Init PROVE CleanInv
  OBVIOUS
<1>1. /\ \A u \in Uploads : upload[u].pc = "idle"
      /\ \A d \in Downloads : download[d].pc = "idle"
      /\ \A x \in Deletes : delete[x].pc = "idle"
      /\ \A x \in Failovers : failover[x].pc = "idle"
      /\ transfers = {} /\ clean = {}
  BY DEF Init, Idle
<1>2. \A f, h : ~Protected(f, h)
  BY <1>1 DEF Protected, CleanVersion, ReadVersion, IsReading
<1>3. GoodRecords
  BY <1>2 DEF GoodRecords
<1>4. ReadersWell /\ AskingPorted /\ Arrived /\ CleanDownloadSucceeds
  BY <1>1 DEF ReadersWell, AskingPorted, Arrived, CleanDownloadSucceeds
<1>5. Overlaps
  BY <1>1 DEF Overlaps, Uploading
<1> QED
  BY <1>3, <1>4, <1>5, InitInv, InitShaped, InitEntry DEF CleanInv

LEMMA NextClean ==
  ASSUME CleanInv, [Next]_vars
  PROVE  CleanInv'
<1>1. Inv' /\ Shaped' /\ EntryTyped' /\ AskingPorted'
  BY NextInv, NextShaped, NextEntry, NextPorted DEF CleanInv
<1>2. CASE UNCHANGED vars
  <2>1. UNCHANGED <<store, registry, content, up, upload, transfers, download, delete, failover,
                    mixed, clean, disturbed>>
    BY <1>2 DEF vars, nodes, history
  <2>2. NodesFact /\ RecordsFact
    BY <2>1, Frames
  <2>3. \A f \in Files : Changing(f)' => Changing(f)
    BY <2>1 DEF Changing
  <2> QED
    BY <1>1, <2>1, <2>2, <2>3, ChangeFrame DEF CleanInv, CleanRest
<1>3. CASE Next
  <2>1. CleanRest'
    BY <1>3, UploadsClean, TransfersClean, DownloadsClean, DeletesClean, FailoversClean, ServersClean
       DEF Next
  <2> QED
    BY <1>1, <2>1 DEF CleanInv, CleanRest
<1> QED
  BY <1>2, <1>3

(* For every set of files, servers, chunks and requests, any number of     *)
(* crashes and lost exchanges: a download that begins when the stored      *)
(* version is clean, every chunk has a replica on a running server and the *)
(* running servers with replicas are in the server registry with their     *)
(* ports, and that no later crash, loss, change of its file or of those    *)
(* entries disturbs, is never answered with an error, neither by the vote  *)
(* of stream_file_to_client nor by file_download's checks of the chunks    *)
(* and of the whole file.                                                  *)
THEOREM CleanDownloadsAlwaysSucceed == Spec => []CleanDownloadSucceeds
<1>1. CleanInv => CleanDownloadSucceeds
  BY DEF CleanInv
<1>2. CleanInv /\ [Next]_vars => CleanInv'
  BY NextClean
<1> QED
  BY <1>1, <1>2, InitClean, PTL DEF Spec
=============================================================================
