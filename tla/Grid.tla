-------------------------------- MODULE Grid --------------------------------
(***************************************************************************)
(* The whole grid at work on files: clients that upload, download and      *)
(* delete through the head server (file_upload.cpp, head_server.cpp,       *)
(* client.cpp), the transfers its pool makes to cluster servers, the       *)
(* re-replication of a dead server's chunks, and cluster servers that      *)
(* crash and come back.  Nothing serialises requests for the same file:    *)
(* every session is a thread that reads the metadata once and then acts on *)
(* what it read.                                                           *)
(*                                                                         *)
(* The head server reaches a cluster server through the ports in its entry *)
(* of the server registry.  An entry from the configuration file, or made  *)
(* by an operator, has none, and a server that registers itself later does *)
(* not correct it; the transfer port is then 8180, and clients are sent no *)
(* usable port.  Every cluster server has a host of its own.               *)
(*                                                                         *)
(* The metadata operations are those of Metadata; each is one step, since  *)
(* the store's mutex covers it (MetadataStore).  A cluster server is what  *)
(* ChunkRegister promises: a store, a retrieval or a deletion is one step. *)
(* The content of a chunk, and its hash, is the upload it came with: two   *)
(* uploads never agree.  Uploads are numbered in the order of their        *)
(* hashes.                                                                 *)
(***************************************************************************)
EXTENDS Metadata, FiniteSetsExt

CONSTANTS
  Files,              \* names of files
  Uploads,            \* upload requests
  EmptyUploads,       \* those that may be of a 0-byte file
  Downloads,          \* download requests
  Deletes,            \* delete requests
  Failovers,          \* servers that may be declared dead
  FileOf,             \* the file a request is about
  ReplicationFactor,  \* config_replication_factor()
  Configured,         \* servers of the configuration file, entered without ports
  Registered,         \* servers that have registered themselves at the start
  Added,              \* servers operators add by hand (dfg add-server), without ports
  DefaultPort,        \* servers whose transfer port is 8180
  MaxFaults           \* bound: crashes, and exchanges with a running server that fail

ASSUME GridAssumption ==
  /\ Uploads \subseteq Nat /\ EmptyUploads \subseteq Uploads
  /\ Failovers \subseteq Servers /\ IsFiniteSet(Servers)
  /\ IsFiniteSet(ChunkIds) /\ 0 \in ChunkIds /\ ChunkIds = 0 .. Cardinality(ChunkIds) - 1
  /\ Hashes = Uploads /\ Paths = Uploads \cup Failovers
  /\ FileOf \in [Uploads \cup Downloads \cup Deletes -> Files]
  /\ ReplicationFactor \in Nat \ {0}
  /\ Configured \subseteq Servers /\ Registered \subseteq Servers
  /\ Added \subseteq Servers /\ DefaultPort \subseteq Servers
  /\ MaxFaults \in Nat

VARIABLES
  store,      \* the metadata store
  registry,   \* per server: chunk_registry, a set of [file, chunk_id, path]
  content,    \* the chunk files on the servers' disks: whose data they hold
  up,         \* the servers whose process runs
  entry,      \* per server: its entry in g_cluster_registry
  upload,     \* per upload: handle_client_upload
  transfers,  \* jobs of transfer_pool()
  download,   \* per download: stream_file_to_client, then file_download
  delete,     \* per deletion: handle_client_delete
  failover,   \* per dead server: rereplicate_dead_server_chunks
  crashes, losses,  \* how many crashes and failed exchanges there were, for the bound
  mixed,      \* history: uploads that overlapped another change of their file
  clean,      \* history: files whose last change was an upload of its own
  disturbed   \* history: downloads during which a server or the file changed

nodes == <<registry, content, up, crashes, entry>>
history == <<mixed, clean, disturbed>>
vars == <<store, nodes, upload, transfers, download, delete, failover, losses, history>>

(* The chunks of an upload's file.                                         *)
Content(u) == IF upload[u].empty THEN [c \in {} |-> 0] ELSE [c \in ChunkIds |-> u]

Records(f) == IF f \in DOMAIN store THEN DOMAIN store[f].chunks ELSE {}
Cids(K) == {k.chunk_id : k \in K}

(* What the server of record k would serve as chunk k of file f: the path  *)
(* it has registered, else the fallback path if there is such a file.      *)
RegisteredPaths(s, f, c) == {e.path : e \in {x \in registry[s] : x.file = f /\ x.chunk_id = c}}
FileAt(s, f, c, p) == [server |-> s, file |-> f, chunk_id |-> c, path |-> p]
Served(k, f, fallback) ==
  LET known == RegisteredPaths(k.server, f, k.chunk_id)
  IN IF k.server \notin up THEN {}
     ELSE IF known # {} THEN known
     ELSE {p \in fallback : FileAt(k.server, f, k.chunk_id, p) \in DOMAIN content}

(* A faulty variant: a chunk that is registered keeps its path.            *)
RegisterOnce(reg, s, f, c, p) ==
  [reg EXCEPT ![s] = IF \E e \in @ : e.file = f /\ e.chunk_id = c THEN @
                     ELSE @ \cup {[file |-> f, chunk_id |-> c, path |-> p]}]

Register(reg, s, f, c, p) ==
  [reg EXCEPT ![s] = {e \in @ : ~(e.file = f /\ e.chunk_id = c)}
                          \cup {[file |-> f, chunk_id |-> c, path |-> p]}]

(* A server stores data as chunk c of f under a new path p.                *)
StoreChunk(reg, s, f, c, p, data) ==
  /\ registry' = Register(reg, s, f, c, p)
  /\ content' = [x \in DOMAIN content \cup {FileAt(s, f, c, p)} |->
                   IF x = FileAt(s, f, c, p) THEN data ELSE content[x]]
  /\ UNCHANGED <<up, crashes, entry>>

(* A connection to the transfer port that the head server finds for the    *)
(* server is accepted by the server.                                       *)
Reached(s) == s \in up /\ (entry[s] = "ports" \/ s \in DefaultPort)

(* What a retrieval by the head server gives (read_chunk_from_server, with *)
(* the recorded path as fallback), and what one by a client gives          *)
(* (handle_public_connection: GET_CHUNK names no path).  A retrieval       *)
(* registers the fallback path it was served from.                         *)
Retrieved(k, f) == IF Reached(k.server) THEN Served(k, f, {k.path}) ELSE {}
AfterRetrieval(k, f) ==
  IF Retrieved(k, f) = {} THEN registry
  ELSE Register(registry, k.server, f, k.chunk_id, CHOOSE p \in Retrieved(k, f) : TRUE)
ReadChunkFromServer(k, f) ==
  {content[FileAt(k.server, f, k.chunk_id, p)] : p \in Retrieved(k, f)}
HandlePublicConnection(k, f) ==
  {content[FileAt(k.server, f, k.chunk_id, p)] : p \in Served(k, f, {})}

(* An exchange with a server that is reached fails: no connection in time, *)
(* or the connection ends before the answer.                               *)
Lose == crashes + losses < MaxFaults /\ losses' = losses + 1

Idle == [pc |-> "idle"]

Init ==
  /\ store = [f \in {} |-> 0]
  /\ registry = [s \in Servers |-> {}]
  /\ content = [x \in {} |-> 0]
  /\ up = Servers
  /\ entry = [s \in Servers |-> IF s \in Configured THEN "bare"
                              ELSE IF s \in Registered THEN "ports" ELSE "none"]
  /\ upload = [u \in Uploads |-> Idle]
  /\ transfers = {}
  /\ download = [d \in Downloads |-> Idle]
  /\ delete = [x \in Deletes |-> Idle]
  /\ failover = [s \in Failovers |-> Idle]
  /\ crashes = 0 /\ losses = 0
  /\ mixed = {} /\ clean = {} /\ disturbed = {}

-----------------------------------------------------------------------------
(* What is still going on that changes file f, besides downloads.          *)
Uploading(f) == {u \in Uploads : /\ FileOf[u] = f
                                 /\ \/ upload[u].pc \in {"receiving", "collecting"}
                                    \/ \E t \in transfers : t.upload = u /\ t.state = "queued"}
Changing(f) == \/ \E x \in Deletes : FileOf[x] = f /\ delete[x].pc = "deleting"
               \/ \E s \in Failovers : failover[s].pc \notin {"idle", "done"}
Reading(f) == {d \in Downloads : FileOf[d] = f /\ download[d].pc \in {"asking", "fetching"}}

(* The downloads that have yet to vote and may choose server s.            *)
Considering(s) == {d \in Downloads : /\ download[d].pc = "asking"
                                     /\ \E k \in download[d].records : k.server = s}

(* store_metadata: the file's new version, with the number of replicas of  *)
(* every chunk among the records K.                                        *)
StoreMetadata(u, K) ==
  ReplaceFileChunks(store, FileOf[u], u, Recount(K), ReplicationFactor)

(* handle_client_upload: the request is read and answered READY; a 0-byte  *)
(* file has its metadata stored at once.                                   *)
StartUpload(u) ==
  /\ upload[u] = Idle
  /\ \E empty \in BOOLEAN :
       /\ empty => u \in EmptyUploads
       /\ upload' = [upload EXCEPT ![u] =
                       [pc |-> IF empty THEN "success" ELSE "receiving",
                        next |-> 0, empty |-> empty]]
  /\ store' = IF upload'[u].empty THEN StoreMetadata(u, {}) ELSE store
  /\ mixed' = mixed \cup Uploading(FileOf[u])
              \cup (IF Uploading(FileOf[u]) # {} \/ Changing(FileOf[u]) THEN {u} ELSE {})
  /\ clean' = IF ~upload'[u].empty THEN clean
              ELSE IF u \in mixed' THEN clean \ {FileOf[u]} ELSE clean \cup {FileOf[u]}
  /\ UNCHANGED <<nodes, transfers, download, delete, failover, losses, disturbed>>

(* select_servers_for_chunk: at most ReplicationFactor of the servers that *)
(* are registered, or in the configuration if none is; which ones depends  *)
(* on health and disk usage.                                               *)
SelectedServers ==
  LET known == {s \in Servers : entry[s] # "none"}
      candidates == IF known # {} THEN known ELSE Configured
  IN IF candidates = {} THEN {{}}
     ELSE {T \in SUBSET candidates : Cardinality(T) \in 1 .. ReplicationFactor}

SubmitChunkTransfers(u, chunk_id, T) ==
  transfers' = transfers \cup
    {[upload |-> u, chunk_id |-> chunk_id, server |-> s, state |-> "queued"] : s \in T}

(* A CHUNK message with a good checksum: its transfers are submitted.      *)
ReceiveChunk(u) ==
  /\ upload[u].pc = "receiving"
  /\ \E T \in SelectedServers : SubmitChunkTransfers(u, upload[u].next, T)
  /\ upload' = [upload EXCEPT ![u].next = @ + 1,
                  ![u].pc = IF upload[u].next + 1 \in ChunkIds THEN "receiving" ELSE "collecting"]
  /\ UNCHANGED <<store, nodes, download, delete, failover, losses, history>>

AllSent(u) == \A t \in transfers : t.upload = u => t.state # "queued"

(* The client stops, sends a chunk or a header that does not check, or an  *)
(* early EOF or another file hash: the handler returns, and the transfers  *)
(* it has submitted go on.                                                 *)
AbortUpload(u) ==
  /\ \/ upload[u].pc = "receiving"
     \/ upload[u].pc = "collecting" /\ AllSent(u)
  /\ upload' = [upload EXCEPT ![u].pc = "error"]
  /\ UNCHANGED <<store, nodes, transfers, download, delete, failover, losses, history>>

(* send_chunk_to_server, by a thread of the pool.                          *)
Done(t, state) == transfers' = (transfers \ {t}) \cup {[t EXCEPT !.state = state]}

SendChunk(t) ==
  LET f == FileOf[t.upload]
  IN /\ t.state = "queued"
     /\ Reached(t.server)
     /\ StoreChunk(registry, t.server, f, t.chunk_id, t.upload, t.upload)
     /\ \/ Done(t, "ok") /\ UNCHANGED losses
        \/ Done(t, "failed") /\ Lose
     /\ clean' = clean \ {f}
     /\ disturbed' = disturbed \cup Reading(f)
     /\ UNCHANGED <<store, upload, download, delete, failover, mixed>>

(* A faulty variant: nothing ends the wait for a server that is down.      *)
SendChunkHangs(t) ==
  /\ t.state = "queued"
  /\ Reached(t.server) /\ Lose
  /\ Done(t, "failed")
  /\ UNCHANGED <<store, nodes, upload, download, delete, failover, history>>

SendChunkFails(t) ==
  /\ t.state = "queued"
  /\ IF Reached(t.server) THEN Lose ELSE UNCHANGED losses
  /\ Done(t, "failed")
  /\ UNCHANGED <<store, nodes, upload, download, delete, failover, history>>

(* A faulty variant: the record names a path made up from the server.      *)
CollectedLocalPath(u) ==
  {[chunk_id |-> t.chunk_id, server |-> t.server, path |-> t.server, cut |-> FALSE] :
     t \in {x \in transfers : x.upload = u /\ x.state = "ok"}}

(* collect_transfers, the check that anything was stored, store_metadata.  *)
Collected(u) ==
  {[chunk_id |-> t.chunk_id, server |-> t.server, path |-> u, cut |-> FALSE] :
     t \in {x \in transfers : x.upload = u /\ x.state = "ok"}}

FinishUpload(u) ==
  LET f == FileOf[u]
      K == Collected(u)
  IN /\ upload[u].pc = "collecting"
     /\ AllSent(u)
     /\ upload' = [upload EXCEPT ![u].pc = IF K = {} THEN "error" ELSE "success"]
     /\ store' = IF K = {} THEN store ELSE StoreMetadata(u, K)
     /\ clean' = IF K # {} /\ u \notin mixed /\ Cids(K) = ChunkIds
                 THEN clean \cup {f} ELSE clean \ {f}
     /\ UNCHANGED <<nodes, transfers, download, delete, failover, losses, mixed, disturbed>>

-----------------------------------------------------------------------------
(* stream_file_to_client reads the metadata once.                          *)
Answer(d, pc) == download' = [download EXCEPT ![d] = [pc |-> pc]]

StartDownload(d) ==
  LET f == FileOf[d]
  IN /\ download[d] = Idle
     /\ IF f \in DOMAIN store
        THEN download' = [download EXCEPT ![d] =
               [pc |-> "asking", file_hash |-> store[f].file_hash, records |-> Records(f),
                asked |-> {}, votes |-> {}]]
        ELSE Answer(d, "failed")
     /\ disturbed' = IF /\ f \in clean /\ f \in DOMAIN store
                        /\ \A c \in DOMAIN Content(store[f].file_hash) :
                             \E k \in Records(f) : k.chunk_id = c /\ k.server \in up
                        /\ \A k \in Records(f) : k.server \in up => entry[k.server] = "ports"
                     THEN disturbed ELSE disturbed \cup {d}
     /\ UNCHANGED <<store, nodes, upload, transfers, delete, failover, losses, mixed, clean>>

(* A faulty variant: the recorded path is not sent along.                  *)
AskReplicaNoPath(d, k) ==
  LET f == FileOf[d]
  IN /\ download[d].pc = "asking"
     /\ k \in download[d].records \ download[d].asked
     /\ download' = [download EXCEPT ![d].asked = @ \cup {k}, ![d].votes = @ \cup
          {[key |-> k, hash |-> h] : h \in HandlePublicConnection(k, f)}]
     /\ UNCHANGED <<store, nodes, upload, transfers, delete, failover, losses, history>>

(* A restarted server that takes up the path of d's version of the file    *)
(* again changes the file for uploads under way and for other versions.    *)
TakenUp(d, extra) ==
  LET f == FileOf[d]
      h == download[d].file_hash
  IN IF registry' = registry
     THEN disturbed' = disturbed \cup extra /\ UNCHANGED <<mixed, clean>>
     ELSE /\ mixed' = mixed \cup Uploading(f)
          /\ clean' = IF f \in DOMAIN store /\ store[f].file_hash = h THEN clean ELSE clean \ {f}
          /\ disturbed' = disturbed \cup extra \cup {e \in Reading(f) : download[e].file_hash # h}

(* get_chunk_hash of one replica, with the recorded path as fallback.      *)
AskReplica(d, k) ==
  LET f == FileOf[d]
  IN /\ download[d].pc = "asking"
     /\ k \in download[d].records \ download[d].asked
     /\ \/ /\ registry' = AfterRetrieval(k, f)
           /\ download' = [download EXCEPT ![d].asked = @ \cup {k}, ![d].votes = @ \cup
                {[key |-> k, hash |-> h] : h \in ReadChunkFromServer(k, f)}]
           /\ TakenUp(d, {})
           /\ UNCHANGED losses
        \/ /\ Reached(k.server) /\ Lose
           /\ download' = [download EXCEPT ![d].asked = @ \cup {k}]
           /\ registry' \in {registry, AfterRetrieval(k, f)}
           /\ TakenUp(d, {d})
     /\ UNCHANGED <<store, content, up, crashes, entry, upload, transfers, delete, failover>>

(* The vote: the hash most replicas of the chunk answered with, the        *)
(* smallest of several, and the replicas that answered with it.            *)
VotesFor(votes, c, h) == {v \in votes : v.key.chunk_id = c /\ v.hash = h}
Majority(votes, c) ==
  LET Most == {h \in Hashes : \A g \in Hashes : Cardinality(VotesFor(votes, c, g))
                                                <= Cardinality(VotesFor(votes, c, h))}
  IN Min(Most)

(* The client is sent one server for every chunk, the least loaded of the  *)
(* majority, or an error.  The chunks in "ported" come with the public     *)
(* port of their server, the others with -1 or with 8080, where chunks are *)
(* not served.                                                             *)
Decide(d) ==
  LET s == download[d]
      cids == Cids(s.records)
      plans == {P \in [cids -> {v.key : v \in s.votes}] : \A c \in cids :
                  P[c] \in {v.key : v \in VotesFor(s.votes, c, Majority(s.votes, c))}}
  IN /\ s.pc = "asking"
     /\ s.asked = s.records
     /\ IF \A c \in cids : \E v \in s.votes : v.key.chunk_id = c
        THEN \E P \in plans :
               download' = [download EXCEPT ![d] =
                 [pc |-> "fetching", file_hash |-> s.file_hash, plan |-> P,
                  ported |-> {c \in cids : entry[P[c].server] = "ports"},
                  expect |-> [c \in cids |-> Majority(s.votes, c)],
                  left |-> cids, got |-> [c \in {} |-> 0]]]
        ELSE Answer(d, "failed")
     /\ UNCHANGED <<store, nodes, upload, transfers, delete, failover, losses, history>>

(* A thread of file_download: GET_CHUNK without a fallback path, and the   *)
(* check of what comes against the hash in CHUNK_LOC.                      *)
GetChunk(d, c) ==
  LET s == download[d]
      f == FileOf[d]
      k == s.plan[c]
      data == IF c \in s.ported THEN HandlePublicConnection(k, f) ELSE {}
  IN /\ s.pc = "fetching"
     /\ c \in s.left
     /\ \/ /\ IF data = {s.expect[c]}
              THEN download' = [download EXCEPT ![d].left = @ \ {c}, ![d].got =
                     [i \in DOMAIN @ \cup {c} |-> IF i = c THEN s.expect[c] ELSE @[i]]]
              ELSE Answer(d, "failed")
           /\ UNCHANGED <<losses, disturbed>>
        \/ /\ k.server \in up /\ c \in s.ported /\ Lose
           /\ Answer(d, "failed")
           /\ disturbed' = disturbed \cup {d}
     /\ UNCHANGED <<store, nodes, upload, transfers, delete, failover, mixed, clean>>

(* The end of file_download: chunks 0 .. n-1 are put together, where n is  *)
(* how many there were, and the whole is checked against the file's hash.  *)
Assembled(got) == [i \in {c \in DOMAIN got : c < Cardinality(DOMAIN got)} |-> got[i]]

(* A faulty variant: the chunks' hashes are enough.                        *)
FinishDownloadUnchecked(d) ==
  LET s == download[d]
  IN /\ s.pc = "fetching"
     /\ s.left = {}
     /\ download' = [download EXCEPT ![d] = [pc |-> "ok", file |-> Assembled(s.got)]]
     /\ UNCHANGED <<store, nodes, upload, transfers, delete, failover, losses, history>>

FinishDownload(d) ==
  LET s == download[d]
      file == Assembled(s.got)
  IN /\ s.pc = "fetching"
     /\ s.left = {}
     /\ IF file = Content(s.file_hash)
        THEN download' = [download EXCEPT ![d] = [pc |-> "ok", file |-> file]]
        ELSE Answer(d, "failed")
     /\ UNCHANGED <<store, nodes, upload, transfers, delete, failover, losses, history>>

-----------------------------------------------------------------------------
(* handle_client_delete reads the metadata once; a file without chunk      *)
(* records is not found.                                                   *)
StartDelete(x) ==
  LET f == FileOf[x]
  IN /\ delete[x] = Idle
     /\ delete' = [delete EXCEPT ![x] =
                     [pc |-> IF Records(f) = {} THEN "error" ELSE "deleting",
                      left |-> Records(f), all_deleted |-> TRUE]]
     /\ mixed' = mixed \cup Uploading(f)
     /\ UNCHANGED <<store, nodes, upload, transfers, download, failover, losses, clean, disturbed>>

(* DELETE_CHUNK to one replica: the server erases the id and removes the   *)
(* file it stands for, or does not know the id, or does not answer.        *)
DeleteChunk(x, k) ==
  LET f == FileOf[x]
      found == Served(k, f, {})
      Next1(ok) == delete' = [delete EXCEPT ![x].left = @ \ {k}, ![x].all_deleted = @ /\ ok]
  IN /\ delete[x].pc = "deleting"
     /\ k \in delete[x].left
     /\ \/ /\ found # {}
           /\ registry' = [registry EXCEPT ![k.server] =
                             {e \in @ : ~(e.file = f /\ e.chunk_id = k.chunk_id)}]
           /\ content' = [y \in DOMAIN content \ {FileAt(k.server, f, k.chunk_id, p) : p \in found} |->
                            content[y]]
           /\ \/ Next1(TRUE) /\ UNCHANGED losses
              \/ Next1(FALSE) /\ Lose
           /\ clean' = clean \ {f}
           /\ disturbed' = disturbed \cup Reading(f)
        \/ /\ IF found # {} THEN Lose ELSE UNCHANGED losses
           /\ Next1(FALSE)
           /\ UNCHANGED <<registry, content, clean, disturbed>>
     /\ UNCHANGED <<store, up, crashes, entry, upload, transfers, download, failover, mixed>>

(* delete_entry only when every replica confirmed.                         *)
FinishDelete(x) ==
  /\ delete[x].pc = "deleting"
  /\ delete[x].left = {}
  /\ store' = IF delete[x].all_deleted THEN RemoveFile(store, FileOf[x]) ELSE store
  /\ delete' = [delete EXCEPT ![x].pc = IF @ = "deleting" /\ delete[x].all_deleted
                                        THEN "success" ELSE "error"]
  /\ UNCHANGED <<nodes, upload, transfers, download, failover, losses, history>>

-----------------------------------------------------------------------------
(* on_server_unhealthy_callback: a server that is held for dead, running   *)
(* or not, loses its entry in the server registry; the entry goes by the   *)
(* id the monitor knows, which may be another server's, or nobody's.  (The *)
(* DEAD signal before that may end the server: a Crash.)                   *)
RemoveServer(dead) ==
  /\ failover[dead] = Idle
  /\ \/ UNCHANGED <<entry, disturbed>>
     \/ \E s \in Servers :
          /\ entry' = [entry EXCEPT ![s] = "none"]
          /\ disturbed' = IF s \in up THEN disturbed \cup Considering(s) ELSE disturbed
  /\ failover' = [failover EXCEPT ![dead] = [pc |-> "removed"]]
  /\ mixed' = mixed \cup UNION {Uploading(f) : f \in Files}
  /\ UNCHANGED <<store, registry, content, up, crashes, upload, transfers, download, delete,
                 losses, clean>>

(* rereplicate_dead_server_chunks(dead): the files, and the servers that   *)
(* are registered and not known to be unhealthy.                           *)
StartFailover(dead) ==
  /\ failover[dead].pc = "removed"
  /\ \E healthy \in SUBSET {s \in Servers \ {dead} : entry[s] # "none"} :
       failover' = [failover EXCEPT ![dead] =
         [pc |-> IF DOMAIN store = {} THEN "drop" ELSE IF healthy = {} THEN "done" ELSE "files",
          healthy |-> healthy, files |-> DOMAIN store, records |-> {}, left |-> {},
          file |-> "none", copy |-> {}, updates |-> [f \in {} |-> {}]]]
  /\ UNCHANGED <<store, nodes, upload, transfers, download, delete, losses, history>>

(* query_metadata of the next file; its chunks with a dead replica.        *)
QueryFile(dead, f) ==
  /\ failover[dead].pc = "files"
  /\ failover[dead].left = {}
  /\ f \in failover[dead].files
  /\ failover' = [failover EXCEPT ![dead].files = @ \ {f}, ![dead].file = f,
                    ![dead].records = Records(f),
                    ![dead].left = Cids({k \in Records(f) : k.server = dead})]
  /\ UNCHANGED <<store, nodes, upload, transfers, download, delete, losses, history>>

(* One chunk: read from a surviving replica, then store on a healthy       *)
(* server that has none; a chunk with no source, no target or a failed     *)
(* exchange is passed over.  Between the two, "copy" holds what was read.  *)
Sources(s, c, dead) == {k \in s.records : k.chunk_id = c /\ k.server # dead}
Targets(s, c) == {t \in s.healthy : ~\E k \in s.records : k.chunk_id = c /\ k.server = t}

CopyChunk(dead, c) ==
  LET s == failover[dead]
      Pass == failover' = [failover EXCEPT ![dead].left = @ \ {c}]
  IN /\ s.pc = "files"
     /\ c \in s.left
     /\ \/ /\ Sources(s, c, dead) = {} \/ Targets(s, c) = {}
           /\ Pass
           /\ UNCHANGED <<registry, losses>>
        \/ \E k \in Sources(s, c, dead), t \in Targets(s, c) :
             LET data == ReadChunkFromServer(k, s.file)
             IN \/ /\ registry' = AfterRetrieval(k, s.file)
                   /\ IF data = {} THEN Pass
                      ELSE failover' = [failover EXCEPT ![dead].pc = "repair", ![dead].left = @ \ {c},
                             ![dead].copy = {[chunk_id |-> c, server |-> t, data |-> h] : h \in data}]
                   /\ UNCHANGED losses
                \/ /\ Reached(k.server) /\ Lose
                   /\ registry' \in {registry, AfterRetrieval(k, s.file)}
                   /\ Pass
     /\ UNCHANGED <<store, content, up, crashes, entry, upload, transfers, download, delete, history>>

(* repair_chunk_on_server: the copy of a failover, under a path of its own. *)
RepairChunkOnServer(dead, x) ==
  LET s == failover[dead]
      f == s.file
      New == [chunk_id |-> x.chunk_id, server |-> x.server, path |-> dead, cut |-> FALSE]
      Pass == failover' = [failover EXCEPT ![dead].pc = "files", ![dead].copy = {}]
  IN /\ s.pc = "repair"
     /\ \/ /\ Reached(x.server)
           /\ StoreChunk(registry, x.server, f, x.chunk_id, dead, x.data)
           /\ \/ /\ failover' = [failover EXCEPT ![dead].pc = "files", ![dead].copy = {},
                        ![dead].updates = [g \in DOMAIN s.updates \cup {f} |->
                           (IF g \in DOMAIN s.updates THEN s.updates[g] ELSE {}) \cup
                           (IF g = f THEN {New} ELSE {})]]
                 /\ UNCHANGED losses
              \/ Pass /\ Lose
        \/ /\ IF Reached(x.server) THEN Lose ELSE UNCHANGED losses
           /\ Pass
           /\ UNCHANGED nodes
     /\ UNCHANGED <<store, upload, transfers, download, delete, history>>

(* Two operations on the store, one after the other.                       *)
ReplaceChunks(dead) ==
  LET s == failover[dead]
  IN /\ s.pc = "files" /\ s.files = {} /\ s.left = {}
     /\ store' = AtomicReplaceServerChunks(store, dead, s.updates)
     /\ failover' = [failover EXCEPT ![dead].pc = "drop"]
     /\ UNCHANGED <<nodes, upload, transfers, download, delete, losses, history>>

DropServer(dead) ==
  /\ failover[dead].pc = "drop"
  /\ store' = DeleteServerMetadata(store, dead)
  /\ failover' = [failover EXCEPT ![dead].pc = "done"]
  /\ UNCHANGED <<nodes, upload, transfers, download, delete, losses, history>>

-----------------------------------------------------------------------------
(* A cluster server's process ends, and starts again with its files and an *)
(* empty registry.                                                         *)
Crash(s) ==
  /\ s \in up /\ crashes + losses < MaxFaults
  /\ up' = up \ {s}
  /\ crashes' = crashes + 1
  /\ registry' = [registry EXCEPT ![s] = {}]
  /\ disturbed' = disturbed \cup UNION {Reading(f) : f \in Files}
  /\ UNCHANGED <<store, content, entry, upload, transfers, download, delete, failover, losses,
                 mixed, clean>>

Start(s) ==
  /\ s \notin up
  /\ up' = up \cup {s}
  /\ disturbed' = IF entry[s] = "ports" THEN disturbed ELSE disturbed \cup Considering(s)
  /\ UNCHANGED <<store, registry, content, crashes, entry, upload, transfers, download, delete,
                 failover, losses, mixed, clean>>

(* add_server: a server registers itself, with its ports, or an operator   *)
(* adds it without; one that has an entry keeps it as it is.               *)
AddServer(s) ==
  /\ entry[s] = "none"
  /\ \E e \in {"ports"} \cup (IF s \in Added THEN {"bare"} ELSE {}) :
       entry' = [entry EXCEPT ![s] = e]
  /\ UNCHANGED <<store, registry, content, up, crashes, upload, transfers, download, delete,
                 failover, losses, history>>

UploadStep(u) == StartUpload(u) \/ ReceiveChunk(u) \/ AbortUpload(u) \/ FinishUpload(u)
TransferStep == \E t \in transfers : SendChunk(t) \/ SendChunkFails(t)
DownloadStep(d) == \/ Decide(d) \/ FinishDownload(d)
                   \/ download[d].pc = "asking" /\ \E k \in download[d].records : AskReplica(d, k)
                   \/ download[d].pc = "fetching" /\ \E c \in download[d].left : GetChunk(d, c)
DeleteStep(x) == \/ FinishDelete(x)
                 \/ delete[x].pc = "deleting" /\ \E k \in delete[x].left : DeleteChunk(x, k)
FailoverStep(s) == \/ StartFailover(s) \/ ReplaceChunks(s) \/ DropServer(s)
                   \/ failover[s].pc = "files" /\ \/ \E f \in failover[s].files : QueryFile(s, f)
                                                  \/ \E c \in failover[s].left : CopyChunk(s, c)
                   \/ failover[s].pc = "repair" /\ \E x \in failover[s].copy : RepairChunkOnServer(s, x)

Next == \/ \E u \in Uploads : UploadStep(u)
        \/ TransferStep
        \/ \E d \in Downloads : StartDownload(d) \/ DownloadStep(d)
        \/ \E x \in Deletes : StartDelete(x) \/ DeleteStep(x)
        \/ \E s \in Failovers : RemoveServer(s) \/ FailoverStep(s)
        \/ \E s \in Servers : Crash(s) \/ Start(s) \/ AddServer(s)

Spec == Init /\ [][Next]_vars

(* Once connected, send and recv have no time-out: an exchange that waits  *)
(* for a server that runs may wait for good, and so may what shares its    *)
(* threads (transfer_pool, fetch_pool).                                    *)
TransferWaits == \E t \in transfers : t.state = "queued" /\ Reached(t.server)
DownloadWaits ==
  \E d \in Downloads :
    \/ /\ download[d].pc = "asking"
       /\ \E k \in download[d].records \ download[d].asked : Reached(k.server)
    \/ /\ download[d].pc = "fetching"
       /\ \E c \in download[d].left \cap download[d].ported : download[d].plan[c].server \in up
DeleteWaits(x) == delete[x].pc = "deleting" /\ \E k \in delete[x].left : k.server \in up
FailoverWaits(dead) ==
  LET s == failover[dead]
  IN \/ s.pc = "files" /\ \E c \in s.left : \E k \in Sources(s, c, dead) : Reached(k.server)
     \/ s.pc = "repair" /\ \E x \in s.copy : Reached(x.server)

(* Threads run, and what needs no answer of a running server is done; a    *)
(* client that has begun an upload goes on or stops.                       *)
Fairness == /\ \A u \in Uploads : WF_vars(upload[u] # Idle /\ UploadStep(u))
            /\ WF_vars(~TransferWaits /\ TransferStep)
            /\ \A d \in Downloads : WF_vars(~DownloadWaits /\ DownloadStep(d))
            /\ \A x \in Deletes : WF_vars(~DeleteWaits(x) /\ DeleteStep(x))
            /\ \A s \in Failovers : WF_vars(~FailoverWaits(s) /\ FailoverStep(s))

FairSpec == Spec /\ Fairness

-----------------------------------------------------------------------------
(* Type invariant.                                                         *)
TypeOK ==
  /\ DOMAIN store \subseteq Files
  /\ \A f \in DOMAIN store : IsFileRecord(store[f])
  /\ \A s \in Servers : registry[s] \subseteq [file : Files, chunk_id : ChunkIds, path : Paths]
  /\ DOMAIN content \subseteq [server : Servers, file : Files, chunk_id : ChunkIds, path : Paths]
  /\ \A x \in DOMAIN content : content[x] \in Uploads
  /\ up \subseteq Servers
  /\ entry \in [Servers -> {"none", "bare", "ports"}]
  /\ transfers \subseteq [upload : Uploads, chunk_id : ChunkIds, server : Servers,
                          state : {"queued", "ok", "failed"}]

(* A download that succeeds delivers the whole content of one upload whose *)
(* metadata was committed: never a mixture of two uploads, part of a file, *)
(* or what an aborted upload left on a server (the two checks of           *)
(* file_download against the hash in the metadata).                        *)
DownloadedIsCommitted ==
  \A d \in Downloads : download[d].pc = "ok" =>
    \E u \in Uploads : /\ FileOf[u] = FileOf[d]
                       /\ upload[u].pc = "success"
                       /\ download[d].file = Content(u)

(* After an upload that overlapped no other change of its file and stored  *)
(* every chunk, a download succeeds as long as every chunk has a replica   *)
(* on a running server, the running servers that hold replicas are entered *)
(* with their ports, and nothing changes under it: also after restarts     *)
(* that emptied registries (the fallback path), and after failovers that   *)
(* moved replicas (rereplicate_dead_server_chunks).  Two things are easily *)
(* overlooked: the ports must be there for every replica, as the vote may  *)
(* choose any; and a download that still works from the file's last        *)
(* version makes a restarted server register that version's path again.    *)
CleanDownloadSucceeds ==
  \A d \in Downloads : download[d].pc = "failed" => d \in disturbed

(* A file comes into the metadata only when an upload commits it: neither  *)
(* a failover working from an old list nor a deletion brings it back       *)
(* (atomic_replace_server_chunks skips files that are gone).               *)
NoResurrection ==
  [][\A f \in DOMAIN store' \ DOMAIN store :
       \E u \in Uploads : /\ FileOf[u] = f
                          /\ upload[u].pc # "success" /\ upload'[u].pc = "success"]_vars

(* Every request that was begun is answered, and every failover ends,      *)
(* whatever servers and other requests do: one that goes on for good waits *)
(* for good for the answer of a running server (send and recv have no      *)
(* time-out).  Servers that end, or that are not reached, hold up nothing  *)
(* for good.                                                               *)
RequestsEnd ==
  /\ \A u \in Uploads : <>[](upload[u].pc \in {"receiving", "collecting"}) => <>[]TransferWaits
  /\ \A d \in Downloads : <>[](download[d].pc \in {"asking", "fetching"}) => <>[]DownloadWaits
  /\ \A x \in Deletes : <>[](delete[x].pc = "deleting") => <>[]DeleteWaits(x)
  /\ \A s \in Failovers : <>[](failover[s].pc \notin {"idle", "done"}) => <>[]FailoverWaits(s)

(* What the documentation promises of a failover: a chunk of the dead      *)
(* server that has another replica on a running server, and a running      *)
(* server to go to, does not end with fewer replicas.                      *)
FailoverKeepsReplicas ==
  [][\A dead \in Failovers : DropServer(dead) =>
       \A f \in DOMAIN store, c \in ChunkIds :
         LET K == {k \in Records(f) : k.chunk_id = c}
             on == {k.server : k \in K}
         IN dead \in on \ up /\ on \cap up # {} /\ up \ on # {}
              => CidCount(DOMAIN store'[f].chunks, c) >= Cardinality(K)]_vars
=============================================================================
