--------------------------- MODULE DownloadManager ---------------------------
(***************************************************************************)
(* The multi-source download of one file: the workers of                   *)
(* src/transfer/downloader.ts, and the chunk service of the peers they ask *)
(* (src/network/server.ts).                                                *)
(*                                                                         *)
(* The downloader is one JavaScript process: a worker runs without         *)
(* interruption from one await to the next, so one action is what a worker *)
(* does between two awaits, and another worker can move only while this    *)
(* one awaits.  pc[w] names the await worker w is suspended in:            *)
(*                                                                         *)
(*   idle        the 50 ms or 100 ms sleep (and before the first loop)     *)
(*   connecting  client.connect(currentPeer)                               *)
(*   requesting  the CHUNK_REQ is written, readPacket waits for the reply  *)
(*   closing     in the catch block: await closeSocket()                   *)
(*   leaving     after the loop: await closeSocket()                       *)
(*   done, failed  the worker's promise is fulfilled, rejected             *)
(*                                                                         *)
(* Data are abstracted to what the code tells apart.  A chunk's content is *)
(* "good" when its SHA-256 is the manifest's and "bad" otherwise; the keys *)
(* matter only through equality.  The Map inProgress is a set, for the     *)
(* node id it keeps for each chunk is never read.                          *)
(***************************************************************************)
EXTENDS Integers, FiniteSets

CONSTANTS
    NWorkers,        \* workerPeers.length: 3 in the code
    NPeers,          \* this.peers.length
    NbChunks,        \* manifest.nbChunks
    MaxRetries,      \* MAX_CHUNK_RETRIES: 8 in the code
    Key,             \* session keys
    ClientKey,       \* the key the downloader has for each peer
    ServerKey,       \* the key each peer has for the downloader
    InitialChunks,   \* what the node may hold of the file when it starts
    InitialStores,   \* what the peers' chunkStores may hold at that moment
    MaxPushes        \* bound: CHUNK_DATA packets pushed to peers meanwhile

Worker == 0 .. NWorkers - 1
Peer   == 0 .. NPeers - 1
Chunk  == 0 .. NbChunks - 1
NoChunk == -1
NoPeer  == -1

Content == {"good", "bad"}
Stored  == Content \cup {"absent"}

ASSUME SizeAssumption ==
    /\ NWorkers \in Nat \ {0}
    /\ NPeers \in Nat \ {0}
    /\ NbChunks \in Nat
    /\ MaxRetries \in Nat \ {0}
    /\ MaxPushes \in Nat

ASSUME KeyAssumption ==
    /\ ClientKey \in [Peer -> Key]
    /\ ServerKey \in [Peer -> Key]

ASSUME ContentAssumption ==
    /\ InitialChunks \subseteq [Chunk -> Stored]
    /\ InitialStores \subseteq [Peer -> [Chunk -> Stored]]

VARIABLES
    pending,     \* pendingChunks
    inProgress,  \* the keys of inProgress
    completed,   \* completedChunks
    failures,    \* chunkFailures (0: no entry)
    cursor,      \* peerCursor
    pc,          \* the await each worker is suspended in
    chunk,       \* chunkIndex of the worker's current iteration
    peer,        \* the worker's currentPeer
    sock,        \* the peer the worker's socket is connected to, if it is live
    wire,        \* the packet in flight on that socket
    chunkStore,  \* each peer's chunks of this file
    pushes,      \* how many chunks were pushed to peers (bounded)
    outcome      \* the promise of download()

local  == <<pending, inProgress, completed, failures, cursor>>
worker == <<pc, chunk, peer, sock, wire>>
server == <<chunkStore, pushes>>
vars   == <<local, worker, server, outcome>>

-----------------------------------------------------------------------------
PC      == {"idle", "connecting", "requesting", "closing", "leaving", "done",
            "failed"}
Packet  == {"none", "CHUNK_REQ", "ACK"} \cup Content
Outcome == {"running", "reassembling", "resolved", "rejected"}

(***************************************************************************)
(* The worker has a chunk that it connects for or has requested.           *)
(***************************************************************************)
Fetching(w) == pc[w] \in {"connecting", "requesting"}

(***************************************************************************)
(* The worker is inside the try statement or its catch block.              *)
(***************************************************************************)
Busy(w) == Fetching(w) \/ pc[w] = "closing"

TypeOK ==
    /\ pending \subseteq Chunk
    /\ inProgress \subseteq Chunk
    /\ completed \in [Chunk -> Stored]
    /\ failures \in [Chunk -> Nat]
    /\ cursor \in Peer
    /\ pc \in [Worker -> PC]
    /\ chunk \in [Worker -> Chunk \cup {NoChunk}]
    /\ peer \in [Worker -> Peer]
    /\ sock \in [Worker -> Peer \cup {NoPeer}]
    /\ wire \in [Worker -> Packet]
    /\ chunkStore \in [Peer -> [Chunk -> Stored]]
    /\ pushes \in 0 .. MaxPushes
    /\ outcome \in Outcome
    /\ \A w \in Worker : Busy(w) => chunk[w] \in Chunk
    /\ \A w \in Worker : pc[w] = "requesting" => sock[w] \in Peer

(***************************************************************************)
(* Worker w starts with peers[w], or with peers[0] when there are fewer.   *)
(***************************************************************************)
FirstPeer(w) == IF w < NPeers THEN w ELSE 0

(***************************************************************************)
(* The constructor: the chunks the node holds are completed, unverified, and*)
(* the others pending.                                                     *)
(***************************************************************************)
Init ==
    /\ completed \in InitialChunks
    /\ pending = {c \in Chunk : completed[c] = "absent"}
    /\ inProgress = {}
    /\ failures = [c \in Chunk |-> 0]
    /\ cursor = 0
    /\ pc = [w \in Worker |-> "idle"]
    /\ chunk = [w \in Worker |-> NoChunk]
    /\ peer = [w \in Worker |-> FirstPeer(w)]
    /\ sock = [w \in Worker |-> NoPeer]
    /\ wire = [w \in Worker |-> "none"]
    /\ chunkStore \in InitialStores
    /\ pushes = 0
    /\ outcome = "running"

-----------------------------------------------------------------------------
(***************************************************************************)
(* nextPeer(): the peer under the cursor; the cursor moves on.             *)
(***************************************************************************)
NextPeer(w) ==
    /\ peer' = [peer EXCEPT ![w] = cursor]
    /\ cursor' = (cursor + 1) % NPeers

(***************************************************************************)
(* Mutant: chunks in progress are handed out again.                        *)
(***************************************************************************)
IsNextChunkUnclaimed(c, pend, claimed) ==
    /\ c \in pend
    /\ \A d \in pend : c <= d

(***************************************************************************)
(* takeNextChunk(): the first pending chunk, in increasing order, that no  *)
(* worker has claimed.                                                     *)
(***************************************************************************)
IsNextChunk(c, pend, claimed) ==
    /\ c \in pend \ claimed
    /\ \A d \in pend \ claimed : c <= d

(***************************************************************************)
(* One turn of the worker's loop, from its condition to the next await,    *)
(* with pend and claimed for pendingChunks and inProgress: leave, sleep    *)
(* until a claim is released, or claim a chunk and then connect, or        *)
(* request it at once when the socket is still alive.                      *)
(***************************************************************************)
LeaveLoop(w, pend, claimed) ==
    /\ pend = {}
    /\ pc' = [pc EXCEPT ![w] = "leaving"]
    /\ chunk' = [chunk EXCEPT ![w] = NoChunk]
    /\ wire' = [wire EXCEPT ![w] = "none"]
    /\ inProgress' = claimed

AwaitClaim(w, pend, claimed) ==
    /\ pend # {}
    /\ pend \subseteq claimed
    /\ pc' = [pc EXCEPT ![w] = "idle"]
    /\ chunk' = [chunk EXCEPT ![w] = NoChunk]
    /\ wire' = [wire EXCEPT ![w] = "none"]
    /\ inProgress' = claimed

\* Mutant: the claim is not recorded.
TakeChunkUnrecorded(w, c, pend, claimed) ==
    /\ IsNextChunk(c, pend, claimed)
    /\ inProgress' = claimed
    /\ chunk' = [chunk EXCEPT ![w] = c]
    /\ pc' = [pc EXCEPT ![w] =
                 IF sock[w] = NoPeer THEN "connecting" ELSE "requesting"]
    /\ wire' = [wire EXCEPT ![w] =
                   IF sock[w] = NoPeer THEN "none" ELSE "CHUNK_REQ"]

TakeChunk(w, c, pend, claimed) ==
    /\ IsNextChunk(c, pend, claimed)
    /\ inProgress' = claimed \cup {c}
    /\ chunk' = [chunk EXCEPT ![w] = c]
    /\ \/ /\ sock[w] = NoPeer
          /\ pc' = [pc EXCEPT ![w] = "connecting"]
          /\ wire' = [wire EXCEPT ![w] = "none"]
       \/ /\ sock[w] # NoPeer
          /\ pc' = [pc EXCEPT ![w] = "requesting"]
          /\ wire' = [wire EXCEPT ![w] = "CHUNK_REQ"]

LoopTurn(w, pend, claimed) ==
    \/ LeaveLoop(w, pend, claimed)
    \/ AwaitClaim(w, pend, claimed)
    \/ \E c \in Chunk : TakeChunk(w, c, pend, claimed)

(***************************************************************************)
(* The sleep ends (or the worker starts).                                  *)
(***************************************************************************)
Wake(w) ==
    /\ pc[w] = "idle"
    /\ LoopTurn(w, pending, inProgress)
    /\ UNCHANGED <<pending, completed, failures, cursor, peer, sock, server,
                   outcome>>

(***************************************************************************)
(* client.connect() succeeds: requestChunk() writes the request.           *)
(***************************************************************************)
ConnectOk(w) ==
    /\ pc[w] = "connecting"
    /\ pc' = [pc EXCEPT ![w] = "requesting"]
    /\ sock' = [sock EXCEPT ![w] = peer[w]]
    /\ wire' = [wire EXCEPT ![w] = "CHUNK_REQ"]
    /\ UNCHANGED <<local, chunk, peer, server, outcome>>

(***************************************************************************)
(* An exception enters the catch block, which first awaits closeSocket().  *)
(* The reply, if one is under way, is lost with the socket.                *)
(***************************************************************************)
EnterCatch(w) ==
    /\ pc' = [pc EXCEPT ![w] = "closing"]
    /\ wire' = [wire EXCEPT ![w] = "none"]

(***************************************************************************)
(* client.connect() is refused or has timed out after 5 s.                 *)
(***************************************************************************)
ConnectFails(w) ==
    /\ pc[w] = "connecting"
    /\ EnterCatch(w)
    /\ UNCHANGED <<local, chunk, peer, sock, server, outcome>>

(***************************************************************************)
(* The write or the socket fails, or 10 s pass without a reply: the timer  *)
(* can fire although the reply is already under way.                       *)
(***************************************************************************)
RequestFails(w) ==
    /\ pc[w] = "requesting"
    /\ EnterCatch(w)
    /\ UNCHANGED <<local, chunk, peer, sock, server, outcome>>

(***************************************************************************)
(* The reply is decrypted with the key of currentPeer, whichever peer the  *)
(* socket is connected to.                                                 *)
(***************************************************************************)
Decrypts(w) == ServerKey[sock[w]] = ClientKey[peer[w]]

(***************************************************************************)
(* The peer lacks the chunk (ACK 0x02), or its answer does not decrypt.    *)
(***************************************************************************)
ReceiveUnusable(w) ==
    /\ pc[w] = "requesting"
    /\ \/ wire[w] = "ACK"
       \/ wire[w] \in Content /\ ~Decrypts(w)
    /\ EnterCatch(w)
    /\ UNCHANGED <<local, chunk, peer, sock, server, outcome>>

(***************************************************************************)
(* Mutant: the chunk is recorded whatever its hash.                        *)
(***************************************************************************)
ReceiveGoodUnverified(w) ==
    /\ pc[w] = "requesting"
    /\ wire[w] \in Content
    /\ Decrypts(w)
    /\ completed' = [completed EXCEPT ![chunk[w]] = wire[w]]
    /\ pending' = pending \ {chunk[w]}
    /\ failures' = [failures EXCEPT ![chunk[w]] = 0]
    /\ NextPeer(w)
    /\ LoopTurn(w, pending \ {chunk[w]}, inProgress \ {chunk[w]})
    /\ UNCHANGED <<sock, server, outcome>>

(***************************************************************************)
(* The chunk has the manifest's hash: record it, move to the next peer and *)
(* go round the loop.  The socket stays connected to the previous peer.    *)
(***************************************************************************)
ReceiveGood(w) ==
    /\ pc[w] = "requesting"
    /\ wire[w] = "good"
    /\ Decrypts(w)
    /\ completed' = [completed EXCEPT ![chunk[w]] = "good"]
    /\ pending' = pending \ {chunk[w]}
    /\ failures' = [failures EXCEPT ![chunk[w]] = 0]
    /\ NextPeer(w)
    /\ LoopTurn(w, pending \ {chunk[w]}, inProgress \ {chunk[w]})
    /\ UNCHANGED <<sock, server, outcome>>

(***************************************************************************)
(* Mutants: a wrong hash keeps the claim; it is not counted as an attempt. *)
(***************************************************************************)
RetryBadHashKeepingClaim(w) ==
    /\ pc[w] = "requesting"
    /\ wire[w] = "bad"
    /\ Decrypts(w)
    /\ failures' = [failures EXCEPT ![chunk[w]] = @ + 1]
    /\ failures[chunk[w]] + 1 < MaxRetries
    /\ LoopTurn(w, pending, inProgress)
    /\ UNCHANGED <<pending, completed, cursor, peer, sock, server, outcome>>

RetryBadHashUncounted(w) ==
    /\ pc[w] = "requesting"
    /\ wire[w] = "bad"
    /\ Decrypts(w)
    /\ LoopTurn(w, pending, inProgress \ {chunk[w]})
    /\ UNCHANGED <<pending, completed, failures, cursor, peer, sock, server,
                   outcome>>

(***************************************************************************)
(* The chunk has another hash: count the attempt and release the claim,    *)
(* then try again with the same peer, or throw into the catch block of the *)
(* same iteration when that was the last attempt.                          *)
(***************************************************************************)
RetryBadHash(w) ==
    /\ pc[w] = "requesting"
    /\ wire[w] = "bad"
    /\ Decrypts(w)
    /\ failures' = [failures EXCEPT ![chunk[w]] = @ + 1]
    /\ failures[chunk[w]] + 1 < MaxRetries
    /\ LoopTurn(w, pending, inProgress \ {chunk[w]})
    /\ UNCHANGED <<pending, completed, cursor, peer, sock, server, outcome>>

ThrowBadHash(w) ==
    /\ pc[w] = "requesting"
    /\ wire[w] = "bad"
    /\ Decrypts(w)
    /\ failures' = [failures EXCEPT ![chunk[w]] = @ + 1]
    /\ failures[chunk[w]] + 1 >= MaxRetries
    /\ inProgress' = inProgress \ {chunk[w]}
    /\ EnterCatch(w)
    /\ UNCHANGED <<pending, completed, cursor, chunk, peer, sock, server,
                   outcome>>

(***************************************************************************)
(* The socket is closed: the rest of the catch block.  It releases the     *)
(* claim and counts the attempt; then the worker moves to the next peer    *)
(* and sleeps, or throws out of worker().  The first worker to throw       *)
(* rejects Promise.all, hence download(); the others keep running.         *)
(***************************************************************************)
Caught(w) ==
    /\ pc[w] = "closing"
    /\ inProgress' = inProgress \ {chunk[w]}
    /\ failures' = [failures EXCEPT ![chunk[w]] = @ + 1]
    /\ sock' = [sock EXCEPT ![w] = NoPeer]
    /\ chunk' = [chunk EXCEPT ![w] = NoChunk]

\* Mutant: the chunk is given back however often it was tried.
GiveBackAlways(w) ==
    /\ Caught(w)
    /\ pc' = [pc EXCEPT ![w] = "idle"]
    /\ NextPeer(w)
    /\ UNCHANGED <<pending, completed, wire, server, outcome>>

GiveBack(w) ==
    /\ Caught(w)
    /\ failures[chunk[w]] + 1 < MaxRetries
    /\ pc' = [pc EXCEPT ![w] = "idle"]
    /\ NextPeer(w)
    /\ UNCHANGED <<pending, completed, wire, server, outcome>>

\* Mutant: the last failure leaves the loop instead of throwing.
GiveUpQuietly(w) ==
    /\ Caught(w)
    /\ failures[chunk[w]] + 1 >= MaxRetries
    /\ pc' = [pc EXCEPT ![w] = "leaving"]
    /\ UNCHANGED <<pending, completed, cursor, peer, wire, server, outcome>>

GiveUp(w) ==
    /\ Caught(w)
    /\ failures[chunk[w]] + 1 >= MaxRetries
    /\ pc' = [pc EXCEPT ![w] = "failed"]
    /\ outcome' = IF outcome = "running" THEN "rejected" ELSE outcome
    /\ UNCHANGED <<pending, completed, cursor, peer, wire, server>>

(***************************************************************************)
(* The final closeSocket() returns.                                        *)
(***************************************************************************)
Finish(w) ==
    /\ pc[w] = "leaving"
    /\ pc' = [pc EXCEPT ![w] = "done"]
    /\ sock' = [sock EXCEPT ![w] = NoPeer]
    /\ UNCHANGED <<local, chunk, peer, wire, server, outcome>>

(***************************************************************************)
(* The peer closes a connection that is kept open across a sleep: the loop *)
(* will find socket.destroyed.                                             *)
(***************************************************************************)
SocketDestroyed(w) ==
    /\ pc[w] = "idle"
    /\ sock[w] # NoPeer
    /\ sock' = [sock EXCEPT ![w] = NoPeer]
    /\ UNCHANGED <<local, pc, chunk, peer, wire, server, outcome>>

-----------------------------------------------------------------------------
(***************************************************************************)
(* The peer at the other end answers a CHUNK_REQ from its chunkStore.      *)
(***************************************************************************)
HandleChunkReq(w) ==
    /\ pc[w] = "requesting"
    /\ wire[w] = "CHUNK_REQ"
    /\ LET content == chunkStore[sock[w]][chunk[w]] IN
         wire' = [wire EXCEPT ![w] =
                    IF content = "absent" THEN "ACK" ELSE content]
    /\ UNCHANGED <<local, pc, chunk, peer, sock, server, outcome>>

(***************************************************************************)
(* Another node pushes a chunk of the file to peer p, which stores it      *)
(* without verification, over the one it had.  MaxPushes bounds this.      *)
(***************************************************************************)
StoreChunk(p, c, content) ==
    /\ pushes < MaxPushes
    /\ pushes' = pushes + 1
    /\ chunkStore' = [chunkStore EXCEPT ![p][c] = content]
    /\ UNCHANGED <<local, worker, outcome>>

-----------------------------------------------------------------------------
(***************************************************************************)
(* Promise.all is fulfilled: reassembleFile() starts.                      *)
(***************************************************************************)
StartReassembly ==
    /\ outcome = "running"
    /\ \A w \in Worker : pc[w] = "done"
    /\ outcome' = "reassembling"
    /\ UNCHANGED <<local, worker, server>>

(***************************************************************************)
(* Mutant: reassembleFile() counts the chunks and does not hash them.      *)
(***************************************************************************)
ResolveByCount ==
    /\ outcome = "reassembling"
    /\ \A c \in Chunk : completed[c] # "absent"
    /\ outcome' = "resolved"
    /\ UNCHANGED <<local, worker, server>>

(***************************************************************************)
(* reassembleFile() verifies that every chunk is there and has the         *)
(* manifest's hash before the file gets its name.  It throws when one is   *)
(* not, and on any error of the file system.  (Reassembly.tla has the      *)
(* details.)                                                               *)
(***************************************************************************)
Resolve ==
    /\ outcome = "reassembling"
    /\ \A c \in Chunk : completed[c] = "good"
    /\ outcome' = "resolved"
    /\ UNCHANGED <<local, worker, server>>

ReassemblyFails ==
    /\ outcome = "reassembling"
    /\ outcome' = "rejected"
    /\ UNCHANGED <<local, worker, server>>

-----------------------------------------------------------------------------
WorkerStep(w) ==
    \/ Wake(w)
    \/ ConnectOk(w)
    \/ ConnectFails(w)
    \/ RequestFails(w)
    \/ ReceiveUnusable(w)
    \/ ReceiveGood(w)
    \/ RetryBadHash(w)
    \/ ThrowBadHash(w)
    \/ GiveBack(w)
    \/ GiveUp(w)
    \/ Finish(w)

Reassemble == StartReassembly \/ Resolve \/ ReassemblyFails

Environment ==
    \/ \E w \in Worker : SocketDestroyed(w) \/ HandleChunkReq(w)
    \/ \E p \in Peer, c \in Chunk, content \in Content :
           StoreChunk(p, c, content)

Next ==
    \/ \E w \in Worker : WorkerStep(w)
    \/ Reassemble
    \/ Environment

Spec == Init /\ [][Next]_vars

(***************************************************************************)
(* Every await of a worker ends: the sleeps by their timer, connect after  *)
(* at most 5 s, readPacket after at most 10 s, disconnectGraceful after at *)
(* most 5 s.  reassembleFile ends or throws.  Nothing is assumed of peers. *)
(***************************************************************************)
Fairness ==
    /\ \A w \in Worker : WF_vars(WorkerStep(w))
    /\ WF_vars(Reassemble)

FairSpec == Spec /\ Fairness

-----------------------------------------------------------------------------
NoWorkerFailed == \A w \in Worker : pc[w] # "failed"

(***************************************************************************)
(* Two workers never fetch the same chunk at the same time, as long as no  *)
(* worker has given up: takeNextChunk() hands a chunk out only once, across*)
(* the awaits at which claims are kept and released.  (A worker that gives *)
(* up after a wrong hash releases its claim twice, the second time after   *)
(* an await, and may release the claim another worker has taken since.)    *)
(***************************************************************************)
ExclusiveFetch ==
    NoWorkerFailed =>
        \A w, v \in Worker :
            w # v /\ Fetching(w) /\ Fetching(v) => chunk[w] # chunk[v]

(***************************************************************************)
(* Every claim is on a missing chunk and has a worker behind it that will  *)
(* release it.  A claim without one would hide the chunk from              *)
(* takeNextChunk() for ever, and every worker would poll for it.           *)
(***************************************************************************)
ClaimsAreBacked ==
    \A c \in inProgress :
        /\ completed[c] = "absent"
        /\ \E w \in Worker : Busy(w) /\ chunk[w] = c

(***************************************************************************)
(* reassembleFile() is never called with a chunk missing: its error        *)
(* 'Chunks manquants' cannot come from a download whose workers all        *)
(* returned, whatever the order in which they did.                         *)
(***************************************************************************)
NoChunkMissing ==
    outcome \in {"reassembling", "resolved"} =>
        \A c \in Chunk : completed[c] # "absent"

(***************************************************************************)
(* download() returns the path of a file only when every chunk has the     *)
(* manifest's hash, those the node held before the download included,      *)
(* which no worker verifies.                                               *)
(***************************************************************************)
ResolvedIsVerified ==
    outcome = "resolved" => \A c \in Chunk : completed[c] = "good"

(***************************************************************************)
(* completedChunks only gains verified chunks: what is in it is never      *)
(* dropped or replaced, also by a worker that fetched the same chunk, or   *)
(* that is still running after download() was rejected.                    *)
(***************************************************************************)
CompletedOnlyGrows ==
    [][\A c \in Chunk :
          completed'[c] # completed[c] =>
              completed[c] = "absent" /\ completed'[c] = "good"]_vars

(***************************************************************************)
(* The download ends: every worker stops, also those that outlive a        *)
(* rejected download(), and the promise of download() is settled.  No      *)
(* worker polls for ever for a claim that nobody releases.                 *)
(***************************************************************************)
DownloadEnds ==
    /\ \A w \in Worker : <>[](pc[w] \in {"done", "failed"})
    /\ <>(outcome \in {"resolved", "rejected"})

(***************************************************************************)
(* The inductive strengthening of the invariants above.                    *)
(*                                                                         *)
(* Bookkeeping: pendingChunks is what completedChunks lacks, claims are on *)
(* pending chunks and have a worker behind them, no worker is out of the   *)
(* loop while a chunk is pending, a worker never holds a chunk whose copy  *)
(* is corrupt.                                                             *)
(***************************************************************************)
Bookkeeping ==
    /\ pending = {c \in Chunk : completed[c] = "absent"}
    /\ inProgress \subseteq pending
    /\ \A c \in inProgress : \E w \in Worker : Busy(w) /\ chunk[w] = c
    /\ \A w \in Worker : pc[w] \in {"leaving", "done"} => pending = {}
    /\ \A w \in Worker : Busy(w) => completed[chunk[w]] # "bad"
    /\ outcome \in {"reassembling", "resolved"} => pending = {}
    /\ outcome = "resolved" => \A c \in Chunk : completed[c] = "good"

(***************************************************************************)
(* A worker in its catch block may have lost its claim, but only when its  *)
(* chunk was tried too often, so that it will give up, or is obtained.     *)
(***************************************************************************)
Spent(c) == failures[c] >= MaxRetries \/ c \notin pending

Claims ==
    /\ \A w \in Worker : Fetching(w) => chunk[w] \in inProgress
    /\ \A w \in Worker :
          pc[w] = "closing" => chunk[w] \in inProgress \/ Spent(chunk[w])
    /\ \A w, v \in Worker :
          w # v /\ Busy(w) /\ Busy(v) /\ chunk[w] = chunk[v] =>
              Spent(chunk[w]) /\ ~(Fetching(w) /\ Fetching(v))

(***************************************************************************)
(* A chunk is tried MaxRetries times, and more often only by workers that  *)
(* have it already and then give up: a worker that gives up has counted at *)
(* most two tries beyond, one for the hash and one in its catch block.     *)
(***************************************************************************)
GivenUp == {w \in Worker : pc[w] = "failed"}
ClosingOn(c) == {w \in Worker : pc[w] = "closing" /\ chunk[w] = c}

RetryBudget ==
    /\ \A c \in Chunk :
          failures[c] < MaxRetries + 2 * Cardinality(GivenUp) + Cardinality(ClosingOn(c))
    /\ GivenUp # {} => outcome = "rejected"
    /\ outcome \in {"reassembling", "resolved"} => \A w \in Worker : pc[w] = "done"

IInv ==
    /\ TypeOK
    /\ Bookkeeping
    /\ NoWorkerFailed => Claims
    /\ RetryBudget

(***************************************************************************)
(* The tries of a chunk are limited whatever the peers answer, and however *)
(* workers race for it: the count passes the limit by less than two for    *)
(* each worker, and a chunk that has reached it ends the download, at the  *)
(* latest when the socket of a worker that has it is closed.               *)
(***************************************************************************)
RetriesAreBounded ==
    \A c \in Chunk :
        /\ failures[c] < MaxRetries + 2 * NWorkers
        /\ failures[c] >= MaxRetries =>
              outcome = "rejected" \/ ClosingOn(c) # {}

(***************************************************************************)
(* A request is answered by the peer whose key decrypts the answer.  The   *)
(* code logs every failure as 'Pair injoignable' (the peer cannot be       *)
(* reached) and counts it against the chunk.                               *)
(***************************************************************************)
AnswerIsFromCurrentPeer ==
    \A w \in Worker :
        pc[w] = "requesting" => ClientKey[peer[w]] = ClientKey[sock[w]]

(***************************************************************************)
(* The workers implement the abstract download of FileDownload: missing    *)
(* chunks are obtained one by one, and the verdict is reached once.        *)
(***************************************************************************)
Verdict ==
    IF outcome \in {"resolved", "rejected"} THEN outcome ELSE "running"

Abstract ==
    INSTANCE FileDownload WITH
        Chunk   <- Chunk,
        content <- completed,
        verdict <- Verdict

ImplementsFileDownload == Abstract!Spec
=============================================================================
