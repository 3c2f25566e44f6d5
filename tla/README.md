# Archipel in TLA+

Archipel is a peer-to-peer node for a local network (TypeScript, Node.js): nodes
discover each other by UDP, exchange encrypted messages over TCP, and transfer
files in chunks from several peers at once. This directory holds TLA+ models of
its parts, TLC configurations that check them on small instances, and proofs
about them that TLAPS checks for every instance. Paths below are relative to the
repository's root.

Run in this directory:

    tlc -config Download.cfg MCDownloadManager           # any .cfg with its MC module
    tlapm DownloadManager_proofs.tla                     # any *_proofs.tla

`PROJECT.json` lists every run, the lines of code each definition stands for,
the hazards of the code with the properties that cover them, one mutation of the
code model per property that TLC must find to break it, and the findings.

## Inventory

| Component | State | Operations | Hard behaviours | What makes it correct | Module |
|---|---|---|---|---|---|
| Download manager, `src/transfer/downloader.ts` | pendingChunks, inProgress, completedChunks, chunkFailures, peerCursor; per worker a socket and a current peer | download, three workers | workers interleave at every await; timeouts against late replies; shared retry budget; workers outlive a rejected download | no lost or doubled chunk, nothing unverified in the file, it ends | DownloadManager, FileDownload |
| TCP server, `src/network/server.ts` | chunkStore, manifestStore, sessionKeys, socket buffers | CHUNK_REQ, CHUNK_DATA, MANIFEST, framing | packets of several sockets; unverified pushes; packets lost with a parse error | serves what it stored, with the key the requester has | DownloadManager, Messaging (keys), FileTransfer (reads) |
| TCP client, `src/network/client.ts` | none but the socket | connect, sendPacket, disconnect, disconnectGraceful | timers | every call ends | in DownloadManager, Messaging, Handshake |
| Chunker, `src/transfer/chunker.ts` | the `.part` and the final file | buildManifest, reassembleFile | overlapping calls on one path, crash, full disk, file changing while it is read | the final name only ever shows a whole, verified file | Reassembly |
| Trust store, `src/crypto/trust.ts` | `.archipel/trust.json` | trustPeer, revokePeer, isPeerTrusted | read-modify-write without a lock, truncation before the write, crash or failed write | approvals and revocations are not lost, one fingerprint per node | TrustStore |
| Node: messages, `src/cli/node.ts` | sessionKeys, messages | sendMessage, MSG handler | keys of two sides out of step; overtaking packets; failed sends; restart | an answer can be read, and chunks by who wrote to each other | Messaging |
| Node: files, trust and status, `src/cli/node.ts` | manifests, chunks (in the server) | start, stop, sendFile, downloadFile, trustNode, revokeNode | overlapping requests of the API | see chunker, download manager and trust store | through those; keys of downloads in Messaging, start and stop in Discovery |
| File receiver, `src/transfer/fileTransfer.ts` | sessions, completions, the `.part` | sendFile, handlePacket, waitForCompletion | handlers that nobody awaits; late registration; files that change while they are sent; several callers | a published file is whole, stays so, and who waits is answered | FileTransfer |
| Handshake, `src/crypto/handshake.ts`, `src/cli/node.ts` | packet queue, waiters, the peer's session key, which sendMessage sets too | performHandshake as initiator or responder, ensureHandshake | timeouts, lost AUTH_OK, overlapping calls, messages in between, a peer that does not know the protocol | who has negotiated a key shares it with the other side | Handshake, KeyAgreement |
| Peer table and discovery, `src/network/peerTable.ts`, `discovery.ts` | peers with lastSeen, timers | upsert, getAll, get, cleanup, HELLO | lost HELLOs, boundary of the expiry, restarts with another port | a live peer is found, a dead one forgotten, an address is current | Discovery |
| Identity, `src/crypto/identity.ts` | `.archipel/identity.json` | loadIdentity, saveIdentity | crash while the file is written; two nodes in one directory | an identity that was announced is on disk | Discovery |
| Web UI calls, `public/index.html` | call state, pending offer, RTCPeerConnection | offer, answer, ice, hangup, reject, polled | signals out of order, crossing calls, awaits inside handlers | nothing in the repository says | not modelled |
| Packets, ciphers, REST API, chat session, Gemini, CLI, views | – | – | pure functions, wrappers or start-up | – | not modelled, see below |

The parts interact as follows. The REST API calls the node, one call per request
and without serialising requests. `downloadFile` takes the chunks its server has
stored, and either calls `reassembleFile` or runs a `DownloadManager`, whose
workers ask other nodes' servers (CHUNK_REQ) and whose end is `reassembleFile`.
`sendMessage` writes a packet that the receiver's handler reads with its own
entry of `sessionKeys`; the server encrypts chunks with a copy of that map.
Addresses come from the peer table, which discovery fills from HELLOs.

## Modules

All processes are single-threaded JavaScript. One action is what one call does
between two awaits; `pc` names the await it is suspended in. Other calls,
packets, timers, errors of the system and crashes come in between.

**DownloadManager** – `download()` and `worker()`. `pending`, `inProgress`,
`completed`, `failures`, `cursor` are the fields of the class; `pc`, `chunk`,
`peer`, `sock` are the local variables of each worker and `wire` the packet on
its socket. `LoopTurn` is one turn of the `while` loop up to its first await; it
is part of every action that reaches the top of the loop (`Wake`, `ReceiveGood`,
`RetryBadHash`). The catch block is `EnterCatch`, which awaits `closeSocket()`,
then `GiveBack` or `GiveUp`. The peers' server is `HandleChunkReq` and
`StoreChunk`. A chunk is `good` (its SHA-256 is the manifest's), `bad` or
`absent`; keys matter only through equality, and stay as they are during a
download. Workers may take their first step in any order, which includes the
order of the code.

**FileDownload** – what `download()` promises its caller: missing chunks are
obtained one at a time and never lost, the verdict is reached once, and it is
`resolved` only with good chunks. `DownloadManager` implements it
(`ImplementsFileDownload`, `content <- completed`, `verdict <- Verdict`).

**Reassembly** – `reassembleFile()` on a file system in which a path has an
inode, opening with `w` truncates the inode, and a descriptor keeps it. A crash
keeps directory entries and what was written. `Torn` stands for manifests whose
`fileId` is not the hash of their chunks, which `buildManifest()` can produce
because it reads the file three times. There are two premises about callers. For a
name in `Awaited` each call is awaited before the next one is made. That is less than
it seems: a call whose first chunk is bad is rejected while the open of its `.part` is
still under way (`failing`), and if its caller tries again at once, the late open can
truncate the file of the second call between its check and its rename, which then
resolves with an empty file (TLC finds this with all names in `Awaited` and `Alone`
empty). For a name in `Alone`, a subset of `Awaited`, no call begins during such a
late open either. Calls for all other names overlap with these and with each other,
as the node allows. `PublishedIsStable` is promised for the names in `Awaited`,
everything else for the names in `Alone`.

**Publication** – what `reassembleFile()` promises for a name in `Alone`: there is nothing
under it, or a whole file, which a call replaces by its own at the moment it
resolves; a call for which everything is in order fails only by an error of the
file system or a crash, and whoever fails leaves the name as it was. `Reassembly`
implements it (`ImplementsPublication`): `published` is the content behind the final
name, and all awaits of a call are one stage.

**TrustStore** – the three operations on `trust.json`; every one loads the file,
the writers then truncate it and write it in two steps. Each file operation may fail
and reject the call: reading, `mkdir` or the opening with the file unchanged
(`IOError`); the write with nothing, a part or all of the store written
(`WriteFails`), which leaves an empty or `partial` file that no operation can read or
repair, without any crash. `SerialWriters` is a premise about callers: no two of
`trustPeer` and `revokePeer` at once. In the node as it is, the route `approve` always
ends with 'Public identity introuvable', because nothing sets `publicIdentity` of a
peer (`src/cli/node.ts:252-258`), so that `trustPeer` is never reached through the
routes; it is modelled as its other callers, the tests, use it.

**TrustLedger** – what the three operations promise together: one ledger of pinned
keys and trusted nodes, which every change alters at one moment of its call and from
which every query is answered as of one moment of its own. Until a change that has
taken effect returns, other operations fail. In that time a crash loses the ledger for
ever, and an error of the change itself either loses it too or rejects a call whose
change stands (`Abort`); an error before it changes nothing (`Break`). `TrustStore` implements it while writers follow each other
(`ImplementsTrustLedger`): the change takes effect when its writer truncates the
file, and the ledger is what the file has or is about to have.

**Messaging** – `sendMessage()`, the MSG handler and restarts. `Restart` is a new
process, with a new and empty map of keys: `stop()` by itself keeps the keys. `keys` is
`sessionKeys`; the server's copy always equals it, as both are set together. The
key is stored when the call is made. Every send has its own connection, so
packets overtake each other, get lost, or arrive although the sender saw an error.
`since` and `heard` are history variables for the properties. `ServingKey` is the
key with which a node's server encrypts chunks for another node, `FetchingKey` the
one with which `downloadFile` decrypts them: this is where messages and downloads
meet. After a message in one direction only, the two differ.

**FileTransfer** – `FileSender.sendFile()`, the reads of the server and
`FileReceiver`. Every packet starts a handler that nobody awaits, so that the
handlers of one connection run between each other's awaits; `handler` says where
each one is, `session` where the manifest's is, and `ReadPackets` is one data
event, in which all packets that have arrived are extracted and their handlers
run up to their first await. The write stream keeps the order of the `write()`
calls, and calls `end()` back when all earlier writes are done. A write after
`end()` and the second `rename()` are errors that nobody handles: they end the
process. The announced number of chunks and the chunks sent are independent,
because the sender takes the first from `stat()` and reads the file later. The
code also behaves in ways that no property promises and that the runs visit:
chunks that come in one read with the manifest are dropped; a second caller of
`waitForCompletion`, which may be called at any moment, replaces the first; the timer of either deletes the entry
of the other; `tests/test-transfer-60mb.ts` registers after `sendFile()` and
depends on the receiver not having finished.

**Handshake** – the calls of `ensureHandshake()` of one node for one peer. `pcI`
and `pcR` are the awaits of the two sides of each connection, `toI` and `toR` the
packets under way or in the reader's queue, `stored` the peer's entry of
`sessionKeys`. That entry has a second writer: `sendMessage()` stores the key it is
called with (`SetKey`, at any moment), of which the peer need not know, and the next
`ensureHandshake()` returns it as existing. `ReturnedIsHeld` therefore says of a
negotiated key that its responder holds it, and of an existing one that some responder
holds it or a message has set it.
A shared secret is the pair of the ephemeral keys it is made from, and a
signature is good if it is over the same secret. A peer of kind `node` is a plain
`TcpServer`, which answers HELLO with an empty ACK.

**KeyAgreement** – what a handshake promises: on each connection the responder
decides first, and the initiator has a key only if the responder has it.
`Handshake` implements it (`ImplementsKeyAgreement`).

**Discovery** – a node's start with its identity, HELLOs and the peer table. Time is
counted in ticks: timers fire in the tick in which they are due, a datagram arrives in
the tick in which it was sent or never. `age` of an entry is the time since its
`lastSeen`. HELLO and cleanup timers fall together in any order. A start loads the
identity, or creates it and writes it to disk, and binds its ports (`binding`); then the
node is online (`GoOnline`), or a port is taken and the process ends (`BindFails`), with
the identity on disk and nothing announced. Start, stop and
crash may come at any moment, a crash between the truncation and the write of
`identity.json` included. `silent` is a history variable: how long ago a HELLO of an
identity was last sent.

**MC...** instantiate them for TLC; **..._proofs** hold the proofs.

## Runs

| Run | Instance | Shows |
|---|---|---|
| download | 3 workers, 2 peers with different keys, 2 chunks, 2 tries, 1 push; each peer lacks one chunk or has it corrupt, the node has nothing or a corrupt copy | IInv (the inductive invariant of the proofs), ExclusiveFetch, ClaimsAreBacked, NoChunkMissing, RetriesAreBounded, CompletedOnlyGrows, ImplementsFileDownload, DownloadEnds |
| download_wrong_peer | 2 workers, 2 peers | *violation* of AnswerIsFromCurrentPeer |
| reassembly | 3 calls, four manifests: three with one name, one of them torn, which is in `Alone`, and one with another name, whose callers only await each call (`Awaited`); every map of good, bad and missing chunks; errors and crashes | IInv, OnlyBadChunksFail, AloneResolvedIsItsFile, PublishedIsStable, ImplementsPublication, CallsEnd |
| reassembly_shared | 2 overlapping calls | *violation* of ResolvedIsItsFile |
| trust_store | 4 calls, 2 nodes, 2 fingerprints, errors of every file operation, crashes; one writer at a time, readers at any time | IInv, RevocationIsSeen, ApprovalIsSeen, OneFingerprint, ImplementsTrustLedger |
| trust_store_race | the same with one fingerprint and overlapping writers | *violation* of RevocationIsSeen |
| messaging | 3 sends, 2 nodes, 2 keys, a restart of each | IInv, AnswerIsReadable, PairReadsChunks |
| messaging_first | 2 sends, 1 key, no restart | *violation* of SentIsNotDropped |
| discovery | 2 nodes with a directory each, 2 starts of each on any of 2 ports, HELLO every 2 ticks, expiry after 3 | IInv, GoneIsForgotten, ListedIsNotRemoved, IdentityIsOnDisk, NodesFindEachOther, AddressSettles |
| discovery_shared | the same with one directory for both | *violation* of NodesFindEachOther |
| file_transfer | ten transfers: whole, empty, shrunk, grown by one and by two chunks, with a corrupt chunk; 2 callers of waitForCompletion | IInv, PublishedIsWhole, PublishedIsStable, OnlyGrowthFails, EarlyWaiterIsAnswered, TransferEnds, OnlyWaiterIsAnswered |
| handshake | 3 overlapping calls, two answered by a responder and one by a plain node; a message may set its key at any moment | IInv, ReturnedIsHeld, FailureHasCause, HandshakeEnds, ImplementsKeyAgreement |

Bounds. Three workers are what the code has. Two peers with different keys give
every mismatch of socket and key. Two chunks among three workers give a worker
that finds nothing to claim while both others hold one. Two tries per chunk
(8 in the code) reach the first failure, the last one and, since two workers
may hold a chunk in turn, counts beyond it. Three calls of `reassembleFile` give a
failed or crashed one before, and one after, a published file, and one under the
first name while under the second a rejected call is still opening and the next one
writes. A lost revocation
needs four operations: approve, two overlapping writers, and the query that sees
it. Three sends are a first message, one that can be read because of it, and its
answer. An expiry of 3 ticks is not a multiple of the HELLO interval of 2, as in a
cleanup that misses the expiry, and one lost HELLO can hide a live peer;
two starts give a node that comes back under its identity with another port,
or that dies while it writes its identity and finds it torn. Chunks beyond the
announced ones give a write after `end()` and a second `rename()`; three
chunks give one between the first and the last. Two calls of one peer race for
the stored key, and the third fails. The proofs have no bounds.

`CHECK_DEADLOCK FALSE` is in every configuration because these systems stop:
a download ends, and calls are bounded.

Symmetry is used for nodes, keys and fingerprints, which no action or property of
those runs tells apart, and never with liveness. trust_store uses it with one temporal
property, `ImplementsTrustLedger`, which is a safety property: it constrains single
steps, and a step and its image under a permutation satisfy it together.

### Fairness

`DownloadManager.FairSpec` has weak fairness for each worker and for the
reassembly: every await of a worker ends by itself, the sleeps after 50 and
100 ms, `connect` after 5 s, `readPacket` after 10 s, `disconnectGraceful` after
5 s. Nothing is assumed of peers or the network, so `DownloadEnds` holds with
peers that never answer. `Reassembly.FairSpec` assumes that a file operation that
was started returns. Crashes, errors and overlapping calls are never fair.

`Discovery.FairSpec`: time passes and the timers of a running node fire (weak
fairness), and of the HELLOs that a node sends to another for ever some arrive
(strong fairness; a HELLO is lost when time passes before it is received). Nobody
has to start or stop a node, so both liveness properties speak about nodes that
stay up from some moment on. `FileTransfer.FairSpec`: the sender, the event loop
and the timers of `waitForCompletion` go on; nobody has to call it, and
connection and process may end at any moment. `Handshake.FairSpec`: a connection
attempt succeeds or fails (`connect` has a timeout), and the 10 s timers of
`readNext` fire; nobody has to answer.

## Findings

1. **A reply is decrypted with another peer's key** (`downloader.ts:140`): after
   a chunk the worker moves to the next peer but keeps its socket. With several
   sources and different keys each such chunk costs an attempt that is logged as
   'Pair injoignable'.
2. **Overlapping downloads of one file name share the `.part`**
   (`chunker.ts:92,126,131`): one of them resolves with an empty, partial or
   other file.
3. **A revocation can be lost** (`trust.ts:70-79`): two operations at once write
   over each other. The run does it with an approval and a revocation; through the
   routes, where `approve` never reaches the store, it takes two revocations at once.
4. **The first message between two nodes is always dropped** (`node.ts:72`) and
   shown as sent: the receiver has no key for a node it has not written to.
5. **Two nodes of the guide never find each other** (`discovery.ts:72-82`): the
   README starts both in one directory, hence with one identity, and each takes
   the other's HELLOs for its own.

## Proofs

Each proof module is about the module it is named after, for every value of its
constants, from the assumptions named there (`...Assumption`). In each, `IInv` is
the inductive invariant, which the runs check too; `Inductive` proves it, and the
other theorems follow from it.

`DownloadManager_proofs`: `TypeCorrect`; the safety invariants `Exclusive`,
`Backed`, `Complete`, `Verified` and `Bounded`; the action property `OnlyGrows`; and
`Implements`: every step is a step of `FileDownload` or a stutter. `ExclusiveFetch` is
not inductive. A wrong hash releases a claim before the last attempt throws, and the
catch block releases it again after an await, when another worker may have it.
`IInv` therefore says more: `Bookkeeping` ties `pending` to `completed`, puts a
worker behind each claim, and keeps workers in the loop while a chunk is pending;
`Claims` says that a worker in its catch block either still has its claim, or its
chunk is spent (tried too often, or obtained), so that the worker that releases
another's claim is one that gives up. After the first worker has given up,
exclusion is not promised (`NoWorkerFailed`), and the download is rejected.
`RetriesAreBounded` is about the same race: `MAX_RETRIES` is not a bound of the
count, because a worker may still be closing its socket with a chunk that others
have tried too often meanwhile. `RetryBudget` counts what each worker has added
beyond the limit: one while it is in its catch block after the last wrong hash, two
when it has given up. One turn of the loop is treated once, in the lemmas on
`LoopTurn`, and used by the three actions that contain it.

`Messaging_proofs`: `AnswerReadable` and `ChunksReadable`, for any number of nodes,
keys, sends and restarts. `AnswerIsReadable` speaks about the past of a dropped
packet; `IInv` adds that calls are made in order, what the history variables
record, and that a key which stands (no restart and no later call replaced it) is
in the map of the node that set it (`KeysStand`). A packet is then dropped only
when no key stands, and a key that does not stand never stands again. Two nodes
that have sent each other a message with one standing key serve and fetch with it.

`Discovery_proofs`: `Forgotten`, `ListedStays`, for any nodes and intervals, and
`OnDisk`, which also assumes that no two nodes share a directory and rests on the
identity being on disk before a port is bound (`KeptOnDisk`).
`GoneIsForgotten` relates the silence of a peer to tables, and a HELLO on its way
could renew an entry long after it was sent; `IInv` adds that datagrams are as
young as the tick they are received in (`AirIsFresh`), that an entry is at least
as old as its peer's silence (`AgeIsSilence`), and that none outlives the next cleanup
(`AgeIsBounded`).

`FileTransfer_proofs`: `Whole`, `OnlyGrowth`, `EarlyWaiter`, `Stable`, `Truthful` and
`WaiterKept`, for any transfers, number of callers and of chunks. That the published
file is whole is a fact about counters: `IInv` ties the packets read to handlers
(`ReadIsHandled`), the `.part` to the chunks counted (`PartIsCounted`), the call of
`end()` to a complete count (`EndedIsComplete`), and says that no handler is still
writing when the `.part` is renamed (`EndedIsQuiet`). `Truthful` and `WaiterKept` are
what `OnlyWaiterIsAnswered` rests on besides fairness: answers are true, and a caller
that is the only one keeps its entry and its timer until it has one. A second caller
would take its entry.

`Handshake_proofs`: `Held`, `Causal`, and `Agrees`, the refinement of
`KeyAgreement`, for any number of overlapping calls. The two sides of a connection
take turns, so at most one packet is under way, and which one follows from where
the sides are (`Turns`); what each side computed from it is one secret
(`SecretsAgree`). `Held` allows for any messages in between: only the key of a
handshake that succeeded, or of a message, is ever stored.

`TrustStore_proofs`: however writers overlap and whatever crashes, only who was
approved is trusted, and every pinned key was approved for its node (`OnlyApproved`).
The others, `RevocationSeen`, `ApprovalSeen`, `FirstUse`, `Transient` and `Implements`,
the refinement of `TrustLedger`, are about the behaviours in which no two writers
overlap (`[]OneWriter`, an invariant of the behaviour and not of the code;
trust_store_race shows what happens otherwise), for any nodes, keys and number of
operations. `Serial` proves that the guard `SerialWriters` of the run gives such
behaviours. The file is then empty while its writer writes it, never garbage (`FileIsOwned`), and
otherwise unreadable only when a writer crashed or failed (`Transient`); what a writer is about to save is its own
change of what the file has (`HasLoaded`); and every store that can be read, or that
a writer is about to save, agrees with every operation that has succeeded
(`StoresAgree`). Readers, errors and crashes are not restricted.

`Reassembly_proofs`: `PublishedWhole`, `OnlyBad`, `Resolved`, `PublishedStable` and
`Implements`, the refinement of `Publication`, for any manifests, chunk maps, number of
calls and crashes, for every name in `Alone` (`PublishedStable`: in `Awaited`), whatever
overlaps for other names. The code ensures neither premise; reassembly_shared shows the
other case. The premise does not leave everything to the guard: a call that overlaps
with others truncates, fails to rename, or writes through a descriptor whose file has
been renamed under it, and `NamesDiffer` says that all this stays within its own name,
because an inode serves one name for ever. For a name in `Alone`, no two of its paths
share an inode either (`PathsDiffer`), so that truncating or writing the `.part` does
not touch the published file, and the `.part` of a call under way has exactly what the
call has written (`PartIsWritten`), so that what is read back for the hash is what is
renamed. For a name that is only in `Awaited`, at most one call is under way besides
late opens of rejected ones (`OnePending`), and it writes to the inode that the `.part`
has (`WriterHasPart`), never to the published one: a late open can spoil the next call,
but no published file.
Two theorems say what it takes for `ResolvedIsItsFile`, which reassembly_shared finds
violated, to hold for all names. `ResolvedWhenAlone`: that calls for one name neither
overlap nor begin during the late open of a rejected one. `ResolvedWhenAwaited`: that
callers await each call, with no restriction on late opens, and the first chunk they
hold is good, as it is for a caller that has verified it; then no late open exists.

Only model-checked: liveness (`DownloadEnds`, `CallsEnd`, `NodesFindEachOther`,
`AddressSettles`, `TransferEnds`, `OnlyWaiterIsAnswered`, `HandshakeEnds`), because
fairness and ENABLED are out of the prover's reach. Every other property of a passing
run is a theorem.

## Not modelled

- The audio calls of `public/index.html`: polled signals, a pending offer and the
  browser's RTCPeerConnection. No doc, comment or test says what a call promises,
  so there is nothing to check the handlers against but themselves. Their hazards
  are listed in `PROJECT.json`.
- Byte formats, ciphers and HMAC (`packet.ts`, `cipher.ts`, `hmac.ts`) and the keys
  inside an identity: pure functions, used by what they promise. Packets that do not
  parse, which the server drops with the rest of its buffer, are left out with them.
- The REST routes call the node once each; that they do not serialise requests is
  in the premises of Reassembly and TrustStore.
- `sendFile()` and `downloadFile()` of the node beyond the keys they use: they call
  the parts that are modelled in sequence.
- `buildManifest()` step by step: what matters of it is `Torn`.
- `chat.ts` (a wrapper with a fixed key that only a test uses), `manifest.ts` (an
  older copy that nothing uses), `gemini.ts` (an external service), `cli/index.ts`
  (start-up), the views of the web page, tests, demo and scripts.

## Plan

Done: the download manager, reassembly, trust store and handshake, each with its
abstract specification (`FileDownload`, `Publication`, `TrustLedger`, `KeyAgreement`);
messages and session keys with the keys of downloads; file transfer; discovery with
identity; proofs of every safety property and refinement that the runs check.

Left:

1. What the server does with packets that do not parse, or that come in pieces: what
   is lost with a buffer, and which requests then end by their timeout.
2. `buildManifest()` while the file changes, composed with Reassembly in place of
   `Torn`.
3. An abstract specification of `FileReceiver`, with its proof: a transfer is published
   as a whole or not at all, and what it answers to those who wait.
4. Lemmas towards the liveness properties that need no fairness, as `WaiterKept` is
   one: what a step that must happen can still be undone by.
5. Calls of the web page, as soon as a document says what they promise.
