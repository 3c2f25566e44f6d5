------------------------------ MODULE Reassembly ------------------------------
(***************************************************************************)
(* reassembleFile() of src/transfer/chunker.ts on a file system: how the   *)
(* chunks of a download become the file the user sees.                     *)
(*                                                                         *)
(* A job is one call.  It writes the chunks to <name>.part, reads that     *)
(* back BY PATH to hash it, and renames it to <name>.  Several calls may   *)
(* run at once (POST /api/files/download is not serialised), and the       *)
(* process may crash between any two steps: open files and running calls   *)
(* vanish, directory entries and what was written to files stay.           *)
(*                                                                         *)
(* The file system is a map from paths to inodes and from inodes to        *)
(* content; opening with flag 'w' truncates the inode a path has, a        *)
(* descriptor keeps its inode when the path changes.  Content is a         *)
(* sequence of chunks: <<f, i>> is chunk i of file f.                      *)
(***************************************************************************)
EXTENDS Integers, Sequences

CONSTANTS
    NCalls,       \* bound: calls of reassembleFile
    File,         \* manifests
    NameOf,       \* the file name of each manifest
    NbChunks,     \* manifest.nbChunks of each
    Torn,         \* manifests whose fileId is not the hash of their chunks:
                  \* buildManifest reads the file three times while it changes
    Awaited,      \* names whose callers await each call before the next one
    Alone,        \* those of them for which, besides, no call begins while
                  \* the open of a call that was rejected is still under way
    None

Job  == 1 .. NCalls    \* calls are numbered in the order they are made
Name == {NameOf[f] : f \in File}
Path == Name \X {"out", "part"}
Out(f) == <<NameOf[f], "out">>
\* Mutant: the chunks are written under the final name.
PartInPlace(f) == <<NameOf[f], "out">>
Part(f) == <<NameOf[f], "part">>
Indices(f) == 1 .. NbChunks[f]

Stored == {"good", "bad", "absent"}
ChunksMap(f) == [Indices(f) -> Stored]
AnyChunksMap == {<<>>} \cup UNION {ChunksMap(f) : f \in File}

ASSUME FileAssumption ==
    /\ NCalls \in Nat
    /\ NbChunks \in [File -> Nat]
    /\ DOMAIN NameOf = File
    /\ Torn \subseteq File
    /\ Alone \subseteq Awaited
    /\ Awaited \subseteq Name
    /\ None \notin Job \cup File

(***************************************************************************)
(* The content whose hash is fileId, and the verdict of comparing hashes.  *)
(***************************************************************************)
Whole(f) == [i \in Indices(f) |-> <<f, i>>]
HashIsFileId(f, content) == content = Whole(f) /\ f \notin Torn

Hole == <<None, 0>>

VARIABLES
    pc,        \* the await each call is suspended in, or how it ended
    file,      \* its manifest
    chunks,    \* its chunksMap
    next,      \* the chunk it writes next
    fd,        \* the inode its writer has open
    hashFd,    \* the inode its hash stream reads
    hashed,    \* how much that stream has read
    entry,     \* directory: the inode at each path
    data       \* content of each inode

job   == <<pc, file, chunks, next, fd, hashFd, hashed>>
disk  == <<entry, data>>
vars  == <<job, disk>>

-----------------------------------------------------------------------------
(***************************************************************************)
(* idle      not called yet                                                *)
(* opening   mkdir and the open of the .part are under way                 *)
(* failing   the promise is rejected while the open is still under way     *)
(* writing   a chunk is being written                                      *)
(* hashing   computeFileHash(partPath)                                     *)
(* renaming  the hash was right                                            *)
(* resolved, failed, ioError, crashed  how the call ended: ioError is an   *)
(* error of the file system, failed an error that the code raises, ENOENT  *)
(* for a file it has just written included.                                *)
(***************************************************************************)
Ended  == {"resolved", "failed", "ioError", "crashed"}
Active == {"opening", "failing", "writing", "hashing", "renaming"}
PC     == {"idle"} \cup Ended \cup Active

(***************************************************************************)
(* Each call opens the .part once, so its inode, if it creates one, can    *)
(* carry its name.                                                         *)
(***************************************************************************)
Inode == Job
Content == Seq((File \X Nat) \cup {Hole})

TypeOK ==
    /\ pc \in [Job -> PC]
    /\ file \in [Job -> File \cup {None}]
    /\ chunks \in [Job -> AnyChunksMap]
    /\ next \in [Job -> Nat \ {0}]
    /\ hashed \in [Job -> Content]
    /\ fd \in [Job -> Inode \cup {None}]
    /\ hashFd \in [Job -> Inode \cup {None}]
    /\ entry \in [Path -> Inode \cup {None}]
    /\ data \in [Inode -> Content]
    /\ \A j \in Job :
          pc[j] # "idle" => /\ file[j] \in File
                            /\ chunks[j] \in ChunksMap(file[j])
                            /\ next[j] <= NbChunks[file[j]] + 1
    /\ \A j \in Job : pc[j] = "writing" => fd[j] \in Inode
    /\ \A j \in Job : pc[j] = "hashing" => hashFd[j] \in Inode

Init ==
    /\ pc = [j \in Job |-> "idle"]
    /\ file = [j \in Job |-> None]
    /\ chunks = [j \in Job |-> <<>>]
    /\ next = [j \in Job |-> 1]
    /\ fd = [j \in Job |-> None]
    /\ hashFd = [j \in Job |-> None]
    /\ hashed = [j \in Job |-> <<>>]
    /\ entry = [p \in Path |-> None]
    /\ data = [i \in Inode |-> <<>>]

-----------------------------------------------------------------------------
(***************************************************************************)
(* A call for the name of file f will still touch its paths; a call for it *)
(* has a promise that is not settled.                                      *)
(***************************************************************************)
InUse(f) == \E k \in Job : pc[k] \in Active /\ NameOf[file[k]] = NameOf[f]

Pending(f) ==
    \E k \in Job : pc[k] \in Active \ {"failing"} /\ NameOf[file[k]] = NameOf[f]

(***************************************************************************)
(* reassembleFile(outputPath, manifest, chunksMap) is called; its first    *)
(* check is on the number of chunks.  The guards on Awaited and Alone are  *)
(* what its callers do, none are in the code.                              *)
(***************************************************************************)
Call(j, f, held) ==
    /\ pc[j] = "idle"
    /\ \A k \in Job : k < j => pc[k] # "idle"
    /\ NameOf[f] \in Awaited => ~Pending(f)
    /\ NameOf[f] \in Alone => ~InUse(f)
    /\ file' = [file EXCEPT ![j] = f]
    /\ chunks' = [chunks EXCEPT ![j] = held]
    /\ pc' = [pc EXCEPT ![j] =
                IF \E i \in Indices(f) : held[i] = "absent"
                THEN "failed" ELSE "opening"]
    /\ UNCHANGED <<next, fd, hashFd, hashed, disk>>

(***************************************************************************)
(* The first chunk is checked while the open is under way: a bad one       *)
(* rejects the promise, and the open still happens.                        *)
(***************************************************************************)
FirstIsBad(j) == 1 \in Indices(file[j]) /\ chunks[j][1] # "good"

FailBeforeOpen(j) ==
    /\ pc[j] = "opening"
    /\ FirstIsBad(j)
    /\ pc' = [pc EXCEPT ![j] = "failing"]
    /\ UNCHANGED <<file, chunks, next, fd, hashFd, hashed, disk>>

(***************************************************************************)
(* Mutant: the open does not truncate the file.                            *)
(***************************************************************************)
OpenPartKeeping(j) ==
    LET p == Part(file[j])
        inode == IF entry[p] = None THEN j ELSE entry[p]
    IN  /\ \/ pc[j] = "opening" /\ ~FirstIsBad(j)
           \/ pc[j] = "failing"
        /\ entry' = [entry EXCEPT ![p] = inode]
        /\ fd' = [fd EXCEPT ![j] = inode]
        /\ pc' = [pc EXCEPT ![j] =
                    IF pc[j] = "failing" THEN "failed" ELSE "writing"]
        /\ UNCHANGED <<file, chunks, next, hashFd, hashed, data>>

(***************************************************************************)
(* createWriteStream(partPath, { flags: 'w' }) opens the file: an existing *)
(* one is truncated, whoever has it open.                                  *)
(***************************************************************************)
OpenPart(j) ==
    LET p == Part(file[j])
        inode == IF entry[p] = None THEN j ELSE entry[p]
    IN  /\ \/ pc[j] = "opening" /\ ~FirstIsBad(j)
           \/ pc[j] = "failing"
        /\ entry' = [entry EXCEPT ![p] = inode]
        /\ data' = [data EXCEPT ![inode] = <<>>]
        /\ fd' = [fd EXCEPT ![j] = inode]
        /\ pc' = [pc EXCEPT ![j] =
                    IF pc[j] = "failing" THEN "failed" ELSE "writing"]
        /\ UNCHANGED <<file, chunks, next, hashFd, hashed>>

(***************************************************************************)
(* One chunk is written at the writer's own position in its inode.         *)
(***************************************************************************)
Overwrite(content, at, c) ==
    [i \in 1 .. IF at > Len(content) THEN at ELSE Len(content) |->
        IF i = at THEN c ELSE IF i <= Len(content) THEN content[i] ELSE Hole]

(***************************************************************************)
(* Mutant: the chunk is written without a look at its hash.                *)
(***************************************************************************)
WriteChunkUnverified(j) ==
    LET chunk == IF chunks[j][next[j]] = "good" THEN <<file[j], next[j]>> ELSE Hole IN
    /\ pc[j] = "writing"
    /\ next[j] \in Indices(file[j])
    /\ data' = [data EXCEPT ![fd[j]] = Overwrite(@, next[j], chunk)]
    /\ next' = [next EXCEPT ![j] = @ + 1]
    /\ UNCHANGED <<pc, file, chunks, fd, hashFd, hashed, entry>>

WriteChunk(j) ==
    /\ pc[j] = "writing"
    /\ next[j] \in Indices(file[j])
    /\ chunks[j][next[j]] = "good"
    /\ data' = [data EXCEPT ![fd[j]] =
                  Overwrite(@, next[j], <<file[j], next[j]>>)]
    /\ next' = [next EXCEPT ![j] = @ + 1]
    /\ UNCHANGED <<pc, file, chunks, fd, hashFd, hashed, entry>>

(***************************************************************************)
(* Mutant: the chunk is neither written nor an error.                      *)
(***************************************************************************)
FailChunkSilently(j) ==
    /\ pc[j] = "writing"
    /\ next[j] \in Indices(file[j])
    /\ chunks[j][next[j]] # "good"
    /\ UNCHANGED vars

(***************************************************************************)
(* The chunk does not have the manifest's hash: writer.destroy().  The     *)
(* .part stays.                                                            *)
(***************************************************************************)
FailChunk(j) ==
    /\ pc[j] = "writing"
    /\ next[j] \in Indices(file[j])
    /\ chunks[j][next[j]] # "good"
    /\ pc' = [pc EXCEPT ![j] = "failed"]
    /\ UNCHANGED <<file, chunks, next, fd, hashFd, hashed, disk>>

(***************************************************************************)
(* writer.end() has flushed everything; computeFileHash opens the .part    *)
(* again, by its path.                                                     *)
(***************************************************************************)
OpenForHash(j) ==
    /\ pc[j] = "writing"
    /\ next[j] = NbChunks[file[j]] + 1
    /\ hashFd' = [hashFd EXCEPT ![j] = entry[Part(file[j])]]
    /\ pc' = [pc EXCEPT ![j] =
                IF entry[Part(file[j])] = None THEN "failed" ELSE "hashing"]
    /\ UNCHANGED <<file, chunks, next, fd, hashed, disk>>

(***************************************************************************)
(* The stream reads one more chunk, or finds the end of the file and the   *)
(* hash of what it has read is compared with fileId.                       *)
(***************************************************************************)
ReadForHash(j) ==
    /\ pc[j] = "hashing"
    /\ Len(hashed[j]) < Len(data[hashFd[j]])
    /\ hashed' = [hashed EXCEPT ![j] =
                    Append(@, data[hashFd[j]][Len(@) + 1])]
    /\ UNCHANGED <<pc, file, chunks, next, fd, hashFd, disk>>

\* Mutant: the hash of the whole file is not compared.
CompareHashNever(j) ==
    /\ pc[j] = "hashing"
    /\ Len(hashed[j]) >= Len(data[hashFd[j]])
    /\ pc' = [pc EXCEPT ![j] = "renaming"]
    /\ UNCHANGED <<file, chunks, next, fd, hashFd, hashed, disk>>

CompareHash(j) ==
    /\ pc[j] = "hashing"
    /\ Len(hashed[j]) >= Len(data[hashFd[j]])
    /\ pc' = [pc EXCEPT ![j] =
                IF HashIsFileId(file[j], hashed[j]) THEN "renaming" ELSE "failed"]
    /\ UNCHANGED <<file, chunks, next, fd, hashFd, hashed, disk>>

(***************************************************************************)
(* fs.rename(partPath, outputPath): whatever inode the .part has now       *)
(* replaces the one at the output path, atomically.                        *)
(***************************************************************************)
Rename(j) ==
    LET p == Part(file[j]) IN
    /\ pc[j] = "renaming"
    /\ IF entry[p] = None
       THEN /\ pc' = [pc EXCEPT ![j] = "failed"]
            /\ UNCHANGED entry
       ELSE /\ pc' = [pc EXCEPT ![j] = "resolved"]
            /\ entry' = [entry EXCEPT ![Out(file[j])] = entry[p], ![p] = None]
    /\ UNCHANGED <<file, chunks, next, fd, hashFd, hashed, data>>

(***************************************************************************)
(* mkdir, open, write, read or rename fails: the disk is full, permissions *)
(* changed.  What was written stays.                                       *)
(***************************************************************************)
IOError(j) ==
    /\ pc[j] \in Active
    /\ pc' = [pc EXCEPT ![j] = "ioError"]
    /\ UNCHANGED <<file, chunks, next, fd, hashFd, hashed, disk>>

(***************************************************************************)
(* The process dies.  After the restart the calls that were running are    *)
(* gone; new ones find the disk as it was left.                            *)
(***************************************************************************)
Crash ==
    /\ \E j \in Job : pc[j] \in Active
    /\ pc' = [j \in Job |-> IF pc[j] \in Active THEN "crashed" ELSE pc[j]]
    /\ UNCHANGED <<file, chunks, next, fd, hashFd, hashed, disk>>

JobStep(j) ==
    \/ FailBeforeOpen(j)
    \/ OpenPart(j)
    \/ WriteChunk(j)
    \/ FailChunk(j)
    \/ OpenForHash(j)
    \/ ReadForHash(j)
    \/ CompareHash(j)
    \/ Rename(j)

Next ==
    \/ \E j \in Job, f \in File :
          \E held \in ChunksMap(f) : Call(j, f, held)
    \/ \E j \in Job : JobStep(j) \/ IOError(j)
    \/ Crash

Spec == Init /\ [][Next]_vars

(***************************************************************************)
(* Every file operation that was started completes.                        *)
(***************************************************************************)
FairSpec == Spec /\ \A j \in Job : WF_vars(JobStep(j))

-----------------------------------------------------------------------------
(***************************************************************************)
(* Nothing in the node keeps two calls for one name apart.  The promises   *)
(* are for the names in Alone, whatever overlaps for other names: a caller *)
(* that awaits each call and tries again at once is not safe, because the  *)
(* open that a rejected call has begun truncates the .part of the next.    *)
(* What it still has is PublishedIsStable.                                 *)
(***************************************************************************)
IsAlone(j) == pc[j] # "idle" /\ NameOf[file[j]] \in Alone

(***************************************************************************)
(* A file that has its final name is complete and its hash is the fileId   *)
(* of a manifest of that name, at every moment, after a crash too: what is *)
(* half written is only ever called .part.                                 *)
(***************************************************************************)
PublishedIsWhole ==
    \A n \in Alone :
        entry[<<n, "out">>] # None =>
            \E f \in File :
                /\ NameOf[f] = n
                /\ HashIsFileId(f, data[entry[<<n, "out">>]])

(***************************************************************************)
(* When reassembleFile() resolves, the file at the path the caller returns *)
(* to its user is the file of the manifest: the hash was checked on the    *)
(* .part before the rename, and what was renamed is what was checked.      *)
(***************************************************************************)
IsItsFile(j) ==
    pc[j] # "resolved" /\ pc'[j] = "resolved" =>
        HashIsFileId(file[j], data'[entry'[Out(file[j])]])

AloneResolvedIsItsFile == [][\A j \in Job : IsAlone(j) => IsItsFile(j)]_vars

(***************************************************************************)
(* The same for every call, as the callers have it: they overlap.          *)
(***************************************************************************)
ResolvedIsItsFile == [][\A j \in Job : IsItsFile(j)]_vars

(***************************************************************************)
(* A published file is replaced as a whole or not at all: it does not      *)
(* disappear, and nobody who opened it sees it change.  This needs no more *)
(* than callers that await each call: a late open of a rejected call only  *)
(* ever truncates a .part.                                                 *)
(***************************************************************************)
PublishedIsStable ==
    [][\A n \in Awaited :
          LET out == <<n, "out">> IN
          entry[out] # None => /\ entry'[out] # None
                               /\ data'[entry[out]] = data[entry[out]]]_vars

(***************************************************************************)
(* reassembleFile() complains only when it should: a call that has every   *)
(* chunk of a sound manifest is not told that a hash is wrong or that a    *)
(* file it has just written does not exist.                                *)
(***************************************************************************)
OnlyBadChunksFail ==
    \A j \in Job :
        IsAlone(j) /\ pc[j] \in {"failing", "failed"} =>
            \/ file[j] \in Torn
            \/ \E i \in Indices(file[j]) : chunks[j][i] # "good"

(***************************************************************************)
(* For the names in Alone a call is one atomic step: it publishes the file *)
(* of its manifest when it resolves, and does nothing otherwise.           *)
(***************************************************************************)
AllGood(j) == \A i \in Indices(file[j]) : chunks[j][i] = "good"

StageOf(j) ==
    IF ~IsAlone(j) THEN "idle"
    ELSE IF pc[j] \in Active THEN "running" ELSE pc[j]

PublishedAs(n) ==
    LET inode == entry[<<n, "out">>] IN IF inode = None THEN None ELSE data[inode]

Publications == [n \in Alone |-> PublishedAs(n)]
Stage        == [j \in Job |-> StageOf(j)]
FileOf       == [j \in Job |-> IF IsAlone(j) THEN file[j] ELSE None]
Held         == {j \in Job : IsAlone(j) /\ AllGood(j)}

Abstract == INSTANCE Publication WITH
    File      <- {f \in File : NameOf[f] \in Alone},
    Content   <- [f \in File |-> Whole(f)],
    Sound     <- File \ Torn,
    published <- Publications,
    stage     <- Stage,
    file      <- FileOf,
    held      <- Held

ImplementsPublication == Abstract!Spec

(***************************************************************************)
(* The inductive strengthening.  No two paths share an inode, and an inode *)
(* serves one name for ever, so that what overlaps for a name disturbs no  *)
(* other one.  For a name in Awaited at most one call is pending, and it   *)
(* writes to what the .part is.  A call of a name in Alone that is under   *)
(* way has the .part for itself, with exactly what it has written.         *)
(***************************************************************************)
Awaits(j) == NameOf[file[j]] \in Awaited

OnePending ==
    \A j, k \in Job :
        /\ pc[j] \in Active \ {"failing"} /\ pc[k] \in Active \ {"failing"}
        /\ Awaits(j) /\ NameOf[file[j]] = NameOf[file[k]]
        => j = k

WriterHasPart ==
    \A j \in Job : pc[j] = "writing" /\ Awaits(j) => fd[j] = entry[Part(file[j])]

OneCall ==
    \A j, k \in Job :
        /\ pc[j] \in Active /\ pc[k] \in Active
        /\ IsAlone(j) /\ NameOf[file[j]] = NameOf[file[k]]
        => j = k

Unopened(j) == pc[j] \in {"idle", "opening", "failing"}

PathsDiffer ==
    /\ \A p, q \in Path : entry[p] # None /\ entry[p] = entry[q] => p = q
    /\ \A j \in Job, p \in Path : Unopened(j) => entry[p] # j

InodeIsOf(i, n) == ~Unopened(i) /\ NameOf[file[i]] = n

NamesDiffer ==
    /\ \A p \in Path : entry[p] # None => InodeIsOf(entry[p], p[1])
    /\ \A j \in Job : pc[j] = "writing" => InodeIsOf(fd[j], NameOf[file[j]])

NothingDone ==
    \A j \in Job :
        /\ pc[j] \in {"idle", "opening"} => next[j] = 1
        /\ Unopened(j) \/ pc[j] = "writing" => hashed[j] = <<>>

OnlyGoodIsWritten ==
    \A j \in Job :
        /\ pc[j] = "writing" => \A i \in 1 .. next[j] - 1 : chunks[j][i] = "good"
        /\ pc[j] \in {"hashing", "renaming"} => AllGood(j)

Written(f, n) == [i \in 1 .. n |-> <<f, i>>]

PartOf(j) ==
    LET f    == file[j]
        part == entry[Part(f)]
    IN  /\ pc[j] = "writing" =>
              fd[j] = part /\ data[part] = Written(f, next[j] - 1)
        /\ pc[j] = "hashing" =>
              /\ hashFd[j] = part /\ data[part] = Whole(f)
              /\ \E n \in 0 .. NbChunks[f] : hashed[j] = Written(f, n)
        /\ pc[j] = "renaming" =>
              part # None /\ HashIsFileId(f, data[part])

PartIsWritten == \A j \in Job : IsAlone(j) => PartOf(j)

IInv ==
    /\ TypeOK
    /\ OneCall
    /\ OnePending
    /\ WriterHasPart
    /\ PathsDiffer
    /\ NamesDiffer
    /\ NothingDone
    /\ OnlyGoodIsWritten
    /\ PartIsWritten
    /\ PublishedIsWhole
    /\ OnlyBadChunksFail

(***************************************************************************)
(* Every call ends.                                                        *)
(***************************************************************************)
CallsEnd == \A j \in Job : pc[j] \in Active ~> pc[j] \in Ended
=============================================================================
