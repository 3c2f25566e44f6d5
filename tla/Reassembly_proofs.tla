-------------------------- MODULE Reassembly_proofs --------------------------
(***************************************************************************)
(* Proofs about Reassembly, for any files, chunks and number of calls, and *)
(* for the names in Alone or in Awaited, whatever overlaps for other       *)
(* names.                                                                  *)
(***************************************************************************)
EXTENDS Reassembly, SequenceTheorems, TLAPS

(***************************************************************************)
(* What the constants make of a call that was made.                        *)
(***************************************************************************)
LEMMA Paths ==
    /\ None \notin Inode
    /\ \A f \in File : Part(f) \in Path /\ Out(f) \in Path /\ NbChunks[f] \in Nat
    /\ \A f, g \in File :
          /\ Part(f) # Out(g)
          /\ Part(f) = Part(g) <=> NameOf[f] = NameOf[g]
          /\ Out(f) = Out(g) <=> NameOf[f] = NameOf[g]
BY FileAssumption DEF Inode, Part, Out, Path, Name

(***************************************************************************)
(* Writing a chunk makes content of content, and appends it to what was    *)
(* written one after the other.                                            *)
(***************************************************************************)
LEMMA OverwriteType ==
    ASSUME NEW content \in Content, NEW at \in Nat \ {0}, NEW c \in File \X Nat
    PROVE  Overwrite(content, at, c) \in Content
<1> DEFINE C == (File \X Nat) \cup {Hole}
           n == IF at > Len(content) THEN at ELSE Len(content)
<1>1. Len(content) \in Nat /\ \A i \in 1 .. Len(content) : content[i] \in C
  BY DEF Content
<1>2. n \in Nat
  BY <1>1
<1>3. \A i \in 1 .. n :
         (IF i = at THEN c ELSE IF i <= Len(content) THEN content[i] ELSE Hole) \in C
  BY <1>1
<1>4. Overwrite(content, at, c) \in [1 .. n -> C]
  BY <1>3 DEF Overwrite
<1> QED
  BY <1>2, <1>4, SeqDef DEF Content

(***************************************************************************)
(* Writing chunk n + 1 behind the first n chunks of a file gives its first *)
(* n + 1.                                                                  *)
(***************************************************************************)
LEMMA OverwriteAppends ==
    ASSUME NEW f \in File, NEW n \in Nat
    PROVE  Overwrite(Written(f, n), n + 1, <<f, n + 1>>) = Written(f, n + 1)
<1>1. Len(Written(f, n)) = n
  BY DEF Written
<1>2. DOMAIN Overwrite(Written(f, n), n + 1, <<f, n + 1>>) = 1 .. n + 1
  BY <1>1 DEF Overwrite
<1> QED
  BY <1>1, <1>2 DEF Written, Overwrite

(***************************************************************************)
(* The empty file, and a prefix of a file that is read on.                 *)
(***************************************************************************)
LEMMA WrittenFacts ==
    ASSUME NEW f \in File
    PROVE  /\ Written(f, 0) = <<>>
           /\ Whole(f) = Written(f, NbChunks[f])
           /\ \A n \in Nat : /\ Len(Written(f, n)) = n
                             /\ Written(f, n) \in Content
           /\ \A n \in Nat : Append(Written(f, n), <<f, n + 1>>) = Written(f, n + 1)
<1>1. Written(f, 0) = <<>>
  BY DEF Written
<1>2. Whole(f) = Written(f, NbChunks[f])
  BY DEF Whole, Written, Indices
<1>3. ASSUME NEW n \in Nat
      PROVE  Len(Written(f, n)) = n /\ Written(f, n) \in Content
  <2>1. Written(f, n) \in [1 .. n -> (File \X Nat) \cup {Hole}]
    BY DEF Written
  <2> QED
    BY <2>1, SeqDef DEF Content
<1>4. ASSUME NEW n \in Nat PROVE Append(Written(f, n), <<f, n + 1>>) = Written(f, n + 1)
  <2>1. Written(f, n) \in Seq((File \X Nat) \cup {Hole}) /\ Len(Written(f, n)) = n
    BY <1>3 DEF Content
  <2> QED
    BY <2>1 DEF Written
<1> QED
  BY <1>1, <1>2, <1>3, <1>4

(***************************************************************************)
(* A call that was made and has not ended has a manifest.                  *)
(***************************************************************************)
LEMMA ActiveFile ==
    ASSUME TypeOK, NEW j \in Job, pc[j] \in Active
    PROVE  /\ file[j] \in File
           /\ chunks[j] \in ChunksMap(file[j])
           /\ Part(file[j]) \in Path /\ Out(file[j]) \in Path
           /\ NbChunks[file[j]] \in Nat
           /\ pc[j] # "idle"
BY Paths DEF TypeOK, Active

(***************************************************************************)
(* Every step keeps the types.                                             *)
(***************************************************************************)
LEMMA TypeStep ==
    ASSUME TypeOK, NothingDone, [Next]_vars
    PROVE  TypeOK'
<1> USE DEF TypeOK, PC, Active, Ended, job, disk
<1>1. ASSUME NEW j \in Job, NEW f \in File, NEW held \in ChunksMap(f), Call(j, f, held)
      PROVE  TypeOK'
  <2>1. next[j] = 1 /\ NbChunks[f] \in Nat
    BY <1>1, FileAssumption DEF NothingDone, Call
  <2>2. held \in AnyChunksMap
    BY DEF AnyChunksMap
  <2> QED
    BY <1>1, <2>1, <2>2 DEF Call
<1>2. ASSUME NEW j \in Job, FailBeforeOpen(j) PROVE TypeOK'
  BY <1>2 DEF FailBeforeOpen
<1>3. ASSUME NEW j \in Job, OpenPart(j) PROVE TypeOK'
  <2> DEFINE p == Part(file[j])
             inode == IF entry[p] = None THEN j ELSE entry[p]
  <2>1. pc[j] \in {"opening", "failing"} /\ p \in Path
    BY <1>3, ActiveFile DEF OpenPart
  <2>2. inode \in Inode
    BY <2>1 DEF Inode
  <2>3. <<>> \in Content
    BY SeqDef DEF Content
  <2>4. /\ entry' = [entry EXCEPT ![p] = inode]
        /\ data' = [data EXCEPT ![inode] = <<>>]
        /\ fd' = [fd EXCEPT ![j] = inode]
        /\ pc' \in [Job -> PC] /\ pc'[j] \in {"failed", "writing"}
        /\ \A k \in Job \ {j} : pc'[k] = pc[k]
        /\ UNCHANGED <<file, chunks, next, hashFd, hashed>>
    BY <1>3 DEF OpenPart
  <2> HIDE DEF p, inode
  <2> QED
    BY <2>1, <2>2, <2>3, <2>4
<1>4. ASSUME NEW j \in Job, WriteChunk(j) PROVE TypeOK'
  <2>1. /\ next[j] \in 1 .. NbChunks[file[j]] /\ NbChunks[file[j]] \in Nat
        /\ file[j] \in File /\ fd[j] \in Inode
    BY <1>4, ActiveFile DEF WriteChunk, Indices
  <2>2. Overwrite(data[fd[j]], next[j], <<file[j], next[j]>>) \in Content
    BY <2>1, OverwriteType
  <2> QED
    BY <1>4, <2>1, <2>2 DEF WriteChunk
<1>5. ASSUME NEW j \in Job, FailChunk(j) PROVE TypeOK'
  BY <1>5 DEF FailChunk
<1>6. ASSUME NEW j \in Job, OpenForHash(j) PROVE TypeOK'
  BY <1>6, ActiveFile DEF OpenForHash
<1>7. ASSUME NEW j \in Job, ReadForHash(j) PROVE TypeOK'
  <2>1. /\ pc[j] = "hashing" /\ data[hashFd[j]] \in Content /\ hashed[j] \in Content
        /\ Len(hashed[j]) < Len(data[hashFd[j]])
    BY <1>7 DEF ReadForHash
  <2>2. data[hashFd[j]][Len(hashed[j]) + 1] \in (File \X Nat) \cup {Hole}
    BY <2>1 DEF Content
  <2>3. Append(hashed[j], data[hashFd[j]][Len(hashed[j]) + 1]) \in Content
    BY <2>1, <2>2 DEF Content
  <2> QED
    BY <1>7, <2>3 DEF ReadForHash
<1>8. ASSUME NEW j \in Job, CompareHash(j) PROVE TypeOK'
  BY <1>8 DEF CompareHash
<1>9. ASSUME NEW j \in Job, Rename(j) PROVE TypeOK'
  BY <1>9, ActiveFile DEF Rename
<1>10. ASSUME NEW j \in Job, IOError(j) PROVE TypeOK'
  BY <1>10 DEF IOError
<1>11. CASE Crash
  BY <1>11 DEF Crash
<1>12. CASE UNCHANGED vars
  BY <1>12 DEF vars
<1> QED
  BY <1>1, <1>2, <1>3, <1>4, <1>5, <1>6, <1>7, <1>8, <1>9, <1>10, <1>11, <1>12
     DEF Next, JobStep

(***************************************************************************)
(* A step makes at most one more call active, and one of a free name.      *)
(***************************************************************************)
LEMMA OneCallStep ==
    ASSUME TypeOK, OneCall, [Next]_vars
    PROVE  OneCall'
<1> USE DEF TypeOK, OneCall, IsAlone, Active, Ended
<1>1. ASSUME NEW j \in Job, NEW f \in File, NEW held, Call(j, f, held)
      PROVE  OneCall'
  BY <1>1 DEF Call, InUse
<1>2. ASSUME NEW j \in Job, JobStep(j) \/ IOError(j)
      PROVE  /\ pc[j] \in Active /\ file' = file
             /\ \A k \in Job \ {j} : pc'[k] = pc[k]
  BY <1>2 DEF JobStep, FailBeforeOpen, OpenPart, WriteChunk, FailChunk, OpenForHash,
              ReadForHash, CompareHash, Rename, IOError
<1>3. ASSUME NEW j \in Job, JobStep(j) \/ IOError(j) PROVE OneCall'
  BY <1>2, <1>3
<1>4. CASE Crash
  BY <1>4 DEF Crash
<1>5. CASE UNCHANGED vars
  BY <1>5 DEF vars, job
<1> QED
  BY <1>1, <1>3, <1>4, <1>5 DEF Next

(***************************************************************************)
(* Of the calls for a name in Awaited at most one is pending: a step makes *)
(* at most one more pending, and only when there is none.                  *)
(***************************************************************************)
LEMMA OnePendingStep ==
    ASSUME TypeOK, OnePending, [Next]_vars
    PROVE  OnePending'
<1> USE DEF TypeOK, OnePending, Awaits, Active, Ended
<1>1. ASSUME NEW j \in Job, NEW f \in File, NEW held, Call(j, f, held)
      PROVE  OnePending'
  BY <1>1 DEF Call, Pending
<1>2. ASSUME NEW j \in Job, JobStep(j) \/ IOError(j)
      PROVE  /\ pc'[j] \in Active \ {"failing"} => pc[j] \in Active \ {"failing"}
             /\ file' = file
             /\ \A k \in Job \ {j} : pc'[k] = pc[k]
  BY <1>2 DEF JobStep, FailBeforeOpen, OpenPart, WriteChunk, FailChunk, OpenForHash,
              ReadForHash, CompareHash, Rename, IOError
<1>3. ASSUME NEW j \in Job, JobStep(j) \/ IOError(j) PROVE OnePending'
  BY <1>2, <1>3
<1>4. CASE Crash
  BY <1>4 DEF Crash
<1>5. CASE UNCHANGED vars
  BY <1>5 DEF vars, job
<1> QED
  BY <1>1, <1>3, <1>4, <1>5 DEF Next

(***************************************************************************)
(* OpenPart and Rename, the steps that change the directory, keep the      *)
(* inodes of different paths apart.                                        *)
(***************************************************************************)
LEMMA PathsStep ==
    ASSUME TypeOK, PathsDiffer, [Next]_vars
    PROVE  PathsDiffer'
<1> USE DEF TypeOK, PathsDiffer, Unopened, PC, Active, Ended, Inode
<1>1. ASSUME UNCHANGED entry,
             \A j \in Job : pc'[j] \in {"idle", "opening", "failing"} =>
                               pc[j] \in {"idle", "opening", "failing"}
      PROVE  PathsDiffer'
  BY <1>1
<1>2. ASSUME NEW j \in Job, OpenPart(j) PROVE PathsDiffer'
  <2> DEFINE p == Part(file[j])
             inode == IF entry[p] = None THEN j ELSE entry[p]
  <2>1. /\ pc[j] \in {"opening", "failing"} /\ p \in Path
        /\ entry' = [entry EXCEPT ![p] = inode]
        /\ pc'[j] \in {"failed", "writing"}
        /\ \A k \in Job \ {j} : pc'[k] = pc[k]
    BY <1>2, ActiveFile DEF OpenPart
  <2>2. \A q \in Path \ {p} : entry[q] # inode
    BY <2>1
  <2>3. inode # None /\ \A k \in Job \ {j} : inode = k => \E q \in Path : entry[q] = k
    BY <2>1, Paths
  <2> HIDE DEF p, inode
  <2>4. entry'[p] = inode /\ \A q \in Path \ {p} : entry'[q] = entry[q]
    BY <2>1
  <2>5. \A q, r \in Path : entry'[q] # None /\ entry'[q] = entry'[r] => q = r
    BY <2>2, <2>4
  <2>6. ASSUME NEW k \in Job, NEW q \in Path, pc'[k] \in {"idle", "opening", "failing"}
        PROVE  entry'[q] # k
    <3>1. k # j /\ pc[k] \in {"idle", "opening", "failing"}
      BY <2>1, <2>6
    <3> QED
      BY <2>3, <2>4, <3>1
  <2> QED
    BY <2>5, <2>6
<1>3. ASSUME NEW j \in Job, Rename(j) PROVE PathsDiffer'
  <2> DEFINE p == Part(file[j])
             o == Out(file[j])
  <2>1. pc[j] = "renaming" /\ p \in Path /\ o \in Path /\ p # o
    BY <1>3, ActiveFile, Paths DEF Rename
  <2>2. CASE entry[p] = None
    BY <1>1, <1>3, <2>2 DEF Rename
  <2>3. CASE entry[p] # None
    <3>1. /\ entry' = [entry EXCEPT ![o] = entry[p], ![p] = None]
          /\ pc' = [pc EXCEPT ![j] = "resolved"]
      BY <1>3, <2>3 DEF Rename
    <3> HIDE DEF p, o
    <3>2. /\ entry'[o] = entry[p] /\ entry'[p] = None
          /\ \A q \in Path \ {o, p} : entry'[q] = entry[q]
      BY <2>1, <3>1
    <3>3. \A q, r \in Path : entry'[q] # None /\ entry'[q] = entry'[r] => q = r
      BY <2>1, <3>2
    <3>4. \A k \in Job, q \in Path :
             pc'[k] \in {"idle", "opening", "failing"} => entry'[q] # k
      BY <2>1, <3>1, <3>2, Paths
    <3> QED
      BY <3>3, <3>4
  <2> QED
    BY <2>2, <2>3
<1>4. ASSUME NEW j \in Job, NEW f \in File, NEW held, Call(j, f, held)
      PROVE  PathsDiffer'
  BY <1>1, <1>4 DEF Call, disk
<1>5. ASSUME NEW j \in Job,
             \/ FailBeforeOpen(j) \/ WriteChunk(j) \/ FailChunk(j) \/ OpenForHash(j)
             \/ ReadForHash(j) \/ CompareHash(j) \/ IOError(j)
      PROVE  PathsDiffer'
  BY <1>1, <1>5 DEF FailBeforeOpen, WriteChunk, FailChunk, OpenForHash, ReadForHash,
                    CompareHash, IOError, disk
<1>6. CASE Crash
  BY <1>1, <1>6 DEF Crash, disk
<1>7. CASE UNCHANGED vars
  BY <1>1, <1>7 DEF vars, job, disk
<1> QED
  BY <1>2, <1>3, <1>4, <1>5, <1>6, <1>7 DEF Next, JobStep

(***************************************************************************)
(* OpenPart in detail: the inode is the one at the path, or a new one.     *)
(***************************************************************************)
LEMMA OpenPartFacts ==
    ASSUME TypeOK, PathsDiffer, NEW j \in Job, OpenPart(j)
    PROVE  /\ pc[j] \in {"opening", "failing"}
           /\ file[j] \in File /\ Part(file[j]) \in Path
           /\ entry'[Part(file[j])] \in Inode
           /\ entry[Part(file[j])] # None => entry'[Part(file[j])] = entry[Part(file[j])]
           /\ entry[Part(file[j])] = None => entry'[Part(file[j])] = j
           /\ fd'[j] = entry'[Part(file[j])]
           /\ data'[entry'[Part(file[j])]] = <<>>
           /\ pc'[j] = IF pc[j] = "failing" THEN "failed" ELSE "writing"
           /\ \A q \in Path \ {Part(file[j])} :
                 /\ entry'[q] = entry[q]
                 /\ entry[q] # None => data'[entry[q]] = data[entry[q]]
<1> USE DEF TypeOK, Inode
<1> DEFINE p == Part(file[j])
           inode == IF entry[p] = None THEN j ELSE entry[p]
<1>1. /\ pc[j] \in {"opening", "failing"} /\ file[j] \in File /\ p \in Path
      /\ entry' = [entry EXCEPT ![p] = inode]
      /\ data' = [data EXCEPT ![inode] = <<>>]
      /\ fd' = [fd EXCEPT ![j] = inode]
      /\ pc'[j] = IF pc[j] = "failing" THEN "failed" ELSE "writing"
  BY ActiveFile DEF OpenPart, Active
<1>2. inode \in Inode /\ \A q \in Path \ {p} : entry[q] # inode
  BY <1>1, Paths DEF PathsDiffer, Unopened
<1>3. /\ entry[p] # None => inode = entry[p]
      /\ entry[p] = None => inode = j
  OBVIOUS
<1> HIDE DEF p, inode
<1>4. entry'[p] = inode /\ fd'[j] = inode /\ data'[inode] = <<>>
  BY <1>1, <1>2
<1>5. \A q \in Path \ {p} :
         /\ entry'[q] = entry[q]
         /\ entry[q] # None => data'[entry[q]] = data[entry[q]]
  BY <1>1, <1>2
<1> QED
  BY <1>1, <1>2, <1>3, <1>4, <1>5 DEF p

(***************************************************************************)
(* A call that opened its .part is not called again and keeps its manifest.*)
(***************************************************************************)
LEMMA InodeStays ==
    ASSUME TypeOK, [Next]_vars, NEW i \in Job, NEW n, InodeIsOf(i, n)
    PROVE  InodeIsOf(i, n)'
<1> USE DEF TypeOK, InodeIsOf, Unopened, PC, Active, Ended
<1>1. ASSUME NEW j \in Job, NEW f \in File, NEW held, Call(j, f, held)
      PROVE  InodeIsOf(i, n)'
  BY <1>1 DEF Call
<1>2. ASSUME NEW j \in Job, JobStep(j) \/ IOError(j)
      PROVE  InodeIsOf(i, n)'
  BY <1>2 DEF JobStep, FailBeforeOpen, OpenPart, WriteChunk, FailChunk, OpenForHash,
              ReadForHash, CompareHash, Rename, IOError
<1>3. CASE Crash
  BY <1>3 DEF Crash
<1>4. CASE UNCHANGED vars
  BY <1>4 DEF vars, job
<1> QED
  BY <1>1, <1>2, <1>3, <1>4 DEF Next

(***************************************************************************)
(* An inode serves one name: it is created under the .part of a name, and  *)
(* renamed to its final name.                                              *)
(***************************************************************************)
LEMMA NamesStep ==
    ASSUME TypeOK, PathsDiffer, NamesDiffer, [Next]_vars
    PROVE  NamesDiffer'
<1> USE DEF InodeIsOf, Unopened
<1>0. \A i \in Job : \A n : InodeIsOf(i, n) => InodeIsOf(i, n)'
  BY InodeStays
<1>a. \A p \in Path : entry[p] # None => entry[p] \in Job /\ InodeIsOf(entry[p], p[1])
  BY DEF NamesDiffer, TypeOK, Inode
<1>b. \A j \in Job : pc[j] = "writing" =>
                        fd[j] \in Job /\ InodeIsOf(fd[j], NameOf[file[j]])
  BY DEF NamesDiffer, TypeOK, Inode
<1>1. ASSUME UNCHANGED entry,
             \A j \in Job : pc'[j] = "writing" =>
                               pc[j] = "writing" /\ fd'[j] = fd[j] /\ file'[j] = file[j]
      PROVE  NamesDiffer'
  BY <1>0, <1>a, <1>b, <1>1 DEF NamesDiffer
<1>2. ASSUME NEW j \in Job, OpenPart(j) PROVE NamesDiffer'
  <2> DEFINE p == Part(file[j])
  <2>1. /\ pc[j] \in {"opening", "failing"} /\ file[j] \in File /\ p \in Path
        /\ entry'[p] \in Inode /\ fd'[j] = entry'[p]
        /\ entry[p] # None => entry'[p] = entry[p]
        /\ entry[p] = None => entry'[p] = j
        /\ \A q \in Path \ {p} : entry'[q] = entry[q]
        /\ pc'[j] \in {"failed", "writing"}
    BY <1>2, OpenPartFacts
  <2>2. /\ UNCHANGED file
        /\ \A k \in Job \ {j} : pc'[k] = pc[k] /\ fd'[k] = fd[k]
    BY <1>2 DEF OpenPart, TypeOK
  <2>3. p[1] = NameOf[file[j]]
    BY DEF Part
  <2>4. ~Unopened(j)' /\ NameOf[file'[j]] = p[1]
    BY <2>1, <2>2, <2>3
  <2>5. \A q \in Path : q = p => InodeIsOf(entry[q], q[1])'
    BY <1>0, <1>a, <2>1, <2>4
  <2>6. \A q \in Path : entry'[q] # None => InodeIsOf(entry[q], q[1])'
    BY <1>0, <1>a, <2>1, <2>5
  <2>7. \A k \in Job : pc'[k] = "writing" => InodeIsOf(fd[k], NameOf[file[k]])'
    BY <1>0, <1>b, <2>1, <2>2, <2>3, <2>5
  <2> QED
    BY <2>6, <2>7 DEF NamesDiffer
<1>3. ASSUME NEW j \in Job, Rename(j) PROVE NamesDiffer'
  <2> DEFINE p == Part(file[j])
             o == Out(file[j])
  <2>1. pc[j] = "renaming" /\ p \in Path /\ o \in Path /\ p # o /\ p[1] = o[1]
    BY <1>3, ActiveFile, Paths DEF Rename, Active, Part, Out
  <2>2. UNCHANGED <<file, fd>> /\ \A k \in Job : pc'[k] = "writing" => pc[k] = "writing"
    BY <1>3 DEF Rename, TypeOK
  <2>3. CASE entry[p] = None
    BY <1>1, <1>3, <2>2, <2>3 DEF Rename
  <2>4. CASE entry[p] # None
    <3>1. entry' = [entry EXCEPT ![o] = entry[p], ![p] = None]
      BY <1>3, <2>4 DEF Rename
    <3> HIDE DEF p, o
    <3>2. /\ entry'[o] = entry[p] /\ entry'[p] = None
          /\ \A q \in Path \ {o, p} : entry'[q] = entry[q]
      BY <2>1, <3>1 DEF TypeOK
    <3>3. \A q \in Path : entry'[q] # None => InodeIsOf(entry[q], q[1])'
      BY <1>0, <1>a, <2>1, <2>4, <3>2
    <3>4. \A k \in Job : pc'[k] = "writing" => InodeIsOf(fd[k], NameOf[file[k]])'
      BY <1>0, <1>b, <2>2
    <3> QED
      BY <3>3, <3>4 DEF NamesDiffer
  <2> QED
    BY <2>3, <2>4
<1>4. ASSUME NEW j \in Job, NEW f \in File, NEW held, Call(j, f, held)
      PROVE  NamesDiffer'
  BY <1>1, <1>4 DEF Call, disk, TypeOK
<1>5. ASSUME NEW j \in Job,
             \/ FailBeforeOpen(j) \/ WriteChunk(j) \/ FailChunk(j) \/ OpenForHash(j)
             \/ ReadForHash(j) \/ CompareHash(j) \/ IOError(j)
      PROVE  NamesDiffer'
  BY <1>1, <1>5 DEF FailBeforeOpen, WriteChunk, FailChunk, OpenForHash, ReadForHash,
                    CompareHash, IOError, disk, TypeOK
<1>6. CASE Crash
  BY <1>1, <1>6 DEF Crash, disk
<1>7. CASE UNCHANGED vars
  BY <1>1, <1>7 DEF vars, job, disk
<1> QED
  BY <1>2, <1>3, <1>4, <1>5, <1>6, <1>7 DEF Next, JobStep

(***************************************************************************)
(* Before its .part is open a call has written nothing, and before it has  *)
(* written everything it has read nothing back.                            *)
(***************************************************************************)
LEMMA NothingStep ==
    ASSUME TypeOK, NothingDone, [Next]_vars
    PROVE  NothingDone'
<1> USE DEF TypeOK, NothingDone, Unopened, PC, Active, Ended
<1>1. ASSUME NEW j \in Job, NEW f \in File, NEW held, Call(j, f, held)
      PROVE  NothingDone'
  BY <1>1 DEF Call
<1>2. ASSUME NEW j \in Job, JobStep(j) \/ IOError(j)
      PROVE  NothingDone'
  BY <1>2 DEF JobStep, FailBeforeOpen, OpenPart, WriteChunk, FailChunk, OpenForHash,
              ReadForHash, CompareHash, Rename, IOError
<1>3. CASE Crash
  BY <1>3 DEF Crash
<1>4. CASE UNCHANGED vars
  BY <1>4 DEF vars, job
<1> QED
  BY <1>1, <1>2, <1>3, <1>4 DEF Next

(***************************************************************************)
(* A step of one call leaves the other calls as they are, and the files of *)
(* other names.                                                            *)
(***************************************************************************)
OnlyJob(j) ==
    \A k \in Job \ {j} :
        /\ pc'[k] = pc[k] /\ file'[k] = file[k] /\ next'[k] = next[k]
        /\ fd'[k] = fd[k] /\ hashFd'[k] = hashFd[k] /\ hashed'[k] = hashed[k]

Spares(j) ==
    \A p \in Path :
        p[1] # NameOf[file[j]] =>
            /\ entry'[p] = entry[p]
            /\ entry[p] # None => data'[entry[p]] = data[entry[p]]

(***************************************************************************)
(* A step of one call leaves the other calls and the paths of other names  *)
(* as they are, and the content behind those.                              *)
(***************************************************************************)
LEMMA StepSpares ==
    ASSUME TypeOK, PathsDiffer, NamesDiffer, NEW j \in Job, JobStep(j) \/ IOError(j)
    PROVE  /\ pc[j] \in Active /\ UNCHANGED <<file, chunks>>
           /\ OnlyJob(j) /\ Spares(j)
<1> USE DEF TypeOK, Active
<1>1. pc[j] \in Active /\ UNCHANGED <<file, chunks>> /\ OnlyJob(j)
  BY DEF JobStep, FailBeforeOpen, OpenPart, WriteChunk, FailChunk, OpenForHash,
         ReadForHash, CompareHash, Rename, IOError, OnlyJob
<1>2. ASSUME OpenPart(j) PROVE Spares(j)
  <2>1. Part(file[j])[1] = NameOf[file[j]]
    BY DEF Part
  <2>2. \A q \in Path \ {Part(file[j])} :
           /\ entry'[q] = entry[q]
           /\ entry[q] # None => data'[entry[q]] = data[entry[q]]
    BY <1>2, OpenPartFacts
  <2> QED
    BY <2>1, <2>2 DEF Spares
<1>3. ASSUME WriteChunk(j) PROVE Spares(j)
  <2>1. /\ pc[j] = "writing" /\ UNCHANGED entry
        /\ data' = [data EXCEPT ![fd[j]] = Overwrite(@, next[j], <<file[j], next[j]>>)]
    BY <1>3 DEF WriteChunk
  <2>2. InodeIsOf(fd[j], NameOf[file[j]])
    BY <2>1 DEF NamesDiffer
  <2>3. \A p \in Path : entry[p] # None /\ p[1] # NameOf[file[j]] => entry[p] # fd[j]
    BY <2>2 DEF NamesDiffer, InodeIsOf
  <2> QED
    BY <2>1, <2>3 DEF Spares
<1>4. ASSUME Rename(j) PROVE Spares(j)
  <2>1. UNCHANGED data /\ \A p \in Path \ {Part(file[j]), Out(file[j])} : entry'[p] = entry[p]
    BY <1>4 DEF Rename
  <2> QED
    BY <2>1 DEF Spares, Part, Out
<1>5. ASSUME UNCHANGED disk PROVE Spares(j)
  BY <1>5 DEF Spares, disk
<1>6. ASSUME \/ FailBeforeOpen(j) \/ FailChunk(j) \/ OpenForHash(j)
             \/ ReadForHash(j) \/ CompareHash(j) \/ IOError(j)
      PROVE  UNCHANGED disk
  BY <1>6 DEF FailBeforeOpen, FailChunk, OpenForHash, ReadForHash, CompareHash, IOError
<1> QED
  BY <1>1, <1>2, <1>3, <1>4, <1>5, <1>6 DEF JobStep

(***************************************************************************)
(* What a call of a name in Awaited writes to stays the .part: only its    *)
(* own rename, after its last write, or another pending call would move    *)
(* it.  The late open of a rejected call finds a .part and keeps it.       *)
(***************************************************************************)
LEMMA WriterStep ==
    ASSUME TypeOK, OnePending, WriterHasPart, PathsDiffer, NamesDiffer, [Next]_vars
    PROVE  WriterHasPart'
<1> USE DEF TypeOK, Active, Ended
<1> DEFINE W(k) == pc[k] = "writing" /\ Awaits(k) => fd[k] = entry[Part(file[k])]
<1>0. \A k \in Job : W(k)
  BY DEF WriterHasPart
<1>1. ASSUME NEW j \in Job, NEW f \in File, NEW held, Call(j, f, held)
      PROVE  \A k \in Job : W(k)'
  BY <1>0, <1>1 DEF Call, Awaits, Part, disk
<1>2. ASSUME NEW j \in Job, OpenPart(j), NEW k \in Job PROVE W(k)'
  <2>1. /\ file[j] \in File /\ Part(file[j]) \in Path
        /\ fd'[j] = entry'[Part(file[j])]
        /\ entry[Part(file[j])] # None => entry'[Part(file[j])] = entry[Part(file[j])]
        /\ \A q \in Path \ {Part(file[j])} : entry'[q] = entry[q]
    BY <1>2, OpenPartFacts
  <2>2. UNCHANGED file /\ \A i \in Job \ {j} : pc'[i] = pc[i] /\ fd'[i] = fd[i]
    BY <1>2 DEF OpenPart
  <2>3. CASE k = j
    BY <2>1, <2>2, <2>3
  <2>4. CASE k # j /\ pc[k] = "writing" /\ Awaits(k)
    <3>1. file[k] \in File /\ Part(file[k]) \in Path /\ fd[k] \in Inode
      BY <2>4, ActiveFile
    <3>2. fd[k] = entry[Part(file[k])] /\ entry[Part(file[k])] # None
      BY <1>0, <2>4, <3>1, Paths
    <3>3. entry'[Part(file[k])] = entry[Part(file[k])]
      BY <2>1, <3>1, <3>2
    <3> QED
      BY <2>2, <2>4, <3>2, <3>3
  <2> QED
    BY <2>2, <2>3, <2>4 DEF Awaits
<1>3. ASSUME NEW j \in Job, Rename(j), NEW k \in Job PROVE W(k)'
  <2>1. /\ pc[j] = "renaming" /\ pc'[j] \in {"failed", "resolved"}
        /\ UNCHANGED <<file, fd>> /\ \A i \in Job \ {j} : pc'[i] = pc[i]
    BY <1>3 DEF Rename
  <2>2. CASE k # j /\ pc[k] = "writing" /\ Awaits(k)
    <3>1. file[k] \in File /\ file[j] \in File /\ Part(file[k]) \in Path
      BY <2>1, <2>2, ActiveFile
    <3>2. NameOf[file[k]] # NameOf[file[j]]
      BY <2>1, <2>2 DEF OnePending
    <3>3. Part(file[k]) # Part(file[j]) /\ Part(file[k]) # Out(file[j])
      BY <3>1, <3>2, Paths
    <3>4. entry'[Part(file[k])] = entry[Part(file[k])]
      BY <1>3, <3>1, <3>3 DEF Rename
    <3> QED
      BY <1>0, <2>1, <2>2, <3>4
  <2> QED
    BY <2>1, <2>2 DEF Awaits
<1>4. ASSUME NEW j \in Job,
             \/ FailBeforeOpen(j) \/ WriteChunk(j) \/ FailChunk(j) \/ OpenForHash(j)
             \/ ReadForHash(j) \/ CompareHash(j) \/ IOError(j)
      PROVE  \A k \in Job : W(k)'
  <2>1. UNCHANGED <<file, fd, entry>>
    BY <1>4 DEF FailBeforeOpen, WriteChunk, FailChunk, OpenForHash, ReadForHash,
                CompareHash, IOError, disk
  <2>2. \A k \in Job : pc'[k] = "writing" => pc[k] = "writing"
    BY <1>4 DEF FailBeforeOpen, WriteChunk, FailChunk, OpenForHash, ReadForHash,
                CompareHash, IOError
  <2> QED
    BY <1>0, <2>1, <2>2 DEF Awaits, Part
<1>5. ASSUME Crash PROVE \A k \in Job : W(k)'
  BY <1>0, <1>5 DEF Crash, Awaits, Part, disk
<1>6. ASSUME UNCHANGED vars PROVE \A k \in Job : W(k)'
  <2>1. UNCHANGED <<pc, file, fd, entry>>
    BY <1>6 DEF vars, job, disk
  <2> QED
    BY <1>0, <2>1 DEF Awaits, Part
<1>7. \A k \in Job : W(k)'
  <2> HIDE DEF W
  <2> QED
    BY <1>1, <1>2, <1>3, <1>4, <1>5, <1>6 DEF Next, JobStep
<1> QED
  BY <1>7 DEF WriterHasPart

(***************************************************************************)
(* The .part of a call of a name in Alone stays what it is in the steps of *)
(* the other calls.                                                        *)
(***************************************************************************)
LEMMA SparesOthers ==
    ASSUME TypeOK, OneCall, PartIsWritten,
           NEW j \in Job, pc[j] \in Active, OnlyJob(j), Spares(j),
           NEW k \in Job, k # j, IsAlone(k)
    PROVE  PartOf(k)'
<1>1. PartOf(k)
  BY DEF PartIsWritten
<1>2. CASE pc[k] \notin {"writing", "hashing", "renaming"}
  BY <1>1, <1>2 DEF PartOf, OnlyJob
<1>3. CASE pc[k] \in {"writing", "hashing", "renaming"}
  <2>1. pc[k] \in Active /\ file[k] \in File /\ Part(file[k]) \in Path
    BY <1>3, ActiveFile DEF Active
  <2>2. NameOf[file[j]] # NameOf[file[k]]
    BY <2>1 DEF OneCall
  <2>3. entry[Part(file[k])] # None
    BY <1>1, <1>3, Paths DEF PartOf, TypeOK
  <2>4. /\ entry'[Part(file[k])] = entry[Part(file[k])]
        /\ data'[entry[Part(file[k])]] = data[entry[Part(file[k])]]
    BY <2>1, <2>2, <2>3 DEF Spares, Part
  <2> QED
    BY <1>1, <1>3, <2>4 DEF PartOf, OnlyJob
<1> QED
  BY <1>2, <1>3

(***************************************************************************)
(* Writing a chunk for a name in Alone appends to the .part, and disturbs  *)
(* no other path.                                                          *)
(***************************************************************************)
LEMMA WriteChunkFacts ==
    ASSUME TypeOK, PathsDiffer, PartIsWritten, NEW j \in Job, IsAlone(j), WriteChunk(j)
    PROVE  /\ pc[j] = "writing"
           /\ UNCHANGED entry
           /\ \A q \in Path \ {Part(file[j])} :
                 entry[q] # None => data'[entry[q]] = data[entry[q]]
           /\ data'[entry[Part(file[j])]] = Written(file[j], next[j])
           /\ next'[j] = next[j] + 1
<1>1. /\ pc[j] = "writing" /\ UNCHANGED entry
      /\ data' = [data EXCEPT ![fd[j]] = Overwrite(@, next[j], <<file[j], next[j]>>)]
      /\ next' = [next EXCEPT ![j] = @ + 1]
  BY DEF WriteChunk
<1>2. /\ file[j] \in File /\ Part(file[j]) \in Path
      /\ fd[j] = entry[Part(file[j])] /\ fd[j] \in Inode
      /\ data[fd[j]] = Written(file[j], next[j] - 1)
      /\ next[j] \in Nat \ {0}
  BY <1>1, ActiveFile DEF PartIsWritten, PartOf, TypeOK, Active
<1>3. Overwrite(data[fd[j]], next[j], <<file[j], next[j]>>) = Written(file[j], next[j])
  <2>1. next[j] - 1 \in Nat /\ (next[j] - 1) + 1 = next[j]
    BY <1>2
  <2> QED
    BY <1>2, <2>1, OverwriteAppends
<1>4. data'[fd[j]] = Written(file[j], next[j])
  BY <1>1, <1>2, <1>3 DEF TypeOK
<1>5. \A q \in Path \ {Part(file[j])} :
         entry[q] # None => data'[entry[q]] = data[entry[q]]
  BY <1>1, <1>2, Paths DEF PathsDiffer, TypeOK
<1>6. next'[j] = next[j] + 1
  BY <1>1 DEF TypeOK
<1> QED
  BY <1>1, <1>2, <1>4, <1>5, <1>6

(***************************************************************************)
(* Renaming for a name in Alone finds the .part it checked, and puts it at *)
(* the final name.                                                         *)
(***************************************************************************)
LEMMA RenameFacts ==
    ASSUME TypeOK, PartIsWritten, NEW j \in Job, IsAlone(j), Rename(j)
    PROVE  /\ pc[j] = "renaming" /\ pc'[j] = "resolved"
           /\ file[j] \in File
           /\ UNCHANGED data
           /\ entry[Part(file[j])] \in Inode
           /\ entry'[Out(file[j])] = entry[Part(file[j])]
           /\ HashIsFileId(file[j], data[entry[Part(file[j])]])
<1>1. pc[j] = "renaming"
  BY DEF Rename
<1>2. file[j] \in File /\ Part(file[j]) \in Path /\ Out(file[j]) \in Path
      /\ Part(file[j]) # Out(file[j])
  BY <1>1, ActiveFile, Paths DEF Active
<1>3. /\ entry[Part(file[j])] # None /\ entry[Part(file[j])] \in Inode
      /\ HashIsFileId(file[j], data[entry[Part(file[j])]])
  BY <1>1, <1>2 DEF PartIsWritten, PartOf, TypeOK
<1>4. /\ pc' = [pc EXCEPT ![j] = "resolved"] /\ UNCHANGED data
      /\ entry' = [entry EXCEPT ![Out(file[j])] = entry[Part(file[j])],
                                ![Part(file[j])] = None]
  BY <1>3 DEF Rename
<1> QED
  BY <1>1, <1>2, <1>3, <1>4 DEF TypeOK

(***************************************************************************)
(* Every step leaves the .part of a call of a name in Alone that is under  *)
(* way with exactly what the call has written.                             *)
(***************************************************************************)
LEMMA PartStep ==
    ASSUME IInv, [Next]_vars
    PROVE  PartIsWritten'
<1>0. /\ TypeOK /\ OneCall /\ PathsDiffer /\ NamesDiffer /\ NothingDone /\ PartIsWritten
      /\ \A j \in Job : IsAlone(j) => PartOf(j)
  BY DEF IInv, PartIsWritten
<1> USE <1>0 DEF TypeOK, Active, Ended
<1>a. ASSUME NEW j \in Job, JobStep(j) \/ IOError(j), IsAlone(j) => PartOf(j)'
      PROVE  PartIsWritten'
  <2>1. pc[j] \in Active /\ UNCHANGED file /\ OnlyJob(j) /\ Spares(j)
    BY <1>a, StepSpares
  <2>2. ASSUME NEW k \in Job, IsAlone(k)' PROVE PartOf(k)'
    <3>1. IsAlone(k)
      BY <2>1, <2>2 DEF IsAlone, OnlyJob
    <3>2. CASE k = j
      BY <1>a, <3>1, <3>2
    <3>3. CASE k # j
      BY <2>1, <3>1, <3>3, SparesOthers
    <3> QED
      BY <3>2, <3>3
  <2> QED
    BY <2>2 DEF PartIsWritten
<1>1. ASSUME NEW j \in Job, NEW f \in File, NEW held \in ChunksMap(f), Call(j, f, held)
      PROVE  PartIsWritten'
  <2>1. /\ pc[j] = "idle" /\ pc'[j] \in {"opening", "failed"}
        /\ UNCHANGED <<next, fd, hashFd, hashed, disk>>
        /\ \A k \in Job \ {j} : pc'[k] = pc[k] /\ file'[k] = file[k]
    BY <1>1 DEF Call
  <2>2. PartOf(j)'
    BY <2>1 DEF PartOf
  <2>3. ASSUME NEW k \in Job \ {j}, IsAlone(k)' PROVE PartOf(k)'
    BY <2>1, <2>3 DEF PartOf, IsAlone, disk
  <2> QED
    BY <2>2, <2>3 DEF PartIsWritten
<1>2. ASSUME NEW j \in Job, IsAlone(j), FailBeforeOpen(j) \/ FailChunk(j) \/ IOError(j)
      PROVE  PartOf(j)'
  <2>1. /\ pc[j] \in Active /\ pc'[j] \in {"failing", "failed", "ioError"}
        /\ pc'[j] = "failing" => pc[j] = "opening"
        /\ UNCHANGED <<file, next, fd, hashFd, hashed, disk>>
    BY <1>2 DEF FailBeforeOpen, FailChunk, IOError
  <2> QED
    BY <2>1 DEF PartOf, disk
<1>3. ASSUME NEW j \in Job, IsAlone(j), OpenPart(j) PROVE PartOf(j)'
  <2>1. /\ pc[j] \in {"opening", "failing"} /\ UNCHANGED <<file, next, hashFd, hashed>>
        /\ pc'[j] = IF pc[j] = "failing" THEN "failed" ELSE "writing"
    BY <1>3 DEF OpenPart
  <2>2. fd'[j] = entry'[Part(file[j])] /\ data'[entry'[Part(file[j])]] = <<>>
    BY <1>3, OpenPartFacts
  <2>3. file[j] \in File
    BY <2>1, ActiveFile
  <2>4. pc'[j] = "writing" => data'[entry'[Part(file[j])]] = Written(file[j], next[j] - 1)
    <3>1. Written(file[j], 0) = <<>>
      BY <2>3, WrittenFacts
    <3>2. pc'[j] = "writing" => next[j] - 1 = 0
      BY <2>1 DEF NothingDone
    <3> QED
      BY <2>2, <3>1, <3>2
  <2> QED
    BY <2>1, <2>2, <2>4 DEF PartOf
<1>4. ASSUME NEW j \in Job, IsAlone(j), WriteChunk(j) PROVE PartOf(j)'
  <2>1. UNCHANGED <<pc, file, fd, hashFd, hashed>>
    BY <1>4 DEF WriteChunk
  <2>2. /\ pc[j] = "writing" /\ UNCHANGED entry
        /\ data'[entry[Part(file[j])]] = Written(file[j], next[j])
        /\ next'[j] = next[j] + 1
    BY <1>4, WriteChunkFacts
  <2>3. next'[j] - 1 = next[j]
    BY <2>2
  <2> QED
    BY <1>0, <1>4, <2>1, <2>2, <2>3 DEF PartOf
<1>5. ASSUME NEW j \in Job, IsAlone(j), OpenForHash(j) PROVE PartOf(j)'
  <2> DEFINE f == file[j]
  <2>1. /\ pc[j] = "writing" /\ next[j] = NbChunks[f] + 1 /\ f \in File /\ NbChunks[f] \in Nat
        /\ UNCHANGED <<file, next, fd, hashed, disk>>
        /\ hashFd'[j] = entry[Part(f)] /\ pc'[j] \in {"failed", "hashing"}
    BY <1>5, ActiveFile DEF OpenForHash
  <2>2. hashed[j] = Written(f, 0) /\ data[entry[Part(f)]] = Whole(f)
    <3>1. next[j] - 1 = NbChunks[f]
      BY <2>1
    <3> QED
      BY <1>5, <2>1, <3>1, WrittenFacts DEF PartOf, NothingDone
  <2>3. 0 \in 0 .. NbChunks[f]
    BY <2>1
  <2> QED
    BY <2>1, <2>2, <2>3 DEF PartOf, disk
<1>6. ASSUME NEW j \in Job, IsAlone(j), ReadForHash(j) PROVE PartOf(j)'
  <2> DEFINE f == file[j]
  <2>1. /\ pc[j] = "hashing" /\ f \in File /\ NbChunks[f] \in Nat
        /\ UNCHANGED <<pc, file, next, fd, hashFd, disk>>
    BY <1>6, ActiveFile DEF ReadForHash
  <2>2. hashFd[j] = entry[Part(f)] /\ data[hashFd[j]] = Whole(f)
    BY <1>0, <1>6, <2>1 DEF PartOf
  <2>3. PICK n \in 0 .. NbChunks[f] : hashed[j] = Written(f, n)
    BY <1>0, <1>6, <2>1 DEF PartOf
  <2>4. Len(Whole(f)) = NbChunks[f] /\ Len(hashed[j]) = n
    <3>1. Len(Written(f, NbChunks[f])) = NbChunks[f] /\ Whole(f) = Written(f, NbChunks[f])
      BY <2>1, WrittenFacts
    <3>2. n \in Nat
      BY <2>1
    <3>3. Len(Written(f, n)) = n
      BY <2>1, <3>2, WrittenFacts
    <3> QED
      BY <2>3, <3>1, <3>3
  <2>5. n < NbChunks[f]
    BY <1>6, <2>2, <2>4 DEF ReadForHash
  <2>6. Whole(f)[n + 1] = <<f, n + 1>>
    BY <2>1, <2>5 DEF Whole, Indices
  <2>7. hashed'[j] = Append(hashed[j], data[hashFd[j]][Len(hashed[j]) + 1])
    BY <1>6 DEF ReadForHash
  <2>8. hashed'[j] = Written(f, n + 1)
    <3>1. hashed'[j] = Append(Written(f, n), <<f, n + 1>>)
      BY <2>2, <2>3, <2>4, <2>6, <2>7
    <3>2. n \in Nat
      BY <2>1
    <3> QED
      BY <2>1, <3>1, <3>2, WrittenFacts
  <2>9. n + 1 \in 0 .. NbChunks[f]
    BY <2>1, <2>5
  <2> QED
    BY <2>1, <2>2, <2>8, <2>9 DEF PartOf, disk
<1>7. ASSUME NEW j \in Job, IsAlone(j), CompareHash(j) PROVE PartOf(j)'
  <2>1. /\ pc[j] = "hashing" /\ UNCHANGED <<file, next, fd, hashFd, hashed, disk>>
        /\ pc'[j] = IF HashIsFileId(file[j], hashed[j]) THEN "renaming" ELSE "failed"
    BY <1>7 DEF CompareHash
  <2>2. /\ hashFd[j] = entry[Part(file[j])] /\ data[hashFd[j]] = Whole(file[j])
        /\ hashFd[j] # None
    BY <1>0, <1>7, <2>1, Paths DEF PartOf
  <2>3. HashIsFileId(file[j], hashed[j]) => HashIsFileId(file[j], data[entry[Part(file[j])]])
    BY <2>2 DEF HashIsFileId
  <2> QED
    BY <2>1, <2>2, <2>3 DEF PartOf, disk
<1>8. ASSUME NEW j \in Job, IsAlone(j), Rename(j) PROVE PartOf(j)'
  BY <1>8, RenameFacts DEF PartOf
<1>9. ASSUME NEW j \in Job, JobStep(j) \/ IOError(j) PROVE PartIsWritten'
  BY <1>a, <1>2, <1>3, <1>4, <1>5, <1>6, <1>7, <1>8, <1>9 DEF JobStep
<1>10. CASE Crash
  BY <1>10 DEF Crash, PartIsWritten, PartOf, IsAlone, disk
<1>11. CASE UNCHANGED vars
  BY <1>11 DEF vars, job, disk, PartIsWritten, PartOf, IsAlone
<1> QED
  BY <1>1, <1>9, <1>10, <1>11 DEF Next

(***************************************************************************)
(* Only Rename changes what has a final name.                              *)
(***************************************************************************)
LEMMA OutKept ==
    ASSUME TypeOK, PathsDiffer, NamesDiffer, WriterHasPart, [Next]_vars, NEW n \in Awaited,
           \A j \in Job : Rename(j) => NameOf[file[j]] # n
    PROVE  LET out == <<n, "out">> IN
           /\ entry'[out] = entry[out]
           /\ entry[out] # None => data'[entry[out]] = data[entry[out]]
<1> DEFINE out == <<n, "out">>
           Kept == /\ entry'[out] = entry[out]
                   /\ entry[out] # None => data'[entry[out]] = data[entry[out]]
<1>0. out \in Path /\ out[1] = n /\ \A j \in Job : out # Part(file[j])
  BY FileAssumption DEF Path, Part
<1>1. ASSUME NEW j \in Job, JobStep(j) \/ IOError(j), NameOf[file[j]] # n PROVE Kept
  <2>1. Spares(j)
    BY <1>1, StepSpares
  <2> QED
    BY <1>0, <1>1, <2>1 DEF Spares
<1>2. ASSUME NEW j \in Job, OpenPart(j) PROVE Kept
  BY <1>0, <1>2, OpenPartFacts
<1>3. ASSUME NEW j \in Job, WriteChunk(j), NameOf[file[j]] = n PROVE Kept
  <2>1. /\ pc[j] = "writing" /\ UNCHANGED entry
        /\ data' = [data EXCEPT ![fd[j]] = Overwrite(@, next[j], <<file[j], next[j]>>)]
    BY <1>3 DEF WriteChunk
  <2>2. Part(file[j]) \in Path /\ fd[j] \in Inode /\ fd[j] = entry[Part(file[j])]
    BY <1>3, <2>1, ActiveFile DEF WriterHasPart, Awaits, TypeOK, Active
  <2>3. entry[out] # None => entry[out] # fd[j]
    BY <1>0, <2>2 DEF PathsDiffer
  <2> QED
    BY <2>1, <2>3
<1>4. CASE UNCHANGED disk
  BY <1>4 DEF disk
<1>5. ASSUME NEW j \in Job, NEW f \in File, NEW held, Call(j, f, held)
      PROVE  UNCHANGED disk
  BY <1>5 DEF Call
<1>6. ASSUME NEW j \in Job,
             \/ FailBeforeOpen(j) \/ FailChunk(j) \/ OpenForHash(j)
             \/ ReadForHash(j) \/ CompareHash(j) \/ IOError(j)
      PROVE  UNCHANGED disk
  BY <1>6 DEF FailBeforeOpen, FailChunk, OpenForHash, ReadForHash, CompareHash,
              IOError, disk
<1>7. CASE Crash
  BY <1>4, <1>7 DEF Crash
<1>8. CASE UNCHANGED vars
  BY <1>4, <1>8 DEF vars
<1>9. ASSUME NEW j \in Job, JobStep(j) \/ IOError(j) PROVE Kept
  BY <1>1, <1>2, <1>3, <1>4, <1>6, <1>9 DEF JobStep
<1> QED
  BY <1>4, <1>5, <1>7, <1>8, <1>9 DEF Next

(***************************************************************************)
(* What a step leaves under a final name is whole: it was, or Rename put   *)
(* there what CompareHash had checked.                                     *)
(***************************************************************************)
LEMMA PublishedStep ==
    ASSUME TypeOK, PathsDiffer, NamesDiffer, WriterHasPart, PartIsWritten,
           PublishedIsWhole, [Next]_vars
    PROVE  PublishedIsWhole'
<1> SUFFICES ASSUME NEW n \in Alone, entry'[<<n, "out">>] # None
             PROVE  \E f \in File : /\ NameOf[f] = n
                                    /\ HashIsFileId(f, data'[entry'[<<n, "out">>]])
  BY DEF PublishedIsWhole, HashIsFileId
<1>1. CASE \A j \in Job : Rename(j) => NameOf[file[j]] # n
  BY <1>1, OutKept, FileAssumption DEF PublishedIsWhole
<1>2. ASSUME NEW j \in Job, Rename(j), NameOf[file[j]] = n
      PROVE  \E f \in File : /\ NameOf[f] = n
                             /\ HashIsFileId(f, data'[entry'[<<n, "out">>]])
  <2>1. IsAlone(j)
    BY <1>2 DEF IsAlone, Rename
  <2>2. /\ UNCHANGED data /\ file[j] \in File
        /\ entry'[Out(file[j])] = entry[Part(file[j])]
        /\ HashIsFileId(file[j], data[entry[Part(file[j])]])
    BY <1>2, <2>1, RenameFacts
  <2> QED
    BY <1>2, <2>2 DEF Out
<1> QED
  BY <1>1, <1>2

(***************************************************************************)
(* A call fails on a chunk that is absent or bad, or because the file was  *)
(* torn when its manifest was made: what it reads back is what it wrote.   *)
(***************************************************************************)
Excused(j) ==
    \/ file[j] \in Torn
    \/ \E i \in Indices(file[j]) : chunks[j][i] # "good"

(***************************************************************************)
(* A step that fails a call has one of the excuses.                        *)
(***************************************************************************)
LEMMA FailStep ==
    ASSUME TypeOK, PartIsWritten, OnlyBadChunksFail, [Next]_vars
    PROVE  OnlyBadChunksFail'
<1> USE DEF TypeOK, Active, Ended, IsAlone
<1>0. \A j \in Job : IsAlone(j) /\ pc[j] \in {"failing", "failed"} => Excused(j)
  BY DEF OnlyBadChunksFail, Excused
<1>a. ASSUME NEW j \in Job, \A k \in Job \ {j} : pc'[k] = pc[k],
             UNCHANGED <<file, chunks>>, pc[j] # "idle",
             IsAlone(j) /\ pc'[j] \in {"failing", "failed"} => pc[j] = "failing" \/ Excused(j)
      PROVE  OnlyBadChunksFail'
  BY <1>0, <1>a DEF OnlyBadChunksFail, Excused
<1>1. ASSUME NEW j \in Job, NEW f \in File, NEW held \in ChunksMap(f), Call(j, f, held)
      PROVE  OnlyBadChunksFail'
  <2>1. /\ file'[j] = f /\ chunks'[j] = held
        /\ pc'[j] = "failed" => \E i \in Indices(f) : held[i] = "absent"
        /\ pc'[j] \in {"opening", "failed"}
    BY <1>1 DEF Call
  <2>2. \A k \in Job \ {j} : pc'[k] = pc[k] /\ file'[k] = file[k] /\ chunks'[k] = chunks[k]
    BY <1>1 DEF Call
  <2>3. pc'[j] = "failed" => \E i \in Indices(file'[j]) : chunks'[j][i] # "good"
    BY <2>1
  <2> QED
    BY <2>1, <2>2, <2>3 DEF OnlyBadChunksFail
<1>2. ASSUME NEW j \in Job, FailBeforeOpen(j) PROVE OnlyBadChunksFail'
  BY <1>a, <1>2 DEF FailBeforeOpen, FirstIsBad, Excused
<1>3. ASSUME NEW j \in Job, OpenPart(j) PROVE OnlyBadChunksFail'
  BY <1>a, <1>3 DEF OpenPart
<1>4. ASSUME NEW j \in Job, FailChunk(j) PROVE OnlyBadChunksFail'
  BY <1>a, <1>4 DEF FailChunk, Excused
<1>5. ASSUME NEW j \in Job, OpenForHash(j) PROVE OnlyBadChunksFail'
  <2>1. /\ pc[j] = "writing" /\ UNCHANGED <<file, chunks>>
        /\ pc'[j] = "failed" => entry[Part(file[j])] = None
        /\ pc'[j] \in {"failed", "hashing"}
        /\ \A k \in Job \ {j} : pc'[k] = pc[k]
    BY <1>5 DEF OpenForHash
  <2>2. IsAlone(j) => entry[Part(file[j])] # None
    BY <2>1, Paths DEF PartIsWritten, PartOf
  <2> QED
    BY <1>a, <2>1, <2>2
<1>6. ASSUME NEW j \in Job, CompareHash(j), IsAlone(j), pc'[j] = "failed"
      PROVE  Excused(j)
  <2> DEFINE f == file[j]
  <2>1. /\ pc[j] = "hashing" /\ Len(hashed[j]) >= Len(data[hashFd[j]])
        /\ ~HashIsFileId(f, hashed[j])
    BY <1>6 DEF CompareHash
  <2>2. f \in File /\ NbChunks[f] \in Nat
    BY <2>1, ActiveFile
  <2>3. /\ data[hashFd[j]] = Whole(f)
        /\ \E n \in 0 .. NbChunks[f] : hashed[j] = Written(f, n)
    BY <1>6, <2>1 DEF PartIsWritten, PartOf
  <2>4. PICK n \in 0 .. NbChunks[f] : hashed[j] = Written(f, n)
    BY <2>3
  <2>5. Len(hashed[j]) = n /\ Len(Whole(f)) = NbChunks[f]
    <3>1. n \in Nat
      BY <2>2
    <3> QED
      BY <2>2, <2>4, <3>1, WrittenFacts
  <2>6. n = NbChunks[f]
    BY <2>1, <2>2, <2>3, <2>5
  <2>7. hashed[j] = Whole(f)
    BY <2>2, <2>4, <2>6, WrittenFacts
  <2> QED
    BY <2>1, <2>7 DEF HashIsFileId, Excused
<1>7. ASSUME NEW j \in Job, CompareHash(j) PROVE OnlyBadChunksFail'
  BY <1>a, <1>6, <1>7 DEF CompareHash
<1>8. ASSUME NEW j \in Job, Rename(j) PROVE OnlyBadChunksFail'
  <2>1. IsAlone(j) => pc'[j] = "resolved"
    BY <1>8, RenameFacts
  <2>2. /\ UNCHANGED <<file, chunks>> /\ pc[j] = "renaming"
        /\ \A k \in Job \ {j} : pc'[k] = pc[k]
    BY <1>8 DEF Rename
  <2> QED
    BY <1>a, <2>1, <2>2
<1>9. ASSUME NEW j \in Job, WriteChunk(j) \/ ReadForHash(j) \/ IOError(j)
      PROVE  OnlyBadChunksFail'
  BY <1>a, <1>9 DEF WriteChunk, ReadForHash, IOError
<1>10. CASE Crash
  BY <1>0, <1>10 DEF Crash, OnlyBadChunksFail, Excused
<1>11. CASE UNCHANGED vars
  BY <1>11 DEF vars, job, OnlyBadChunksFail
<1> QED
  BY <1>1, <1>2, <1>3, <1>4, <1>5, <1>6, <1>7, <1>8, <1>9, <1>10, <1>11 DEF Next, JobStep

(***************************************************************************)
(* A chunk is written only when it is good, and what is hashed and renamed *)
(* only when all were.                                                     *)
(***************************************************************************)
LEMMA GoodStep ==
    ASSUME TypeOK, NothingDone, OnlyGoodIsWritten, [Next]_vars
    PROVE  OnlyGoodIsWritten'
<1> USE DEF TypeOK, PC, Active, Ended
<1> DEFINE G(j) == /\ pc[j] = "writing" => \A i \in 1 .. next[j] - 1 : chunks[j][i] = "good"
                   /\ pc[j] \in {"hashing", "renaming"} => AllGood(j)
<1>0. \A j \in Job : G(j)
  BY DEF OnlyGoodIsWritten
<1>1. ASSUME NEW j \in Job, NEW f \in File, NEW held, Call(j, f, held)
      PROVE  OnlyGoodIsWritten'
  BY <1>1 DEF Call, OnlyGoodIsWritten, AllGood
<1>2. ASSUME NEW j \in Job, JobStep(j) \/ IOError(j)
      PROVE  OnlyGoodIsWritten'
  <2>1. /\ UNCHANGED <<file, chunks>> /\ pc[j] \in Active
        /\ \A k \in Job \ {j} : pc'[k] = pc[k] /\ next'[k] = next[k]
    BY <1>2 DEF JobStep, FailBeforeOpen, OpenPart, WriteChunk, FailChunk, OpenForHash,
                ReadForHash, CompareHash, Rename, IOError
  <2>2. \A k \in Job \ {j} : G(k)'
    BY <1>0, <2>1 DEF AllGood
  <2>3. ASSUME OpenPart(j) PROVE G(j)'
    BY <2>3, <2>1 DEF OpenPart, NothingDone
  <2>4. ASSUME WriteChunk(j) PROVE G(j)'
    <3>1. /\ pc[j] = "writing" /\ pc'[j] = "writing" /\ next[j] \in Nat \ {0}
          /\ chunks[j][next[j]] = "good" /\ next'[j] = next[j] + 1
      BY <2>4 DEF WriteChunk
    <3>2. \A i \in 1 .. next'[j] - 1 : i \in 1 .. next[j] - 1 \/ i = next[j]
      BY <3>1
    <3> QED
      BY <1>0, <2>1, <3>1, <3>2
  <2>5. ASSUME OpenForHash(j) PROVE G(j)'
    <3>1. /\ pc[j] = "writing" /\ pc'[j] \in {"failed", "hashing"}
          /\ next[j] = NbChunks[file[j]] + 1 /\ NbChunks[file[j]] \in Nat
      BY <2>5, ActiveFile DEF OpenForHash
    <3>2. AllGood(j)'
      BY <1>0, <2>1, <3>1 DEF AllGood, Indices
    <3> QED
      BY <3>1, <3>2
  <2>6. ASSUME \/ FailBeforeOpen(j) \/ FailChunk(j) \/ ReadForHash(j) \/ CompareHash(j)
               \/ Rename(j) \/ IOError(j)
        PROVE  G(j)'
    <3>1. /\ pc'[j] \in {"failing", "hashing", "renaming", "failed", "resolved", "ioError"}
          /\ pc'[j] \in {"hashing", "renaming"} => pc[j] = "hashing"
      BY <2>6 DEF FailBeforeOpen, FailChunk, ReadForHash, CompareHash, Rename, IOError
    <3> QED
      BY <1>0, <2>1, <3>1 DEF AllGood
  <2>7. G(j)'
    BY <1>2, <2>3, <2>4, <2>5, <2>6 DEF JobStep
  <2> QED
    BY <2>2, <2>7 DEF OnlyGoodIsWritten
<1>3. CASE Crash
  BY <1>0, <1>3 DEF Crash, OnlyGoodIsWritten, AllGood
<1>4. CASE UNCHANGED vars
  BY <1>0, <1>4 DEF vars, job, OnlyGoodIsWritten, AllGood
<1> QED
  BY <1>1, <1>2, <1>3, <1>4 DEF Next

(***************************************************************************)
(* The invariant holds before the first call.                              *)
(***************************************************************************)
LEMMA InitIInv == Init => IInv
<1> SUFFICES ASSUME Init PROVE IInv
  OBVIOUS
<1> USE DEF Init
<1>1. <<>> \in Content
  BY SeqDef DEF Content
<1>2. TypeOK
  BY <1>1 DEF TypeOK, PC, AnyChunksMap
<1>3. /\ OneCall /\ OnePending /\ WriterHasPart
      /\ PathsDiffer /\ NamesDiffer /\ NothingDone
  BY Paths DEF OneCall, OnePending, WriterHasPart, PathsDiffer, NamesDiffer, NothingDone,
               Unopened, Active, Inode
<1>4. PartIsWritten /\ OnlyBadChunksFail /\ OnlyGoodIsWritten
  BY DEF PartIsWritten, IsAlone, OnlyBadChunksFail, OnlyGoodIsWritten
<1>5. PublishedIsWhole
  BY FileAssumption DEF PublishedIsWhole, Path
<1> QED
  BY <1>2, <1>3, <1>4, <1>5 DEF IInv

(***************************************************************************)
(* Every step keeps the invariant.                                         *)
(***************************************************************************)
LEMMA IInvStep == IInv /\ [Next]_vars => IInv'
<1> SUFFICES ASSUME IInv, [Next]_vars PROVE IInv'
  OBVIOUS
<1>1. /\ TypeOK /\ OneCall /\ OnePending /\ WriterHasPart
      /\ PathsDiffer /\ NamesDiffer /\ NothingDone
      /\ OnlyGoodIsWritten /\ PartIsWritten /\ PublishedIsWhole /\ OnlyBadChunksFail
  BY DEF IInv
<1> QED
  BY <1>1, TypeStep, OneCallStep, OnePendingStep, WriterStep, PathsStep, NamesStep,
     NothingStep, GoodStep, PartStep, PublishedStep, FailStep DEF IInv

(***************************************************************************)
(* An inode serves one name for ever; the one pending call of a name in    *)
(* Awaited writes to its .part, and a call of a name in Alone has the      *)
(* .part for itself, with exactly the chunks it has written, whatever      *)
(* overlaps for other names, and whatever crashes and errors of the file   *)
(* system left behind.                                                     *)
(***************************************************************************)
THEOREM Inductive == Spec => []IInv
BY InitIInv, IInvStep, PTL DEF Spec

(***************************************************************************)
(* A file that has its final name, one in Alone, is complete and has the   *)
(* hash of a manifest of that name, at every moment, whatever overlaps for *)
(* other names.                                                            *)
(***************************************************************************)
THEOREM PublishedWhole == Spec => []PublishedIsWhole
<1>1. IInv => PublishedIsWhole
  BY DEF IInv
<1> QED
  BY <1>1, Inductive, PTL

(***************************************************************************)
(* For a name in Alone reassembleFile() complains only of a chunk that is  *)
(* absent or bad, or of a manifest whose fileId is not the hash of its     *)
(* chunks.                                                                 *)
(***************************************************************************)
THEOREM OnlyBad == Spec => []OnlyBadChunksFail
<1>1. IInv => OnlyBadChunksFail
  BY DEF IInv
<1> QED
  BY <1>1, Inductive, PTL

(***************************************************************************)
(* A call resolves by its rename and in no other way.                      *)
(***************************************************************************)
LEMMA OnlyRenameResolves ==
    ASSUME IInv, [Next]_vars, NEW j \in Job, pc[j] # "resolved", pc'[j] = "resolved"
    PROVE  Rename(j)
BY DEF IInv, Next, JobStep, vars, job, Call, FailBeforeOpen, OpenPart, WriteChunk, FailChunk,
       OpenForHash, ReadForHash, CompareHash, Rename, IOError, Crash, TypeOK

(***************************************************************************)
(* For a name in Alone what reassembleFile() renames is what it checked:   *)
(* when it resolves, the file of its manifest is at the path.              *)
(***************************************************************************)
THEOREM Resolved == Spec => AloneResolvedIsItsFile
<1> DEFINE A == \A j \in Job : IsAlone(j) => IsItsFile(j)
<1>1. ASSUME IInv, [Next]_vars PROVE A
  BY <1>1, OnlyRenameResolves, RenameFacts DEF IsItsFile, IInv
<1>2. IInv /\ [Next]_vars => [A]_vars
  BY <1>1
<1> QED
  BY <1>2, Inductive, PTL DEF Spec, AloneResolvedIsItsFile

(***************************************************************************)
(* When for every name the calls do not overlap, and none begins while the *)
(* open of a rejected one is under way, every call that resolves has the   *)
(* file of its manifest at its path.                                       *)
(***************************************************************************)
THEOREM ResolvedWhenAlone == ASSUME Alone = Name PROVE Spec => ResolvedIsItsFile
<1> DEFINE A == \A j \in Job : IsItsFile(j)
<1>1. ASSUME IInv, [Next]_vars PROVE A
  <2>1. ASSUME NEW j \in Job, Rename(j) PROVE IsAlone(j)
    <3>1. pc[j] = "renaming" /\ file[j] \in File
      BY <1>1, <2>1, ActiveFile DEF Rename, IInv, Active
    <3> QED
      BY <3>1, Alone = Name DEF IsAlone, Name
  <2> QED
    BY <1>1, <2>1, OnlyRenameResolves, RenameFacts DEF IsItsFile, IInv
<1>2. IInv /\ [Next]_vars => [A]_vars
  BY <1>1
<1> QED
  BY <1>2, Inductive, PTL DEF Spec, ResolvedIsItsFile

(***************************************************************************)
(* What a caller has to do for that.  Awaiting is the system whose callers *)
(* only await each call for a name before the next one.  FirstIsGood says  *)
(* that the first chunk of what they hold has the manifest's hash.         *)
(***************************************************************************)
Awaiting == INSTANCE Reassembly WITH Alone <- {}

FirstIsGood == \A j \in Job : pc[j] = "opening" => ~FirstIsBad(j)

NoLateOpen == \A j \in Job : pc[j] # "failing"

(***************************************************************************)
(* The two systems differ in nothing but when a call may begin.            *)
(***************************************************************************)
LEMMA AwaitingSame ==
    /\ Awaiting!Init <=> Init
    /\ Awaiting!vars = vars
    /\ \A j \in Job : Awaiting!JobStep(j) <=> JobStep(j)
    /\ \A j \in Job : Awaiting!IOError(j) <=> IOError(j)
    /\ Awaiting!Crash <=> Crash
    /\ Awaiting!Job = Job
    /\ \A f \in File : Awaiting!ChunksMap(f) = ChunksMap(f)
<1>1. /\ Awaiting!vars = vars
      /\ Awaiting!Job = Job
      /\ \A f \in File : Awaiting!ChunksMap(f) = ChunksMap(f)
  BY DEF Awaiting!vars, Awaiting!job, Awaiting!disk, vars, job, disk, Awaiting!Job, Job,
         Awaiting!ChunksMap, ChunksMap, Awaiting!Indices, Indices, Awaiting!Stored, Stored
<1>2. Awaiting!Init <=> Init
  BY DEF Awaiting!Init, Init, Awaiting!Job, Job, Awaiting!Inode, Inode, Awaiting!Path, Path,
         Awaiting!Name, Name
<1>3. ASSUME NEW j \in Job PROVE Awaiting!IOError(j) <=> IOError(j)
  BY DEF Awaiting!IOError, IOError, Awaiting!Active, Active, Awaiting!disk, disk
<1>4. Awaiting!Crash <=> Crash
  BY DEF Awaiting!Crash, Crash, Awaiting!Active, Active, Awaiting!disk, disk, Awaiting!Job, Job
<1>5. ASSUME NEW j \in Job PROVE Awaiting!JobStep(j) <=> JobStep(j)
  <2> USE DEF Awaiting!disk, disk, Awaiting!Part, Part, Awaiting!Indices, Indices
  <2>1. Awaiting!FailBeforeOpen(j) <=> FailBeforeOpen(j)
    BY DEF Awaiting!FailBeforeOpen, FailBeforeOpen, Awaiting!FirstIsBad, FirstIsBad
  <2>2. Awaiting!OpenPart(j) <=> OpenPart(j)
    BY DEF Awaiting!OpenPart, OpenPart, Awaiting!FirstIsBad, FirstIsBad
  <2>3. Awaiting!WriteChunk(j) <=> WriteChunk(j)
    BY DEF Awaiting!WriteChunk, WriteChunk, Awaiting!Overwrite, Overwrite, Awaiting!Hole, Hole
  <2>4. Awaiting!FailChunk(j) <=> FailChunk(j)
    BY DEF Awaiting!FailChunk, FailChunk
  <2>5. Awaiting!OpenForHash(j) <=> OpenForHash(j)
    BY DEF Awaiting!OpenForHash, OpenForHash
  <2>6. Awaiting!ReadForHash(j) <=> ReadForHash(j)
    BY DEF Awaiting!ReadForHash, ReadForHash
  <2>7. Awaiting!CompareHash(j) <=> CompareHash(j)
    BY DEF Awaiting!CompareHash, CompareHash, Awaiting!HashIsFileId, HashIsFileId,
           Awaiting!Whole, Whole
  <2>8. Awaiting!Rename(j) <=> Rename(j)
    BY DEF Awaiting!Rename, Rename, Awaiting!Out, Out
  <2> QED
    BY <2>1, <2>2, <2>3, <2>4, <2>5, <2>6, <2>7, <2>8 DEF Awaiting!JobStep, JobStep
<1> QED
  BY <1>1, <1>2, <1>3, <1>4, <1>5

(***************************************************************************)
(* While no open is late, a call that may begin because none is pending    *)
(* may begin for a name in Alone too.                                      *)
(***************************************************************************)
LEMMA AwaitingStep ==
    ASSUME NoLateOpen, [Awaiting!Next]_(Awaiting!vars)
    PROVE  [Next]_vars
<1>1. \A f \in File : ~Pending(f) => ~InUse(f)
  BY DEF NoLateOpen, Pending, InUse
<1>2. ASSUME NEW j \in Job, NEW f \in File, NEW held \in ChunksMap(f),
             Awaiting!Call(j, f, held)
      PROVE  Call(j, f, held)
  <2>1. NameOf[f] \in Awaited => ~Pending(f)
    BY <1>2 DEF Awaiting!Call, Awaiting!Pending, Pending, Awaiting!Job, Job,
                Awaiting!Active, Active
  <2>2. NameOf[f] \in Alone => ~InUse(f)
    BY <1>1, <2>1, FileAssumption
  <2> QED
    BY <1>2, <2>1, <2>2 DEF Awaiting!Call, Call, Awaiting!Job, Job, Awaiting!Indices, Indices,
                            Awaiting!disk, disk
<1>3. CASE Awaiting!Next
  BY <1>2, <1>3, AwaitingSame DEF Awaiting!Next, Next
<1>4. CASE UNCHANGED Awaiting!vars
  BY <1>4 DEF Awaiting!vars, Awaiting!job, Awaiting!disk, vars, job, disk
<1> QED
  BY <1>3, <1>4

(***************************************************************************)
(* When the first chunks are good no open is ever late.                    *)
(***************************************************************************)
LEMMA NoLateStep ==
    ASSUME TypeOK, NoLateOpen, FirstIsGood, [Next]_vars
    PROVE  NoLateOpen'
<1> USE DEF TypeOK, NoLateOpen, FirstIsGood
<1>1. ASSUME NEW j \in Job, NEW f \in File, NEW held, Call(j, f, held)
      PROVE  NoLateOpen'
  BY <1>1 DEF Call
<1>2. ASSUME NEW j \in Job, JobStep(j) \/ IOError(j)
      PROVE  NoLateOpen'
  BY <1>2 DEF JobStep, FailBeforeOpen, OpenPart, WriteChunk, FailChunk, OpenForHash,
              ReadForHash, CompareHash, Rename, IOError
<1>3. CASE Crash
  BY <1>3 DEF Crash
<1>4. CASE UNCHANGED vars
  BY <1>4 DEF vars, job
<1> QED
  BY <1>1, <1>2, <1>3, <1>4 DEF Next

(***************************************************************************)
(* Callers that await each call, and give each a first chunk that has the  *)
(* manifest's hash, as download() does for every chunk it has fetched, get *)
(* from every call that resolves the file of its manifest at its path.     *)
(***************************************************************************)
THEOREM ResolvedWhenAwaited ==
    ASSUME Awaited = Name, Alone = Name
    PROVE  Awaiting!Spec /\ []FirstIsGood => ResolvedIsItsFile
<1>1. Init => NoLateOpen
  BY DEF Init, NoLateOpen
<1>2. IInv /\ NoLateOpen /\ FirstIsGood /\ [Awaiting!Next]_(Awaiting!vars)
         => [Next]_vars /\ NoLateOpen' /\ IInv'
  BY AwaitingStep, NoLateStep, IInvStep DEF IInv
<1>3. Awaiting!Init => Init
  BY AwaitingSame
<1>4. Awaiting!Spec /\ []FirstIsGood => Spec
  BY <1>1, <1>2, <1>3, InitIInv, PTL DEF Awaiting!Spec, Spec
<1> QED
  BY <1>4, ResolvedWhenAlone, PTL

(***************************************************************************)
(* A published file of a name whose callers await each call is replaced as *)
(* a whole or not at all, and nobody who opened it sees it change, even if *)
(* the open of a call that was rejected comes late.                        *)
(***************************************************************************)
THEOREM PublishedStable == Spec => PublishedIsStable
<1> DEFINE A == \A n \in Awaited :
                   LET out == <<n, "out">> IN
                   entry[out] # None => /\ entry'[out] # None
                                        /\ data'[entry[out]] = data[entry[out]]
<1>1. ASSUME IInv, [Next]_vars PROVE A
  <2>1. TypeOK /\ PathsDiffer /\ NamesDiffer /\ WriterHasPart
    BY <1>1 DEF IInv
  <2>2. ASSUME NEW n \in Awaited, entry[<<n, "out">>] # None,
               NEW j \in Job, Rename(j), NameOf[file[j]] = n
        PROVE  entry'[<<n, "out">>] # None /\ UNCHANGED data
    <3> DEFINE p == Part(file[j])
               o == Out(file[j])
    <3>1. p \in Path /\ o \in Path /\ p # o /\ o = <<n, "out">>
      BY <2>1, <2>2, ActiveFile, Paths DEF Rename, Active, Out
    <3>2. /\ UNCHANGED data
          /\ IF entry[p] = None THEN UNCHANGED entry
             ELSE entry' = [entry EXCEPT ![o] = entry[p], ![p] = None]
      BY <2>2 DEF Rename
    <3> HIDE DEF p, o
    <3>3. entry[p] # None => entry'[o] = entry[p]
      BY <2>1, <3>1, <3>2 DEF TypeOK
    <3> QED
      BY <2>2, <3>1, <3>2, <3>3
  <2>3. ASSUME NEW n \in Awaited, \A j \in Job : Rename(j) => NameOf[file[j]] # n
        PROVE  LET out == <<n, "out">> IN
               /\ entry'[out] = entry[out]
               /\ entry[out] # None => data'[entry[out]] = data[entry[out]]
    BY <1>1, <2>1, <2>3, OutKept
  <2> QED
    BY <2>2, <2>3
<1>2. IInv /\ [Next]_vars => [A]_vars
  BY <1>1
<1> QED
  BY <1>2, Inductive, PTL DEF Spec, PublishedIsStable

(***************************************************************************)
(* Before the first call nothing is published and nobody has called.       *)
(***************************************************************************)
LEMMA InitPublication == Init => Abstract!Init
<1> SUFFICES ASSUME Init PROVE Abstract!Init
  OBVIOUS
<1>1. \A j \in Job : ~IsAlone(j)
  BY DEF Init, IsAlone
<1>2. {NameOf[f] : f \in {g \in File : NameOf[g] \in Alone}} = Alone
  BY FileAssumption DEF Name
<1>3. \A n \in Alone : PublishedAs(n) = None
  BY FileAssumption DEF Init, PublishedAs, Path
<1>4. Publications = [n \in {NameOf[f] : f \in {g \in File : NameOf[g] \in Alone}} |-> None]
  BY <1>2, <1>3 DEF Publications
<1>5. Stage = [j \in Job |-> "idle"] /\ FileOf = [j \in Job |-> None] /\ Held = {}
  BY <1>1 DEF Stage, StageOf, FileOf, Held
<1> QED
  BY <1>4, <1>5 DEF Abstract!Init

(***************************************************************************)
(* A step that renames nothing to a name in Alone publishes nothing.       *)
(***************************************************************************)
LEMMA NothingPublished ==
    ASSUME IInv, [Next]_vars, \A j \in Job : Rename(j) => NameOf[file[j]] \notin Alone
    PROVE  Publications' = Publications
<1>1. ASSUME NEW n \in Alone PROVE PublishedAs(n)' = PublishedAs(n)
  <2> DEFINE out == <<n, "out">>
  <2>1. /\ entry'[out] = entry[out]
        /\ entry[out] # None => data'[entry[out]] = data[entry[out]]
    BY OutKept, FileAssumption DEF IInv
  <2> QED
    BY <2>1 DEF PublishedAs
<1> QED
  BY <1>1 DEF Publications

(***************************************************************************)
(* A step of a call leaves the manifests and the chunks of all calls, and  *)
(* how far the others are.                                                 *)
(***************************************************************************)
LEMMA OthersAsBefore ==
    ASSUME IInv, NEW j \in Job, JobStep(j) \/ IOError(j)
    PROVE  /\ FileOf' = FileOf /\ Held' = Held
           /\ Stage' = [Stage EXCEPT ![j] = StageOf(j)']
           /\ pc[j] \in Active /\ (IsAlone(j)' <=> IsAlone(j))
           /\ IsAlone(j) => Stage[j] = "running" /\ FileOf[j] = file[j]
           /\ j \in Held <=> IsAlone(j) /\ AllGood(j)
<1>1. pc[j] \in Active /\ UNCHANGED <<file, chunks>> /\ OnlyJob(j) /\ pc'[j] # "idle"
  <2>1. pc'[j] # "idle"
    BY DEF IInv, TypeOK, JobStep, FailBeforeOpen, OpenPart, WriteChunk, FailChunk,
           OpenForHash, ReadForHash, CompareHash, Rename, IOError
  <2> QED
    BY <2>1, StepSpares DEF IInv
<1>2. \A k \in Job : IsAlone(k)' <=> IsAlone(k)
  BY <1>1 DEF IsAlone, OnlyJob, Active
<1>3. FileOf' = FileOf /\ Held' = Held
  BY <1>1, <1>2 DEF FileOf, Held, AllGood
<1>4. \A k \in Job \ {j} : StageOf(k)' = StageOf(k)
  BY <1>1, <1>2 DEF StageOf, OnlyJob
<1>5. Stage' = [Stage EXCEPT ![j] = StageOf(j)']
  BY <1>4 DEF Stage
<1> QED
  BY <1>1, <1>2, <1>3, <1>5 DEF Stage, StageOf, FileOf, Held

(***************************************************************************)
(* A call for a name in Alone begins, or is refused at once; one for       *)
(* another name is not seen.                                               *)
(***************************************************************************)
LEMMA CallPublication ==
    ASSUME IInv, NEW j \in Job, NEW f \in File, NEW held \in ChunksMap(f), Call(j, f, held),
           Publications' = Publications
    PROVE  Abstract!Next \/ UNCHANGED Abstract!vars
<1> DEFINE good == AllGood(j)'
<1>1. /\ pc[j] = "idle" /\ file' = [file EXCEPT ![j] = f] /\ chunks' = [chunks EXCEPT ![j] = held]
      /\ pc' = [pc EXCEPT ![j] = pc'[j]] /\ pc'[j] \in {"failed", "opening"}
      /\ pc'[j] = "failed" => \E i \in Indices(f) : held[i] = "absent"
  BY DEF Call, IInv, TypeOK
<1>2. /\ file'[j] = f /\ chunks'[j] = held /\ ~IsAlone(j)
      /\ \A k \in Job \ {j} : file'[k] = file[k] /\ chunks'[k] = chunks[k] /\ pc'[k] = pc[k]
  BY <1>1 DEF IInv, TypeOK, IsAlone
<1>3. \A k \in Job \ {j} :
         /\ IsAlone(k)' <=> IsAlone(k)
         /\ AllGood(k)' <=> AllGood(k)
         /\ StageOf(k)' = StageOf(k)
  BY <1>2 DEF IsAlone, AllGood, StageOf
<1>4. Stage[j] = "idle" /\ j \notin Held
  BY <1>2 DEF Stage, StageOf, Held
<1>5. CASE NameOf[f] \notin Alone
  <2>1. ~IsAlone(j)'
    BY <1>2, <1>5 DEF IsAlone
  <2>2. Stage' = Stage /\ FileOf' = FileOf /\ Held' = Held
    BY <1>2, <1>3, <2>1 DEF Stage, StageOf, FileOf, Held
  <2> QED
    BY <2>2 DEF Abstract!vars
<1>6. CASE NameOf[f] \in Alone
  <2>1. IsAlone(j)'
    BY <1>1, <1>2, <1>6 DEF IsAlone
  <2>2. FileOf' = [FileOf EXCEPT ![j] = f]
    BY <1>2, <1>3, <2>1 DEF FileOf
  <2>3. Held' = IF good THEN Held \cup {j} ELSE Held
    BY <1>3, <1>4, <2>1 DEF Held
  <2>4. Stage' = [Stage EXCEPT ![j] = StageOf(j)']
    BY <1>3 DEF Stage
  <2>5. CASE pc'[j] = "opening"
    <3>1. StageOf(j)' = "running"
      BY <2>1, <2>5 DEF StageOf, Active
    <3>2. good \in BOOLEAN
      BY DEF AllGood
    <3>3. Abstract!Begin(j, f, good)
      BY <1>4, <2>2, <2>3, <2>4, <3>1 DEF Abstract!Begin
    <3> QED
      BY <1>6, <3>2, <3>3 DEF Abstract!Next
  <2>6. CASE pc'[j] = "failed"
    <3>1. StageOf(j)' = "failed"
      BY <2>1, <2>6 DEF StageOf, Active
    <3>2. ~good
      BY <1>1, <1>2, <2>6 DEF AllGood
    <3>3. Abstract!Refuse(j, f)
      BY <1>4, <2>2, <2>3, <2>4, <3>1, <3>2 DEF Abstract!Refuse
    <3> QED
      BY <1>6, <3>3 DEF Abstract!Next
  <2> QED
    BY <1>1, <2>5, <2>6
<1> QED
  BY <1>5, <1>6

(***************************************************************************)
(* The rename of a call for a name in Alone publishes the file of its      *)
(* manifest; the call had every chunk, and its manifest is sound.          *)
(***************************************************************************)
LEMMA RenamePublication ==
    ASSUME IInv, [Next]_vars, NEW j \in Job, Rename(j), IsAlone(j)
    PROVE  Abstract!Publish(j)
<1> PICK f : f = file[j]
  OBVIOUS
<1>1. /\ pc[j] = "renaming" /\ pc'[j] = "resolved" /\ f \in File /\ NameOf[f] \in Alone
      /\ UNCHANGED data /\ entry[Part(f)] \in Inode
      /\ entry'[Out(f)] = entry[Part(f)]
      /\ data[entry[Part(f)]] = Whole(f) /\ f \notin Torn
  BY RenameFacts DEF IInv, HashIsFileId, IsAlone
<1>2. /\ FileOf' = FileOf /\ Held' = Held /\ Stage' = [Stage EXCEPT ![j] = StageOf(j)']
      /\ IsAlone(j)' /\ Stage[j] = "running" /\ FileOf[j] = f
      /\ j \in Held <=> AllGood(j)
  BY OthersAsBefore DEF JobStep
<1>3. StageOf(j)' = "resolved"
  BY <1>1, <1>2 DEF StageOf, Active
<1>4. j \in Held
  BY <1>1, <1>2 DEF IInv, OnlyGoodIsWritten
<1>5. PublishedAs(NameOf[f])' = Whole(f)
  BY <1>1, Paths DEF PublishedAs, Out
<1>6. ASSUME NEW n \in Alone, n # NameOf[f] PROVE PublishedAs(n)' = PublishedAs(n)
  <2>1. Spares(j) /\ <<n, "out">> \in Path
    BY StepSpares, FileAssumption DEF JobStep, IInv, Path
  <2> QED
    BY <1>6, <2>1 DEF Spares, PublishedAs
<1>7. Publications' = [Publications EXCEPT ![NameOf[f]] = Whole(f)]
  BY <1>1, <1>5, <1>6 DEF Publications
<1> QED
  BY <1>1, <1>2, <1>3, <1>4, <1>7 DEF Abstract!Publish, Abstract!InOrder

(***************************************************************************)
(* Any other step of a call goes on unseen, or ends the call for a reason. *)
(***************************************************************************)
LEMMA OtherPublication ==
    ASSUME IInv, [Next]_vars, NEW j \in Job, JobStep(j) \/ IOError(j),
           ~(Rename(j) /\ IsAlone(j)), Publications' = Publications
    PROVE  Abstract!Next \/ UNCHANGED Abstract!vars
<1>1. /\ FileOf' = FileOf /\ Held' = Held /\ Stage' = [Stage EXCEPT ![j] = StageOf(j)']
      /\ pc[j] \in Active /\ (IsAlone(j)' <=> IsAlone(j))
      /\ IsAlone(j) => Stage[j] = "running" /\ FileOf[j] = file[j]
      /\ j \in Held <=> IsAlone(j) /\ AllGood(j)
  BY OthersAsBefore
<1>2. IsAlone(j) => pc'[j] \in Active \cup {"failed", "ioError"}
  BY DEF IInv, TypeOK, JobStep, FailBeforeOpen, OpenPart, WriteChunk, FailChunk,
         OpenForHash, ReadForHash, CompareHash, IOError, Active
<1>3. CASE ~IsAlone(j) \/ pc'[j] \in Active
  <2>1. StageOf(j)' = Stage[j]
    BY <1>1, <1>3 DEF StageOf, Stage
  <2>2. Stage' = Stage
    BY <1>1, <2>1 DEF Stage
  <2> QED
    BY <1>1, <2>2 DEF Abstract!vars
<1>4. CASE IsAlone(j) /\ pc'[j] = "failed"
  <2>1. StageOf(j)' = "failed"
    BY <1>1, <1>4 DEF StageOf, Active
  <2>2. file'[j] \in Torn \/ \E i \in Indices(file'[j]) : chunks'[j][i] # "good"
    BY <1>1, <1>4, FailStep DEF IInv, OnlyBadChunksFail
  <2>3. UNCHANGED <<file, chunks>>
    BY StepSpares DEF IInv
  <2>4. file[j] \in Torn \/ ~AllGood(j)
    BY <2>2, <2>3 DEF AllGood
  <2>5. Abstract!Fail(j)
    BY <1>1, <1>4, <2>1, <2>4 DEF Abstract!Fail, Abstract!InOrder
  <2> QED
    BY <2>5 DEF Abstract!Next
<1>5. CASE IsAlone(j) /\ pc'[j] = "ioError"
  <2>1. StageOf(j)' = "ioError"
    BY <1>1, <1>5 DEF StageOf, Active
  <2>2. Abstract!Break(j)
    BY <1>1, <1>5, <2>1 DEF Abstract!Break
  <2> QED
    BY <2>2 DEF Abstract!Next
<1> QED
  BY <1>2, <1>3, <1>4, <1>5

(***************************************************************************)
(* Every step is one of the abstract publication, or stutters.             *)
(***************************************************************************)
LEMMA PublicationStep == IInv /\ [Next]_vars => [Abstract!Next]_(Abstract!vars)
<1> SUFFICES ASSUME IInv, [Next]_vars PROVE Abstract!Next \/ UNCHANGED Abstract!vars
  OBVIOUS
<1>1. \A k \in Job : Rename(k) => pc[k] = "renaming" /\ pc'[k] \in {"resolved", "failed"}
  BY DEF Rename, IInv, TypeOK
<1>2. ASSUME NEW j \in Job, NEW f \in File, NEW held \in ChunksMap(f), Call(j, f, held)
      PROVE  Abstract!Next \/ UNCHANGED Abstract!vars
  <2>1. \A k \in Job : pc[k] = "renaming" => pc'[k] = "renaming"
    BY <1>2 DEF Call, IInv, TypeOK
  <2>2. Publications' = Publications
    BY <1>1, <2>1, NothingPublished
  <2> QED
    BY <1>2, <2>2, CallPublication
<1>3. ASSUME NEW j \in Job, JobStep(j) \/ IOError(j)
      PROVE  Abstract!Next \/ UNCHANGED Abstract!vars
  <2>1. CASE Rename(j) /\ IsAlone(j)
    <3>1. Abstract!Publish(j)
      BY <2>1, RenamePublication
    <3> QED
      BY <3>1 DEF Abstract!Next
  <2>2. CASE ~(Rename(j) /\ IsAlone(j))
    <3>1. \A k \in Job \ {j} : ~Rename(k)
      BY <1>1, <1>3, StepSpares DEF IInv, OnlyJob
    <3>2. Rename(j) => NameOf[file[j]] \notin Alone
      BY <1>1, <2>2 DEF IsAlone
    <3>3. Publications' = Publications
      BY <3>1, <3>2, NothingPublished
    <3> QED
      BY <1>3, <2>2, <3>3, OtherPublication
  <2> QED
    BY <2>1, <2>2
<1>4. CASE Crash
  <2>1. /\ pc' = [k \in Job |-> IF pc[k] \in Active THEN "crashed" ELSE pc[k]]
        /\ UNCHANGED <<file, chunks, entry, data>>
    BY <1>4 DEF Crash, disk
  <2>2. \A k \in Job : IsAlone(k)' <=> IsAlone(k)
    BY <2>1 DEF IsAlone, Active
  <2>3. Stage' = [k \in Job |-> IF Stage[k] = "running" THEN "crashed" ELSE Stage[k]]
    BY <2>1, <2>2 DEF Stage, StageOf, IInv, TypeOK, PC, Active, Ended
  <2>4. FileOf' = FileOf /\ Held' = Held /\ Publications' = Publications
    BY <2>1, <2>2 DEF FileOf, Held, AllGood, Publications, PublishedAs
  <2>5. Abstract!Crash
    BY <2>3, <2>4 DEF Abstract!Crash
  <2> QED
    BY <2>5 DEF Abstract!Next
<1>5. CASE UNCHANGED vars
  BY <1>5 DEF vars, job, disk, Abstract!vars, Stage, StageOf, FileOf, Held, IsAlone, AllGood,
              Publications, PublishedAs
<1> QED
  BY <1>2, <1>3, <1>4, <1>5 DEF Next

(***************************************************************************)
(* For the names whose calls do not overlap reassembleFile() implements    *)
(* the publication of whole files, whatever overlaps for other names: one  *)
(* atomic step when it resolves, none when it fails or crashes.            *)
(***************************************************************************)
THEOREM Implements == Spec => ImplementsPublication
BY InitPublication, PublicationStep, Inductive, PTL
   DEF Spec, ImplementsPublication, Abstract!Spec
=============================================================================
