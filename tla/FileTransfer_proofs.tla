------------------------- MODULE FileTransfer_proofs -------------------------
(***************************************************************************)
(* Proofs about FileTransfer, for any transfers and any waiters.           *)
(***************************************************************************)
EXTENDS FileTransfer, FiniteSetTheorems, TLAPS

(***************************************************************************)
(* The numbers and the sets of a transfer are what they are meant to be.   *)
(***************************************************************************)
LEMMA FileType ==
    ASSUME TypeOK
    PROVE  /\ file.nb \in Nat /\ file.sent \in Nat
           /\ file.bad \subseteq Chunk
           /\ IsFiniteSet(Chunk) /\ Cardinality(Chunk) = file.sent
<1>1. file.nb \in Nat /\ file.sent \in Nat /\ file.bad \in SUBSET (1 .. file.sent)
  BY TransferAssumption DEF TypeOK
<1>2. IsFiniteSet(1 .. file.sent) /\ Cardinality(1 .. file.sent) = file.sent
  <2>1. 1 \in Int /\ file.sent \in Int
    BY <1>1
  <2>2. /\ IsFiniteSet(1 .. file.sent)
        /\ Cardinality(1 .. file.sent) = IF 1 > file.sent THEN 0 ELSE file.sent - 1 + 1
    BY <2>1, FS_Interval
  <2> QED
    BY <1>1, <2>2
<1> QED
  BY <1>1, <1>2 DEF Chunk

(***************************************************************************)
(* The .part file is finite; a chunk that it lacks makes it larger by one, *)
(* and it never has more chunks than were sent.                            *)
(***************************************************************************)
LEMMA PartGrows ==
    ASSUME TypeOK, NEW i \in Chunk, i \notin part
    PROVE  /\ IsFiniteSet(part)
           /\ Cardinality(part) \in Nat
           /\ Cardinality(part \cup {i}) = Cardinality(part) + 1
           /\ Cardinality(part \cup {i}) <= file.sent
<1>1. IsFiniteSet(Chunk) /\ Cardinality(Chunk) = file.sent /\ part \subseteq Chunk
  BY FileType DEF TypeOK
<1>2. IsFiniteSet(part)
  BY <1>1, FS_Subset
<1>3. Cardinality(part \cup {i}) <= Cardinality(Chunk)
  BY <1>1, FS_Subset
<1> QED
  BY <1>1, <1>2, <1>3, FS_AddElement, FS_CardinalityType

(***************************************************************************)
(* Nothing has been sent at first.                                         *)
(***************************************************************************)
LEMMA InitFileInv == Init => FileInv
<1> SUFFICES ASSUME Init PROVE FileInv
  OBVIOUS
<1>1. file.sent \in Nat
  BY TransferAssumption DEF Init
<1>2. TypeOK
  <2>1. handler \in [Chunk -> {"unread", "dropped", "rejected", "writing",
                               "ending", "renaming", "renamed", "done"}]
    BY DEF Init
  <2>2. wait \in [Waiter -> {"idle", "pending", "resolved", "rejected", "timeout"}]
    BY DEF Init
  <2>3. written \in 0 .. file.sent + 1 /\ read \in 0 .. written /\ received \in 0 .. file.sent
    BY <1>1 DEF Init
  <2>4. /\ file \in Transfer /\ wire \in {"open", "broken"}
        /\ session \in {"none", "mkdir", "open", "closed"}
        /\ process \in {"up", "stopped", "unhandled"}
    BY DEF Init
  <2>5. /\ part \subseteq Chunk /\ published \in BOOLEAN
        /\ completion \in Waiter \cup {NoWaiter}
        /\ timer \subseteq Waiter /\ late \subseteq Waiter
    BY DEF Init
  <2> QED
    BY <2>1, <2>2, <2>3, <2>4, <2>5 DEF TypeOK
<1>3. Cardinality(part) = 0
  BY FS_EmptySet DEF Init
<1>4. ReadIsHandled
  BY <1>1 DEF Init, ReadIsHandled, Chunk
<1>5. PartIsCounted
  BY <1>3 DEF Init, PartIsCounted, In
<1>6. Ending = {} /\ In({"writing"}) = {} /\ In({"renamed"}) = {}
  BY DEF Init, In, Ending
<1> QED
  BY <1>2, <1>4, <1>5, <1>6
     DEF Init, FileInv, EndedIsComplete, EndedIsQuiet, OnlyGrowthFails,
         EarlyWaiterIsAnswered, Up

(***************************************************************************)
(* A data event.  Its chunks were unread, hence not in the .part file; one *)
(* that is written behind end() is one more than were announced.           *)
(***************************************************************************)
LEMMA ReadPacketsFileInv ==
    ASSUME FileInv, NEW last \in 1 .. file.sent + 1, ReadPackets(last)
    PROVE  FileInv'
<1> DEFINE new  == (read .. last - 1) \cap Chunk
           good == {i \in new : HashOk(i)}
<1> USE DEF FileInv
<1>1. /\ UNCHANGED <<sender, received, part, published, timer, late>>
      /\ Up /\ read' = last /\ last \in read + 1 .. written
      /\ session' = IF read = 0 THEN "mkdir" ELSE session
  BY DEF ReadPackets
<1>2. Chunk' = Chunk /\ file' = file
  BY <1>1 DEF Chunk, sender
<1>3. read \in Nat /\ last \in Nat /\ written \in Nat /\ file.sent \in Nat
      /\ last <= written /\ written <= file.sent + 1 /\ read < last
  BY <1>1, FileType DEF TypeOK
<1>4. \A i \in new : handler[i] = "unread" /\ i \notin part /\ i \in Chunk
  BY <1>3 DEF ReadIsHandled, PartIsCounted, In, Chunk
<1>5. \A i \in Chunk \ new : handler'[i] = handler[i]
  BY DEF ReadPackets
<1>6. \A i \in new : handler'[i] =
          IF session # "open" THEN "dropped"
          ELSE IF HashOk(i) THEN "writing" ELSE "rejected"
  BY DEF ReadPackets
<1>7. TypeOK'
  <2>1. handler' \in [Chunk' -> {"unread", "dropped", "rejected", "writing",
                                 "ending", "renaming", "renamed", "done"}]
    <3>1. handler' = [i \in Chunk |-> handler'[i]]
      BY DEF ReadPackets
    <3> QED
      BY <3>1, <1>2, <1>5, <1>6 DEF TypeOK
  <2>2. completion' \in Waiter \cup {NoWaiter}
        /\ wait' \in [Waiter -> {"idle", "pending", "resolved", "rejected", "timeout"}]
    BY DEF ReadPackets, Settle, TypeOK
  <2>3. process' \in {"up", "stopped", "unhandled"}
    BY DEF ReadPackets, Fails, TypeOK
  <2> QED
    BY <1>1, <1>2, <1>3, <2>1, <2>2, <2>3 DEF TypeOK, sender
<1>8. ReadIsHandled'
  <2>1. \A i \in Chunk : i < last <=> handler'[i] # "unread"
    BY <1>3, <1>4, <1>5, <1>6 DEF ReadIsHandled, Chunk
  <2> QED
    BY <1>1, <1>2, <1>3, <2>1 DEF ReadIsHandled
<1>9. PartIsCounted'
  <2>1. part \cap In({"unread", "writing"})' = {}
    BY <1>2, <1>4, <1>5 DEF PartIsCounted, In
  <2>2. In({"writing"})' \subseteq In({"writing"}) \cup good
    BY <1>2, <1>5, <1>6 DEF In
  <2>3. good \cap file.bad = {}
    BY DEF HashOk
  <2> QED
    BY <1>1, <1>2, <2>1, <2>2, <2>3 DEF PartIsCounted
<1>10. \A s \in SUBSET {"ending", "renaming", "renamed"} : In(s)' = In(s)
  BY <1>2, <1>4, <1>5, <1>6 DEF In
<1>11. EndedIsComplete'
  BY <1>1, <1>2, <1>10 DEF EndedIsComplete, Ending
<1>12. /\ published => session' = "closed" \/ In({"renamed"})' # {}
       /\ In({"renamed"})' # {} => published
  BY <1>1, <1>10 DEF EndedIsQuiet, ReadIsHandled
<1>13. ASSUME ~(session = "open" /\ good # {} /\ Ending # {}) PROVE FileInv'
  <2>1. UNCHANGED process
    BY <1>13 DEF ReadPackets
  <2>2. Up' /\ (published \/ In({"renaming", "renamed"})' # {}) => In({"writing"})' = {}
    <3> SUFFICES ASSUME published \/ In({"renaming", "renamed"}) # {}
                 PROVE  In({"writing"})' = {}
      BY <1>10
    <3>1. In({"writing"}) = {}
      BY <1>1 DEF EndedIsQuiet
    <3>2. session # "open" \/ good = {}
      BY <1>13 DEF EndedIsQuiet, Ending, In
    <3> QED
      BY <1>2, <1>5, <1>6, <3>1, <3>2 DEF In
  <2>3. EndedIsQuiet'
    BY <1>1, <1>12, <2>2 DEF EndedIsQuiet
  <2>4. OnlyGrowthFails'
    BY <1>2, <2>1 DEF OnlyGrowthFails
  <2>5. EarlyWaiterIsAnswered'
    BY <1>1 DEF EarlyWaiterIsAnswered, ReadPackets, Settle, ReadIsHandled
  <2> QED
    BY <1>7, <1>8, <1>9, <1>11, <2>3, <2>4, <2>5
<1>14. ASSUME session = "open", good # {}, Ending # {} PROVE FileInv'
  <2>1. process' = "unhandled"
    BY <1>14 DEF ReadPackets, Fails
  <2>2. file.sent > file.nb
    <3>1. PICK i \in good : TRUE
      BY <1>14
    <3>2. Cardinality(part) + 1 <= file.sent /\ Cardinality(part) \in Nat
      BY <1>4, <3>1, PartGrows
    <3>3. Cardinality(part) >= file.nb
      BY <1>14 DEF EndedIsComplete, PartIsCounted
    <3> QED
      BY <3>2, <3>3, FileType
  <2>3. EndedIsQuiet'
    BY <1>1, <1>12, <2>1 DEF EndedIsQuiet, Up
  <2>4. EarlyWaiterIsAnswered'
    BY <1>1, <1>14 DEF EarlyWaiterIsAnswered, ReadIsHandled
  <2> QED
    BY <1>2, <1>7, <1>8, <1>9, <1>11, <2>1, <2>2, <2>3, <2>4 DEF OnlyGrowthFails
<1> QED
  BY <1>13, <1>14

(***************************************************************************)
(* A chunk is written: one more is counted.                                *)
(***************************************************************************)
LEMMA WriteDoneFileInv ==
    ASSUME FileInv, NEW i \in Chunk, WriteDone(i)
    PROVE  FileInv'
<1> USE DEF FileInv
<1>1. /\ UNCHANGED <<sender, read, session, published, waiting, process>>
      /\ Up /\ handler[i] = "writing"
      /\ part' = part \cup {i} /\ received' = received + 1
      /\ handler' = [handler EXCEPT ![i] = IF IsLast(received + 1) THEN "ending" ELSE "done"]
  BY DEF WriteDone, In
<1>2. Chunk' = Chunk /\ file' = file
  BY <1>1 DEF Chunk, sender
<1>3. /\ i \notin part /\ i \notin file.bad
      /\ Cardinality(part') = received + 1 /\ received + 1 <= file.sent
      /\ received \in Nat /\ file.nb \in Nat /\ file.sent \in Nat
  BY <1>1, PartGrows, FileType DEF PartIsCounted, In
<1>4. handler'[i] \in {"ending", "done"} /\ \A j \in Chunk \ {i} : handler'[j] = handler[j]
  BY <1>1 DEF TypeOK
<1>5. TypeOK'
  BY <1>1, <1>2, <1>3 DEF TypeOK, sender, waiting
<1>6. ReadIsHandled'
  BY <1>1, <1>2, <1>4 DEF ReadIsHandled
<1>7. PartIsCounted'
  BY <1>1, <1>2, <1>3, <1>4 DEF PartIsCounted, In
<1>8. In({"renaming", "renamed"})' = In({"renaming", "renamed"})
      /\ In({"renamed"})' = In({"renamed"})
  BY <1>1, <1>2, <1>4 DEF In
<1>9. /\ i \in In({"writing"}) /\ In({"writing"})' \subseteq In({"writing"})
      /\ Ending' \subseteq Ending \cup {i}
      /\ i \in Ending' => received + 1 >= file.nb
  BY <1>1, <1>2, <1>4 DEF In, Ending, IsLast
<1>10. ~published /\ In({"renaming", "renamed"}) = {}
  BY <1>1, <1>9 DEF EndedIsQuiet
<1>11. EndedIsComplete'
  <2>1. Ending' # {} => received' >= file.nb
    BY <1>1, <1>3, <1>9 DEF EndedIsComplete
  <2>2. \A j, k \in Ending' : j # k => received' > file.nb
    BY <1>1, <1>3, <1>9 DEF EndedIsComplete
  <2> QED
    BY <1>1, <1>2, <1>10, <2>1, <2>2 DEF EndedIsComplete
<1>12. EndedIsQuiet'
  BY <1>1, <1>8, <1>10 DEF EndedIsQuiet
<1>13. OnlyGrowthFails' /\ EarlyWaiterIsAnswered'
  BY <1>1, <1>2 DEF OnlyGrowthFails, EarlyWaiterIsAnswered, waiting
<1> QED
  BY <1>5, <1>6, <1>7, <1>11, <1>12, <1>13

(***************************************************************************)
(* The steps of a handler that has ended the stream.  A second rename()    *)
(* fails only when more chunks than announced were written.                *)
(***************************************************************************)
LEMMA EndStepFileInv ==
    ASSUME FileInv, NEW i \in Chunk, EndDone(i) \/ Rename(i) \/ CloseSession(i)
    PROVE  FileInv'
<1> USE DEF FileInv
<1>1. /\ UNCHANGED <<sender, read, received, part, timer, late>>
      /\ Up /\ handler[i] \in {"ending", "renaming", "renamed"}
      /\ handler'[i] \in {"renaming", "renamed", "done"}
      /\ handler' = [handler EXCEPT ![i] = handler'[i]]
  <2>1. CASE EndDone(i)
    BY <2>1 DEF EndDone, TypeOK, waiting
  <2>2. CASE Rename(i)
    BY <2>2 DEF Rename, TypeOK, waiting
  <2>3. CASE CloseSession(i)
    BY <2>3 DEF CloseSession, TypeOK
  <2> QED
    BY <2>1, <2>2, <2>3
<1>2. Chunk' = Chunk /\ file' = file
  BY <1>1 DEF Chunk, sender
<1>3. \A j \in Chunk \ {i} : handler'[j] = handler[j]
  BY <1>1 DEF TypeOK
<1>4. TypeOK'
  <2>1. handler' \in [Chunk' -> {"unread", "dropped", "rejected", "writing",
                                 "ending", "renaming", "renamed", "done"}]
    BY <1>1, <1>2 DEF TypeOK
  <2>2. /\ completion' \in Waiter \cup {NoWaiter}
        /\ wait' \in [Waiter -> {"idle", "pending", "resolved", "rejected", "timeout"}]
    BY DEF EndDone, Rename, CloseSession, Settle, TypeOK, waiting
  <2>3. /\ session' \in {"none", "mkdir", "open", "closed"}
        /\ published' \in BOOLEAN
        /\ process' \in {"up", "stopped", "unhandled"}
    BY DEF EndDone, Rename, CloseSession, Fails, TypeOK
  <2> QED
    BY <1>1, <1>2, <2>1, <2>2, <2>3 DEF TypeOK, sender
<1>5. ReadIsHandled'
  <2>1. \A j \in Chunk : handler'[j] # "unread" <=> handler[j] # "unread"
    BY <1>1, <1>3
  <2>2. read > 0
    BY <1>1, FileType DEF ReadIsHandled, Chunk, TypeOK
  <2> QED
    BY <1>1, <1>2, <2>1, <2>2 DEF ReadIsHandled
<1>6. /\ In({"writing"})' = In({"writing"})
      /\ In({"unread", "writing"})' = In({"unread", "writing"})
      /\ Ending' \subseteq Ending /\ i \in Ending
  BY <1>1, <1>2, <1>3 DEF In, Ending
<1>7. PartIsCounted'
  BY <1>1, <1>2, <1>6 DEF PartIsCounted
<1>8. received >= file.nb /\ \A j, k \in Ending : j # k => received > file.nb
  BY <1>6 DEF EndedIsComplete
<1>9. CASE EndDone(i)
  <2>1. /\ UNCHANGED <<session, published, waiting, process>>
        /\ handler[i] = "ending" /\ handler'[i] = "renaming" /\ In({"writing"}) = {}
    BY <1>1, <1>9 DEF EndDone, TypeOK
  <2>2. In({"renamed"})' = In({"renamed"})
        /\ (In({"ending", "renaming"})' # {} => In({"ending", "renaming"}) # {})
    BY <1>2, <1>3, <2>1 DEF In
  <2>3. EndedIsComplete' /\ EndedIsQuiet'
    BY <1>1, <1>2, <1>6, <1>8, <2>1, <2>2 DEF EndedIsComplete, EndedIsQuiet
  <2> QED
    BY <1>2, <1>4, <1>5, <1>7, <2>1, <2>3 DEF OnlyGrowthFails, EarlyWaiterIsAnswered, waiting
<1>10. CASE Rename(i) /\ published
  <2>1. /\ UNCHANGED <<session, published, waiting, handler>>
        /\ handler[i] = "renaming" /\ process' = "unhandled"
    BY <1>10 DEF Rename, Fails
  <2>2. file.sent > file.nb
    <3>1. received > file.nb
      BY <1>10, <2>1 DEF EndedIsComplete, In
    <3>2. received <= file.sent
      BY FileType DEF TypeOK
    <3> QED
      BY <3>1, <3>2, FileType DEF TypeOK
  <2>3. EndedIsComplete' /\ EndedIsQuiet'
    BY <1>1, <1>2, <2>1 DEF EndedIsComplete, EndedIsQuiet, Up, In, Ending
  <2> QED
    BY <1>2, <1>4, <1>5, <1>7, <1>1, <2>1, <2>2, <2>3
       DEF OnlyGrowthFails, EarlyWaiterIsAnswered, waiting
<1>11. CASE Rename(i) /\ ~published
  <2>1. /\ UNCHANGED <<session, waiting, process>>
        /\ handler[i] = "renaming" /\ handler'[i] = "renamed" /\ published'
    BY <1>1, <1>11 DEF Rename, TypeOK
  <2>2. i \in In({"renamed"})' /\ In({"writing"}) = {}
    BY <1>1, <1>2, <2>1 DEF In, EndedIsQuiet
  <2>3. In({"ending", "renaming"})' # {} => received > file.nb
    <3> SUFFICES ASSUME NEW j \in In({"ending", "renaming"})' PROVE received > file.nb
      OBVIOUS
    <3>1. j \in Ending /\ j # i
      BY <1>2, <1>3, <2>1 DEF In, Ending
    <3> QED
      BY <1>6, <1>8, <3>1
  <2>4. EndedIsComplete' /\ EndedIsQuiet'
    BY <1>1, <1>2, <1>6, <1>8, <2>1, <2>2, <2>3 DEF EndedIsComplete, EndedIsQuiet
  <2> QED
    BY <1>2, <1>4, <1>5, <1>7, <2>1, <2>4 DEF OnlyGrowthFails, EarlyWaiterIsAnswered, waiting
<1>12. CASE CloseSession(i)
  <2>1. /\ UNCHANGED <<published, process>> /\ session' = "closed"
        /\ handler[i] = "renamed" /\ handler'[i] = "done" /\ completion' = NoWaiter
    BY <1>1, <1>12 DEF CloseSession, Settle, TypeOK
  <2>2. /\ In({"ending", "renaming"})' # {} => In({"ending", "renaming"}) # {}
        /\ In({"renamed"})' # {} => In({"renamed"}) # {}
        /\ In({"writing"}) = {}
    BY <1>1, <1>2, <1>3, <2>1 DEF In, EndedIsQuiet
  <2>3. EndedIsComplete' /\ EndedIsQuiet'
    BY <1>1, <1>2, <1>6, <1>8, <2>1, <2>2 DEF EndedIsComplete, EndedIsQuiet
  <2> QED
    BY <1>2, <1>4, <1>5, <1>7, <2>1, <2>3 DEF OnlyGrowthFails, EarlyWaiterIsAnswered
<1> QED
  BY <1>9, <1>10, <1>11, <1>12

(***************************************************************************)
(* The sender, the connection, the waiters and the end of the process do   *)
(* not touch the handlers.                                                 *)
(***************************************************************************)
LEMMA OtherStepFileInv ==
    ASSUME FileInv,
           \/ WritePacket \/ ConnectionBreaks \/ OpenSession \/ ProcessStops
           \/ \E w \in Waiter : WaitForCompletion(w) \/ Timeout(w)
           \/ UNCHANGED vars
    PROVE  FileInv'
<1> USE DEF FileInv
<1>1. UNCHANGED <<file, read, handler, received, part, published>>
  BY DEF WritePacket, ConnectionBreaks, OpenSession, ProcessStops, WaitForCompletion,
         Timeout, vars, sender, receiver
<1>2. Chunk' = Chunk /\ \A s : In(s)' = In(s)
  BY <1>1 DEF Chunk, In
<1>3. TypeOK'
  BY <1>1, <1>2, FileType
     DEF TypeOK, WritePacket, ConnectionBreaks, OpenSession, ProcessStops,
         WaitForCompletion, Timeout, vars, sender, receiver, waiting
<1>4. ReadIsHandled' /\ PartIsCounted' /\ EndedIsComplete'
  BY <1>1, <1>2
     DEF ReadIsHandled, PartIsCounted, EndedIsComplete, Ending, WritePacket,
         ConnectionBreaks, OpenSession, ProcessStops, WaitForCompletion, Timeout, vars,
         receiver
<1>5. EndedIsQuiet'
  BY <1>1, <1>2
     DEF EndedIsQuiet, Up, WritePacket, ConnectionBreaks, OpenSession, ProcessStops,
         WaitForCompletion, Timeout, vars, receiver
<1>6. OnlyGrowthFails'
  BY <1>1 DEF OnlyGrowthFails, WritePacket, ConnectionBreaks, OpenSession, ProcessStops,
              WaitForCompletion, Timeout, vars
<1>7. EarlyWaiterIsAnswered'
  BY DEF EarlyWaiterIsAnswered, WritePacket, ConnectionBreaks, OpenSession, ProcessStops,
         WaitForCompletion, Timeout, vars, receiver, waiting
<1> QED
  BY <1>3, <1>4, <1>5, <1>6, <1>7

(***************************************************************************)
(* The file's part of the invariant is inductive by itself.                *)
(***************************************************************************)
LEMMA NextFileInv == FileInv /\ [Next]_vars => FileInv'
<1> SUFFICES ASSUME FileInv, [Next]_vars PROVE FileInv'
  OBVIOUS
<1>1. ASSUME NEW last \in 1 .. file.sent + 1, ReadPackets(last) PROVE FileInv'
  BY <1>1, ReadPacketsFileInv
<1>2. ASSUME NEW i \in Chunk, WriteDone(i) PROVE FileInv'
  BY <1>2, WriteDoneFileInv
<1>3. ASSUME NEW i \in Chunk, EndDone(i) \/ Rename(i) \/ CloseSession(i) PROVE FileInv'
  BY <1>3, EndStepFileInv
<1> QED
  BY <1>1, <1>2, <1>3, OtherStepFileInv DEF Next, Handlers

(***************************************************************************)
(* The handlers of data events and of the end of the file settle the       *)
(* waiter for a reason, and forget it only then.                           *)
(***************************************************************************)
LEMMA SettleWaiters ==
    ASSUME FileInv, AnswersAreTrue, WaiterIsKept,
           NEW outcome \in {"resolved", "rejected"}, Settle(outcome),
           timer' = timer, published => published',
           In({"rejected"}) # {} => In({"rejected"})' # {},
           outcome = "resolved" => published',
           outcome = "rejected" => In({"rejected"})' # {}
    PROVE  AnswersAreTrue' /\ WaiterIsKept'
<1>1. /\ completion' = NoWaiter
      /\ \A w \in Waiter : wait'[w] = IF w = completion THEN outcome ELSE wait[w]
  BY DEF Settle
<1>2. AnswersAreTrue'
  BY <1>1 DEF AnswersAreTrue
<1>3. \A w \in Waiter : w = completion => wait[w] = "pending"
  BY TransferAssumption DEF WaiterIsKept
<1>4. Callers' = Callers
  BY <1>1, <1>3 DEF Callers
<1>5. \A w \in Waiter : Callers' = {w} => wait'[w] # "pending"
  BY <1>1, <1>4 DEF WaiterIsKept
<1> QED
  BY <1>1, <1>2, <1>4, <1>5 DEF WaiterIsKept

(***************************************************************************)
(* A step that leaves the waiters alone, and what they were told of.       *)
(***************************************************************************)
LEMMA QuietWaiters ==
    ASSUME AnswersAreTrue, WaiterIsKept, UNCHANGED <<completion, wait, timer>>,
           published => published',
           In({"rejected"}) # {} => In({"rejected"})' # {}
    PROVE  AnswersAreTrue' /\ WaiterIsKept'
<1>1. Callers' = Callers
  BY DEF Callers
<1> QED
  BY <1>1 DEF AnswersAreTrue, WaiterIsKept

(***************************************************************************)
(* A caller registers, alone only when nobody called before; a timer that  *)
(* fires rejects its own promise, which is the one registered when there   *)
(* was no other caller.                                                    *)
(***************************************************************************)
LEMMA CallerSteps ==
    ASSUME FileInv, AnswersAreTrue, WaiterIsKept, NEW w \in Waiter,
           WaitForCompletion(w) \/ Timeout(w)
    PROVE  AnswersAreTrue' /\ WaiterIsKept'
<1>1. UNCHANGED <<published, handler, file>>
  BY DEF WaitForCompletion, Timeout, receiver, sender
<1>2. In({"rejected"})' = In({"rejected"})
  BY <1>1 DEF In, Chunk
<1>3. wait \in [Waiter -> {"idle", "pending", "resolved", "rejected", "timeout"}]
  BY DEF FileInv, TypeOK
<1>4. CASE WaitForCompletion(w)
  <2>1. /\ completion' = w /\ timer' = timer \cup {w}
        /\ wait' = [wait EXCEPT ![w] = "pending"] /\ wait[w] = "idle"
    BY <1>4 DEF WaitForCompletion
  <2>2. Callers' = Callers \cup {w} /\ wait'[w] = "pending"
    BY <1>3, <2>1 DEF Callers
  <2>3. AnswersAreTrue'
    BY <1>1, <1>2, <1>3, <2>1 DEF AnswersAreTrue
  <2>4. \A v \in Waiter : Callers' = {v} => v = w
    BY <2>2
  <2> QED
    BY <2>1, <2>2, <2>3, <2>4 DEF WaiterIsKept
<1>5. CASE Timeout(w)
  <2>1. /\ completion' = NoWaiter /\ timer' = timer \ {w} /\ w \in timer
        /\ wait' = [wait EXCEPT ![w] =
                       IF completion # NoWaiter /\ wait[w] = "pending"
                       THEN "timeout" ELSE wait[w]]
    BY <1>5 DEF Timeout
  <2>2. Callers' = Callers /\ w \in Callers
    BY <1>3, <2>1 DEF Callers, WaiterIsKept
  <2>3. AnswersAreTrue'
    BY <1>1, <1>2, <1>3, <2>1 DEF AnswersAreTrue
  <2>4. \A v \in Waiter : Callers' = {v} => wait'[v] # "pending"
    <3> SUFFICES ASSUME NEW v \in Waiter, Callers' = {v} PROVE wait'[v] # "pending"
      OBVIOUS
    <3>1. v = w /\ Callers = {w}
      BY <2>2
    <3>2. wait[w] = "pending" => completion = w /\ completion # NoWaiter
      BY <3>1, TransferAssumption DEF WaiterIsKept
    <3> QED
      BY <1>3, <2>1, <3>1, <3>2
  <2> QED
    BY <2>1, <2>2, <2>3, <2>4 DEF WaiterIsKept
<1> QED
  BY <1>4, <1>5

(***************************************************************************)
(* Every step keeps what the waiters were promised.                        *)
(***************************************************************************)
LEMMA NextWaiters ==
    ASSUME FileInv, FileInv', AnswersAreTrue, WaiterIsKept, [Next]_vars
    PROVE  AnswersAreTrue' /\ WaiterIsKept'
<1>1. ASSUME NEW last \in 1 .. file.sent + 1, ReadPackets(last)
      PROVE  AnswersAreTrue' /\ WaiterIsKept'
  <2> DEFINE new  == (read .. last - 1) \cap Chunk
             good == {i \in new : HashOk(i)}
  <2>1. UNCHANGED <<file, published, timer>> /\ Chunk' = Chunk
    BY <1>1 DEF ReadPackets, sender, Chunk
  <2>2. \A i \in new : handler[i] = "unread"
    BY <1>1 DEF ReadPackets, FileInv, TypeOK, ReadIsHandled, Chunk
  <2>3. In({"rejected"}) \subseteq In({"rejected"})'
    BY <1>1, <2>1, <2>2 DEF ReadPackets, In
  <2>4. CASE session = "open" /\ good # new
    <3>1. Settle("rejected")
      BY <1>1, <2>4 DEF ReadPackets
    <3>2. PICK i \in new : i \notin good
      BY <2>4
    <3>3. handler'[i] = "rejected" /\ i \in Chunk'
      BY <1>1, <2>1, <2>4, <3>2 DEF ReadPackets
    <3> QED
      BY <2>1, <2>3, <3>1, <3>3, SettleWaiters DEF In
  <2>5. CASE ~(session = "open" /\ good # new)
    <3>1. UNCHANGED <<completion, wait>>
      BY <1>1, <2>5 DEF ReadPackets
    <3> QED
      BY <2>1, <2>3, <3>1, QuietWaiters
  <2> QED
    BY <2>4, <2>5
<1>2. ASSUME NEW i \in Chunk, CloseSession(i)
      PROVE  AnswersAreTrue' /\ WaiterIsKept'
  <2>1. UNCHANGED <<file, published, timer>> /\ Settle("resolved") /\ handler[i] = "renamed"
    BY <1>2 DEF CloseSession, sender
  <2>2. In({"rejected"}) \subseteq In({"rejected"})'
    BY <1>2, <2>1 DEF CloseSession, In, Chunk, FileInv, TypeOK
  <2>3. published
    BY <2>1 DEF FileInv, EndedIsQuiet, In
  <2> QED
    BY <2>1, <2>2, <2>3, SettleWaiters
<1>3. ASSUME NEW i \in Chunk, WriteDone(i) \/ EndDone(i) \/ Rename(i)
      PROVE  AnswersAreTrue' /\ WaiterIsKept'
  <2>1. UNCHANGED <<file, completion, wait, timer>> /\ (published => published')
    BY <1>3 DEF WriteDone, EndDone, Rename, sender, waiting
  <2>2. In({"rejected"}) \subseteq In({"rejected"})'
    BY <1>3, <2>1 DEF WriteDone, EndDone, Rename, In, Chunk, FileInv, TypeOK
  <2> QED
    BY <2>1, <2>2, QuietWaiters
<1>4. ASSUME \/ WritePacket \/ ConnectionBreaks \/ OpenSession \/ ProcessStops
             \/ UNCHANGED vars
      PROVE  AnswersAreTrue' /\ WaiterIsKept'
  <2>1. UNCHANGED <<file, handler, published, completion, wait, timer>>
    BY <1>4 DEF WritePacket, ConnectionBreaks, OpenSession, ProcessStops, vars,
                sender, receiver, waiting
  <2>2. In({"rejected"})' = In({"rejected"})
    BY <2>1 DEF In, Chunk
  <2> QED
    BY <2>1, <2>2, QuietWaiters
<1> QED
  BY <1>1, <1>2, <1>3, <1>4, CallerSteps DEF Next, Handlers

(***************************************************************************)
(* IInv holds in every reachable state.                                    *)
(***************************************************************************)
THEOREM Inductive == Spec => []IInv
<1>1. Init => AnswersAreTrue /\ WaiterIsKept
  BY DEF Init, AnswersAreTrue, WaiterIsKept, Callers
<1>2. IInv /\ [Next]_vars => IInv'
  BY NextFileInv, NextWaiters DEF IInv
<1>3. Init => IInv
  BY <1>1, InitFileInv DEF IInv
<1> QED
  BY <1>2, <1>3, PTL DEF Spec

(***************************************************************************)
(* A published file has no corrupt chunk, and it has every chunk unless    *)
(* the sender sent more than it announced.                                 *)
(***************************************************************************)
THEOREM Whole == Spec => []PublishedIsWhole
<1>1. IInv => PublishedIsWhole
  <2> SUFFICES ASSUME IInv, published
               PROVE  /\ part \cap file.bad = {}
                      /\ file.sent <= file.nb => part = 1 .. file.nb
    BY DEF PublishedIsWhole
  <2>1. part \cap file.bad = {}
    BY DEF IInv, FileInv, PartIsCounted
  <2>2. ASSUME file.sent <= file.nb PROVE part = 1 .. file.nb
    <3>1. /\ IsFiniteSet(Chunk) /\ Cardinality(Chunk) = file.sent
          /\ part \subseteq Chunk /\ file.sent \in Nat /\ file.nb \in Nat
      BY FileType DEF IInv, FileInv, TypeOK
    <3>2. Cardinality(part) >= file.nb /\ Cardinality(part) \in Nat
      BY <3>1, FS_Subset, FS_CardinalityType DEF IInv, FileInv, EndedIsComplete, PartIsCounted
    <3>3. Cardinality(part) <= Cardinality(Chunk)
      BY <3>1, FS_Subset
    <3>4. file.sent = file.nb /\ Cardinality(part) = Cardinality(Chunk)
      BY <2>2, <3>1, <3>2, <3>3
    <3>5. part = Chunk
      BY <3>1, <3>4, FS_Subset
    <3> QED
      BY <3>4, <3>5 DEF Chunk
  <2> QED
    BY <2>1, <2>2
<1> QED
  BY <1>1, Inductive, PTL

(***************************************************************************)
(* Only a file that grew while it was sent can end the receiver with an    *)
(* unhandled rejection.                                                    *)
(***************************************************************************)
THEOREM OnlyGrowth == Spec => []OnlyGrowthFails
<1>1. IInv => OnlyGrowthFails
  BY DEF IInv, FileInv
<1> QED
  BY <1>1, Inductive, PTL

(***************************************************************************)
(* Whoever is registered when the session is closed came after that.       *)
(***************************************************************************)
THEOREM EarlyWaiter == Spec => []EarlyWaiterIsAnswered
<1>1. IInv => EarlyWaiterIsAnswered
  BY DEF IInv, FileInv
<1> QED
  BY <1>1, Inductive, PTL

(***************************************************************************)
(* waitForCompletion() tells the truth: it resolves only for a file that   *)
(* is there, and rejects for a chunk only when one was corrupt.            *)
(***************************************************************************)
THEOREM Truthful == Spec => []AnswersAreTrue
<1>1. IInv => AnswersAreTrue
  BY DEF IInv
<1> QED
  BY <1>1, Inductive, PTL

(***************************************************************************)
(* The only caller of waitForCompletion() is registered and its timer is   *)
(* running for as long as it has no answer: the safety half of             *)
(* OnlyWaiterIsAnswered.                                                   *)
(***************************************************************************)
THEOREM WaiterKept == Spec => []WaiterIsKept
<1>1. IInv => WaiterIsKept
  BY DEF IInv
<1> QED
  BY <1>1, Inductive, PTL

(***************************************************************************)
(* A published file stays as it is: no write is under way any more.        *)
(***************************************************************************)
THEOREM Stable == Spec => PublishedIsStable
<1>1. IInv /\ [Next]_vars => (published => published' /\ part' = part)
  <2> SUFFICES ASSUME IInv, [Next]_vars, published
               PROVE  published' /\ part' = part
    OBVIOUS
  <2>1. \A i \in Chunk : ~WriteDone(i)
    BY DEF IInv, FileInv, EndedIsQuiet, WriteDone
  <2> QED
    BY <2>1 DEF Next, Handlers, WritePacket, ConnectionBreaks, ReadPackets, OpenSession,
               EndDone, Rename, CloseSession, WaitForCompletion, Timeout, ProcessStops,
               vars, receiver
<1> QED
  BY <1>1, Inductive, PTL DEF Spec, PublishedIsStable
=============================================================================
