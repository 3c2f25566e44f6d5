---------------------------- MODULE FileTransfer ----------------------------
(***************************************************************************)
(* The transfer of one file over one connection: FileSender and            *)
(* FileReceiver (src/transfer/fileTransfer.ts) and the reads of the        *)
(* TcpServer that starts the receiver's handlers (src/network/server.ts).  *)
(*                                                                         *)
(* Packet 0 is the manifest, packet i the chunk i.  Every packet starts a  *)
(* handler that nobody waits for (void this.packetHandler(...)), so that   *)
(* the handlers of one connection run between each other's awaits, and an  *)
(* error in one is an unhandled rejection, which ends the process.         *)
(*                                                                         *)
(* The sender takes the number of chunks from stat() and the chunks from a *)
(* later read: the file may shrink or grow in between.  The .part file is  *)
(* the set of chunks it has: a write stream appends them in the order of   *)
(* the write() calls, which is that of the packets.                        *)
(***************************************************************************)
EXTENDS Integers, FiniteSets

CONSTANTS
    Transfer,  \* what may be sent: nb announced, sent chunks, bad ones among them
    Waiter,    \* calls of waitForCompletion()
    NoWaiter

ASSUME TransferAssumption ==
    /\ \A t \in Transfer :
          t.nb \in Nat /\ t.sent \in Nat /\ t.bad \in SUBSET (1 .. t.sent)
    /\ NoWaiter \notin Waiter

VARIABLES
    file,        \* the transfer of this behaviour
    written,     \* packets the sender has written
    wire,        \* the connection
    read,        \* packets that were handed to a handler
    session,     \* entry of sessions, and the manifest's handler before it
    handler,     \* where each chunk's handler is
    received,    \* receivedChunks
    part,        \* chunks in the .part file, which rename() makes the final one
    published,   \* the final file exists
    completion,  \* entry of completions
    wait,        \* outcome of each waitForCompletion()
    timer,       \* waiters whose timeout has not fired
    late,        \* history: waiters that came after the publication
    process      \* the receiver

sender   == <<file, written, wire>>
receiver == <<read, session, handler, received, part, published>>
waiting  == <<completion, wait, timer, late>>
vars     == <<sender, receiver, waiting, process>>

Chunk == 1 .. file.sent
Up    == process = "up"
In(states) == {i \in Chunk : handler[i] \in states}
Ending == In({"ending", "renaming", "renamed"})  \* end() was called

TypeOK ==
    /\ file \in Transfer
    /\ written \in 0 .. file.sent + 1
    /\ wire \in {"open", "broken"}
    /\ read \in 0 .. written
    /\ session \in {"none", "mkdir", "open", "closed"}
    /\ handler \in [Chunk -> {"unread", "dropped", "rejected", "writing",
                              "ending", "renaming", "renamed", "done"}]
    /\ received \in 0 .. file.sent
    /\ part \subseteq Chunk
    /\ published \in BOOLEAN
    /\ completion \in Waiter \cup {NoWaiter}
    /\ wait \in [Waiter -> {"idle", "pending", "resolved", "rejected", "timeout"}]
    /\ timer \subseteq Waiter
    /\ late \subseteq Waiter
    /\ process \in {"up", "stopped", "unhandled"}

Init ==
    /\ file \in Transfer
    /\ written = 0
    /\ wire = "open"
    /\ read = 0
    /\ session = "none"
    /\ handler = [i \in Chunk |-> "unread"]
    /\ received = 0
    /\ part = {}
    /\ published = FALSE
    /\ completion = NoWaiter
    /\ wait = [w \in Waiter |-> "idle"]
    /\ timer = {}
    /\ late = {}
    /\ process = "up"

-----------------------------------------------------------------------------
(***************************************************************************)
(* sendFile(): the manifest, then chunk after chunk.                       *)
(***************************************************************************)
WritePacket ==
    /\ wire = "open"
    /\ written <= file.sent
    /\ written' = written + 1
    /\ UNCHANGED <<file, wire, receiver, waiting, process>>

(***************************************************************************)
(* The connection is lost with what was not read yet; writePacket()        *)
(* rejects, and nobody tells the FileReceiver.                             *)
(***************************************************************************)
ConnectionBreaks ==
    /\ wire = "open"
    /\ wire' = "broken"
    /\ UNCHANGED <<file, written, receiver, waiting, process>>

-----------------------------------------------------------------------------
(***************************************************************************)
(* Mutant: the entry is deleted and the promise forgotten.                 *)
(***************************************************************************)
SettleForgetting(outcome) ==
    /\ UNCHANGED wait
    /\ completion' = NoWaiter

(***************************************************************************)
(* Settle the registered waiter and forget it.                             *)
(***************************************************************************)
Settle(outcome) ==
    /\ wait' = [w \in Waiter |-> IF w = completion THEN outcome ELSE wait[w]]
    /\ completion' = NoWaiter

Fails == process' = "unhandled"

(***************************************************************************)
(* Mutant: the hash of a chunk is not compared.                            *)
(***************************************************************************)
HashOkAlways(i) == TRUE

HashOk(i) == i \notin file.bad

(***************************************************************************)
(* A data event: the server extracts every complete packet of what has     *)
(* arrived, and each handler runs up to its first await.  The manifest's   *)
(* creates the directory.  A chunk's finds no session and returns, or      *)
(* finds that the hash is wrong, or writes to the stream: the sessions do  *)
(* not change while these run.  To write after end() is an error.          *)
(***************************************************************************)
ReadPackets(last) ==
    LET new    == (read .. last - 1) \cap Chunk
        good   == {i \in new : HashOk(i)}
        isOpen == session = "open"
    IN  /\ Up
        /\ wire = "open"
        /\ last \in read + 1 .. written
        /\ read' = last
        /\ session' = IF read = 0 THEN "mkdir" ELSE session
        /\ handler' = [i \in Chunk |->
              CASE i \notin new            -> handler[i]
                [] i \in new /\ ~isOpen    -> "dropped"
                [] i \in good /\ isOpen    -> "writing"
                [] i \in new \ good /\ isOpen -> "rejected"]
        /\ IF isOpen /\ good # new
           THEN Settle("rejected")
           ELSE UNCHANGED <<completion, wait>>
        /\ IF isOpen /\ good # {} /\ Ending # {} THEN Fails ELSE UNCHANGED process
        /\ UNCHANGED <<sender, received, part, published, timer, late>>

(***************************************************************************)
(* handleManifest(): the directory is there, the session is created.       *)
(***************************************************************************)
OpenSession ==
    /\ Up
    /\ session = "mkdir"
    /\ session' = "open"
    /\ UNCHANGED <<sender, read, handler, received, part, published, waiting, process>>

(***************************************************************************)
(* Mutants: the test for the last chunk.                                   *)
(***************************************************************************)
IsLastBefore(n) == n >= file.nb - 1
IsLastAfter(n)  == n > file.nb

(***************************************************************************)
(* receivedChunks >= nbChunks                                              *)
(***************************************************************************)
IsLast(n) == n >= file.nb

(***************************************************************************)
(* handleChunk() goes on: the stream has written the chunk (the first of   *)
(* those under way), the chunk is counted, and the last one ends the       *)
(* stream.                                                                 *)
(***************************************************************************)
WriteDone(i) ==
    /\ Up
    /\ i \in In({"writing"})
    /\ \A j \in In({"writing"}) : i <= j
    /\ part' = part \cup {i}
    /\ received' = received + 1
    /\ handler' = [handler EXCEPT ![i] = IF IsLast(received + 1) THEN "ending" ELSE "done"]
    /\ UNCHANGED <<sender, read, session, published, waiting, process>>

(***************************************************************************)
(* Mutant: rename() does not wait for end().                               *)
(***************************************************************************)
EndDoneEarly(i) ==
    /\ Up
    /\ handler[i] = "ending"
    /\ handler' = [handler EXCEPT ![i] = "renaming"]
    /\ UNCHANGED <<sender, read, session, received, part, published, waiting, process>>

(***************************************************************************)
(* end() calls back when all that was written before it is in the file; a  *)
(* second end() calls back too.                                            *)
(***************************************************************************)
EndDone(i) ==
    /\ Up
    /\ handler[i] = "ending"
    /\ In({"writing"}) = {}
    /\ handler' = [handler EXCEPT ![i] = "renaming"]
    /\ UNCHANGED <<sender, read, session, received, part, published, waiting, process>>

(***************************************************************************)
(* rename() of the .part file, which is gone the second time.              *)
(***************************************************************************)
Rename(i) ==
    /\ Up
    /\ handler[i] = "renaming"
    /\ IF published
       THEN Fails /\ UNCHANGED <<handler, published>>
       ELSE /\ published' = TRUE
            /\ handler' = [handler EXCEPT ![i] = "renamed"]
            /\ UNCHANGED process
    /\ UNCHANGED <<sender, read, session, received, part, waiting>>

(***************************************************************************)
(* Mutant: the waiter is told only when a chunk fails.                     *)
(***************************************************************************)
CloseSessionSilently(i) ==
    /\ Up
    /\ handler[i] = "renamed"
    /\ handler' = [handler EXCEPT ![i] = "done"]
    /\ session' = "closed"
    /\ UNCHANGED <<sender, read, received, part, published, waiting, process>>

(***************************************************************************)
(* The session is deleted and the waiter told.                             *)
(***************************************************************************)
CloseSession(i) ==
    /\ Up
    /\ handler[i] = "renamed"
    /\ handler' = [handler EXCEPT ![i] = "done"]
    /\ session' = "closed"
    /\ Settle("resolved")
    /\ UNCHANGED <<sender, read, received, part, published, timer, late, process>>

-----------------------------------------------------------------------------
(***************************************************************************)
(* waitForCompletion(), at any moment: it does not ask for a session.  A   *)
(* second caller takes the place of the first.                             *)
(***************************************************************************)
WaitForCompletion(w) ==
    /\ Up
    /\ wait[w] = "idle"
    /\ wait' = [wait EXCEPT ![w] = "pending"]
    /\ completion' = w
    /\ timer' = timer \cup {w}
    /\ late' = IF session = "closed" THEN late \cup {w} ELSE late
    /\ UNCHANGED <<sender, receiver, process>>

(***************************************************************************)
(* The timer of a waiter deletes whoever is registered, and rejects its    *)
(* own promise unless that was settled.  It does nothing when there is     *)
(* none registered.                                                        *)
(***************************************************************************)
Timeout(w) ==
    /\ Up
    /\ w \in timer
    /\ timer' = timer \ {w}
    /\ completion' = NoWaiter
    /\ wait' = [wait EXCEPT ![w] =
                  IF completion # NoWaiter /\ @ = "pending" THEN "timeout" ELSE @]
    /\ UNCHANGED <<sender, receiver, late, process>>

(***************************************************************************)
(* The receiver is stopped, crashes, or mkdir(), a write or rename()       *)
(* fails.                                                                  *)
(***************************************************************************)
ProcessStops ==
    /\ Up
    /\ process' = "stopped"
    /\ UNCHANGED <<sender, receiver, waiting>>

-----------------------------------------------------------------------------
Handlers ==
    \/ \E last \in 1 .. file.sent + 1 : ReadPackets(last)
    \/ OpenSession
    \/ \E i \in Chunk : WriteDone(i) \/ EndDone(i) \/ Rename(i) \/ CloseSession(i)

Next ==
    \/ WritePacket
    \/ ConnectionBreaks
    \/ Handlers
    \/ \E w \in Waiter : WaitForCompletion(w) \/ Timeout(w)
    \/ ProcessStops

Spec == Init /\ [][Next]_vars

(***************************************************************************)
(* The sender and the event loop go on, and timers fire.  Nobody has to    *)
(* wait, break the connection or stop the process.                         *)
(***************************************************************************)
Fairness ==
    /\ WF_vars(WritePacket)
    /\ WF_vars(Handlers)
    /\ \A w \in Waiter : WF_vars(Timeout(w))

FairSpec == Spec /\ Fairness

-----------------------------------------------------------------------------
(***************************************************************************)
(* The final file has no corrupt chunk, and unless more chunks were sent   *)
(* than announced it has all of them, although the receiver counts chunks  *)
(* and drops those that come before the session exists.                    *)
(***************************************************************************)
PublishedIsWhole ==
    published =>
        /\ part \cap file.bad = {}
        /\ file.sent <= file.nb => part = 1 .. file.nb

(***************************************************************************)
(* The published file does not change any more: no write of a handler that *)
(* is behind reaches it.                                                   *)
(***************************************************************************)
PublishedIsStable == [][published => published' /\ part' = part]_vars

(***************************************************************************)
(* No packet sequence of a sender that sends what it announced ends the    *)
(* receiver with an unhandled rejection; a file that grows while it is     *)
(* sent can, by a write after end() or a second rename().                  *)
(***************************************************************************)
OnlyGrowthFails == process = "unhandled" => file.sent > file.nb

(***************************************************************************)
(* Whoever is still registered when the session is deleted came after the  *)
(* publication: the one who was registered at that moment was told.  (One  *)
(* whom a second caller replaced before was not.)                          *)
(***************************************************************************)
EarlyWaiterIsAnswered ==
    session = "closed" /\ completion # NoWaiter => completion \in late

(***************************************************************************)
(* A promise is resolved only for a file that is there and rejected only   *)
(* for a corrupt chunk; who is registered has no answer yet, and the only  *)
(* caller stays registered, with its timer running, until it has one.      *)
(***************************************************************************)
Callers == {w \in Waiter : wait[w] # "idle"}

AnswersAreTrue ==
    /\ \A w \in Waiter : wait[w] = "resolved" => published
    /\ \A w \in Waiter : wait[w] = "rejected" => In({"rejected"}) # {}

WaiterIsKept ==
    /\ timer \subseteq Callers
    /\ completion # NoWaiter => wait[completion] = "pending"
    /\ \A w \in Waiter :
          Callers = {w} /\ wait[w] = "pending" => completion = w /\ w \in timer

(***************************************************************************)
(* The inductive strengthening: what was written is what was counted and   *)
(* is good; a handler that got past the last chunk saw enough of them, and *)
(* a second one more than that; and nothing is written behind them.        *)
(***************************************************************************)
ReadIsHandled ==
    /\ session # "none" => read > 0
    /\ \A i \in Chunk : i < read <=> handler[i] # "unread"
PartIsCounted ==
    /\ received = Cardinality(part)
    /\ part \cap In({"unread", "writing"}) = {}
    /\ (part \cup In({"writing"})) \cap file.bad = {}
EndedIsComplete ==
    /\ published \/ Ending # {} => received >= file.nb
    /\ \A i, j \in Ending : i # j => received > file.nb
    /\ published /\ In({"ending", "renaming"}) # {} => received > file.nb
EndedIsQuiet ==
    /\ published => session = "closed" \/ In({"renamed"}) # {}
    /\ In({"renamed"}) # {} => published
    /\ Up /\ (published \/ In({"renaming", "renamed"}) # {}) => In({"writing"}) = {}

FileInv ==
    /\ TypeOK
    /\ ReadIsHandled
    /\ PartIsCounted
    /\ EndedIsComplete
    /\ EndedIsQuiet
    /\ OnlyGrowthFails
    /\ EarlyWaiterIsAnswered

IInv == FileInv /\ AnswersAreTrue /\ WaiterIsKept

(***************************************************************************)
(* Every transfer is published, unless chunks came before the session, or  *)
(* are corrupt, or fewer than announced, or none was announced (an empty   *)
(* file), or the connection or the process ended.                          *)
(***************************************************************************)
TransferEnds ==
    <>(\/ published
       \/ In({"dropped", "rejected"}) # {}
       \/ file.sent < file.nb
       \/ file.nb = 0
       \/ wire = "broken"
       \/ ~Up)

(***************************************************************************)
(* The only call of waitForCompletion() is answered, by the file, an error *)
(* or the timeout.  Of two calls one may never be: the timer of the first  *)
(* deletes the entry of the second.                                        *)
(***************************************************************************)
OnlyWaiterIsAnswered ==
    \A w \in Waiter :
        (Callers = {w}) ~> (wait[w] # "pending" \/ Callers # {w} \/ ~Up)
=============================================================================
