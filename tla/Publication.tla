----------------------------- MODULE Publication -----------------------------
(***************************************************************************)
(* What reassembleFile() promises (src/transfer/chunker.ts) for a name     *)
(* whose calls do not overlap: under the name there is nothing or one      *)
(* whole file, which a call replaces by its own at the moment it resolves; *)
(* a call for which everything is in order fails only for a reason that is *)
(* not its own, and whoever fails or crashes leaves the name as it was.    *)
(***************************************************************************)
CONSTANTS
    Job,        \* the calls of reassembleFile()
    File,       \* the manifests that they may be for
    NameOf,     \* the file name of each manifest
    Content,    \* the file that each describes
    Sound,      \* manifests whose fileId is the hash of that file
    None

VARIABLES
    published,  \* the file under each name
    stage,      \* how far each call is
    file,       \* its manifest
    held        \* calls that were given every chunk, all of them good

vars == <<published, stage, file, held>>

Init ==
    /\ published = [n \in {NameOf[f] : f \in File} |-> None]
    /\ stage = [j \in Job |-> "idle"]
    /\ file = [j \in Job |-> None]
    /\ held = {}

(***************************************************************************)
(* A call begins, or is rejected at once when a chunk is missing.          *)
(***************************************************************************)
Begin(j, f, good) ==
    /\ stage[j] = "idle"
    /\ stage' = [stage EXCEPT ![j] = "running"]
    /\ file' = [file EXCEPT ![j] = f]
    /\ held' = IF good THEN held \cup {j} ELSE held
    /\ UNCHANGED published

Refuse(j, f) ==
    /\ stage[j] = "idle"
    /\ stage' = [stage EXCEPT ![j] = "failed"]
    /\ file' = [file EXCEPT ![j] = f]
    /\ UNCHANGED <<published, held>>

InOrder(j) == j \in held /\ file[j] \in Sound

Publish(j) ==
    /\ stage[j] = "running"
    /\ InOrder(j)
    /\ stage' = [stage EXCEPT ![j] = "resolved"]
    /\ published' = [published EXCEPT ![NameOf[file[j]]] = Content[file[j]]]
    /\ UNCHANGED <<file, held>>

Fail(j) ==
    /\ stage[j] = "running"
    /\ ~InOrder(j)
    /\ stage' = [stage EXCEPT ![j] = "failed"]
    /\ UNCHANGED <<published, file, held>>

(***************************************************************************)
(* The file system fails; the process crashes.                             *)
(***************************************************************************)
Break(j) ==
    /\ stage[j] = "running"
    /\ stage' = [stage EXCEPT ![j] = "ioError"]
    /\ UNCHANGED <<published, file, held>>

Crash ==
    /\ stage' = [j \in Job |-> IF stage[j] = "running" THEN "crashed" ELSE stage[j]]
    /\ UNCHANGED <<published, file, held>>

Next ==
    \/ \E j \in Job, f \in File, good \in BOOLEAN : Begin(j, f, good)
    \/ \E j \in Job, f \in File : Refuse(j, f)
    \/ \E j \in Job : Publish(j) \/ Fail(j) \/ Break(j)
    \/ Crash

Spec == Init /\ [][Next]_vars
=============================================================================
