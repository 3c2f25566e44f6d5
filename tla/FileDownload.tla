----------------------------- MODULE FileDownload ----------------------------
(***************************************************************************)
(* What DownloadManager.download() promises its caller                     *)
(* (src/transfer/downloader.ts), whatever its workers and peers do:        *)
(* missing chunks are obtained one at a time and never lost again, the     *)
(* promise is settled once, and it is resolved only with a whole file made *)
(* of chunks that have the manifest's hashes.                              *)
(***************************************************************************)
CONSTANT
    Chunk      \* the chunks of the manifest

VARIABLES
    content,   \* what the node holds of each chunk
    verdict    \* the promise of download()

vars == <<content, verdict>>

Init ==
    /\ content \in [Chunk -> {"absent", "good", "bad"}]
    /\ verdict = "running"

(***************************************************************************)
(* A worker obtains a chunk, and may do so after the download was rejected.*)
(***************************************************************************)
Obtain(c) ==
    /\ content[c] = "absent"
    /\ content' = [content EXCEPT ![c] = "good"]
    /\ UNCHANGED verdict

(***************************************************************************)
(* The file is published: nothing is missing and nothing is corrupt.       *)
(***************************************************************************)
Resolve ==
    /\ verdict = "running"
    /\ \A c \in Chunk : content[c] = "good"
    /\ verdict' = "resolved"
    /\ UNCHANGED content

Reject ==
    /\ verdict = "running"
    /\ verdict' = "rejected"
    /\ UNCHANGED content

Next ==
    \/ \E c \in Chunk : Obtain(c)
    \/ Resolve
    \/ Reject

Spec == Init /\ [][Next]_vars
=============================================================================
