-------------------------- MODULE MCDownloadManager --------------------------
(***************************************************************************)
(* Instances of DownloadManager for TLC.                                   *)
(*                                                                         *)
(* Three workers and two peers with a key each, which hold the chunks      *)
(* between them: the races over the claims, and the wrong answers of       *)
(* several sources.                                                        *)
(***************************************************************************)
EXTENDS DownloadManager

(***************************************************************************)
(* The node holds nothing, or a corrupt copy of the last chunk: its server *)
(* stores what is pushed to it without verifying it.                       *)
(***************************************************************************)
NothingHeld == [c \in Chunk |-> "absent"]
CorruptHeld == [c \in Chunk |-> IF c = NbChunks - 1 THEN "bad" ELSE "absent"]
MayBeHeld == {NothingHeld, CorruptHeld}
NoneHeld == {NothingHeld}

(***************************************************************************)
(* Two peers with a key each.  Every way in which they may hold or lack    *)
(* the chunks between them as long as each chunk is good somewhere; or one *)
(* in which each lacks a chunk, and the first has the last chunk corrupt.  *)
(***************************************************************************)
OwnKey == [p \in Peer |-> p]
EachSomewhere ==
    {store \in [Peer -> [Chunk -> Stored]] :
        \A c \in Chunk : \E p \in Peer : store[p][c] = "good"}
Spread ==
    {[p \in Peer |-> [c \in Chunk |->
        CASE c = NbChunks - 1 -> IF p = 0 THEN "bad" ELSE "good"
          [] c < NbChunks - 1 -> IF c = p THEN "good" ELSE "absent"]]}
=============================================================================
