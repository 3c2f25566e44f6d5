------------------------ MODULE DownloadManager_proofs ------------------------
(***************************************************************************)
(* Proofs about DownloadManager, for any number of workers, peers, chunks  *)
(* and retries.                                                            *)
(***************************************************************************)
EXTENDS DownloadManager, FiniteSetTheorems, TLAPS

(***************************************************************************)
(* What one turn of the worker's loop does to the worker's state.          *)
(***************************************************************************)
Rests(w, q) ==
    /\ pc' = [pc EXCEPT ![w] = q]
    /\ chunk' = [chunk EXCEPT ![w] = NoChunk]
    /\ wire' = [wire EXCEPT ![w] = "none"]

Takes(w, c, q, x) ==
    /\ pc' = [pc EXCEPT ![w] = q]
    /\ chunk' = [chunk EXCEPT ![w] = c]
    /\ wire' = [wire EXCEPT ![w] = x]
    /\ q \in {"connecting", "requesting"}
    /\ q = "requesting" => sock[w] # NoPeer
    /\ x \in {"none", "CHUNK_REQ"}

(***************************************************************************)
(* One turn of the loop either leaves or sleeps with the claims it was     *)
(* given, or takes the next unclaimed chunk and records the claim.         *)
(***************************************************************************)
LEMMA LoopTurnCases ==
    ASSUME NEW w \in Worker, NEW pend, NEW claimed,
           LoopTurn(w, pend, claimed)
    PROVE  \/ /\ pend = {}
              /\ Rests(w, "leaving")
              /\ inProgress' = claimed
           \/ /\ Rests(w, "idle")
              /\ inProgress' = claimed
           \/ \E c \in Chunk : \E q, x :
                 /\ c \in pend \ claimed
                 /\ Takes(w, c, q, x)
                 /\ inProgress' = claimed \cup {c}
<1>1. CASE LeaveLoop(w, pend, claimed)
  BY <1>1 DEF LeaveLoop, Rests
<1>2. CASE AwaitClaim(w, pend, claimed)
  BY <1>2 DEF AwaitClaim, Rests
<1>3. ASSUME NEW c \in Chunk, TakeChunk(w, c, pend, claimed)
      PROVE  \E q, x : /\ c \in pend \ claimed
                       /\ Takes(w, c, q, x)
                       /\ inProgress' = claimed \cup {c}
  <2>1. CASE sock[w] = NoPeer
    <3>1. Takes(w, c, "connecting", "none")
      BY <1>3, <2>1 DEF TakeChunk, Takes
    <3> QED
      BY <1>3, <3>1 DEF TakeChunk, IsNextChunk
  <2>2. CASE sock[w] # NoPeer
    <3>1. Takes(w, c, "requesting", "CHUNK_REQ")
      BY <1>3, <2>2 DEF TakeChunk, Takes
    <3> QED
      BY <1>3, <3>1 DEF TakeChunk, IsNextChunk
  <2> QED
    BY <2>1, <2>2
<1> QED
  BY <1>1, <1>2, <1>3 DEF LoopTurn

(***************************************************************************)
(* The peers that nextPeer() and download() choose are peers of the list:  *)
(* the cursor wraps round within it.                                       *)
(***************************************************************************)
LEMMA PeerNat ==
    /\ 0 \in Peer
    /\ \A k \in Peer : (k + 1) % NPeers \in Peer
    /\ \A w \in Worker : FirstPeer(w) \in Peer
BY SizeAssumption DEF Peer, Worker, FirstPeer

-----------------------------------------------------------------------------
(***************************************************************************)
(* The part of TypeOK that one turn of the loop touches.                   *)
(***************************************************************************)
WorkerTypeOK ==
    /\ inProgress \subseteq Chunk
    /\ pc \in [Worker -> PC]
    /\ chunk \in [Worker -> Chunk \cup {NoChunk}]
    /\ wire \in [Worker -> Packet]
    /\ \A w \in Worker : Busy(w) => chunk[w] \in Chunk
    /\ \A w \in Worker : pc[w] = "requesting" => sock[w] \in Peer

(***************************************************************************)
(* One turn of the loop keeps the types of what it changes.                *)
(***************************************************************************)
LEMMA LoopTurnType ==
    ASSUME TypeOK,
           NEW w \in Worker,
           NEW pend, NEW claimed \in SUBSET Chunk,
           LoopTurn(w, pend, claimed),
           sock' = sock
    PROVE  WorkerTypeOK'
<1> USE DEF TypeOK, WorkerTypeOK, Busy, Fetching, PC, Packet
<1>1. ASSUME NEW q \in {"leaving", "idle"}, Rests(w, q), inProgress' = claimed
      PROVE  WorkerTypeOK'
  BY <1>1 DEF Rests
<1>2. ASSUME NEW c \in Chunk, NEW q, NEW x,
             Takes(w, c, q, x), inProgress' = claimed \cup {c}
      PROVE  WorkerTypeOK'
  BY <1>2 DEF Takes
<1> QED
  BY <1>1, <1>2, LoopTurnCases

(***************************************************************************)
(* The constructor gives every variable its type.                          *)
(***************************************************************************)
LEMMA InitTypeOK == Init => TypeOK
<1> SUFFICES ASSUME Init PROVE TypeOK
  OBVIOUS
<1>1. completed \in [Chunk -> Stored] /\ chunkStore \in [Peer -> [Chunk -> Stored]]
  BY ContentAssumption DEF Init
<1>2. pushes \in 0 .. MaxPushes
  BY SizeAssumption DEF Init
<1>3. peer \in [Worker -> Peer] /\ cursor \in Peer
  BY PeerNat DEF Init
<1> QED
  BY <1>1, <1>2, <1>3
     DEF Init, TypeOK, PC, Packet, Outcome, Busy, Fetching

(***************************************************************************)
(* Every step keeps every variable's type: one case per action.            *)
(***************************************************************************)
LEMMA NextTypeOK == TypeOK /\ [Next]_vars => TypeOK'
<1> SUFFICES ASSUME TypeOK, [Next]_vars PROVE TypeOK'
  OBVIOUS
<1> USE DEF local, worker, server
<1>1. ASSUME NEW w \in Worker, Wake(w) PROVE TypeOK'
  <2>1. WorkerTypeOK'
    BY <1>1, LoopTurnType DEF Wake, TypeOK
  <2> QED
    BY <1>1, <2>1 DEF Wake, TypeOK, WorkerTypeOK
<1>2. ASSUME NEW w \in Worker, ConnectOk(w) PROVE TypeOK'
  BY <1>2 DEF ConnectOk, TypeOK, PC, Packet, Busy, Fetching
<1>3. ASSUME NEW w \in Worker, ConnectFails(w) PROVE TypeOK'
  BY <1>3 DEF ConnectFails, EnterCatch, TypeOK, PC, Packet, Busy, Fetching
<1>4. ASSUME NEW w \in Worker, RequestFails(w) PROVE TypeOK'
  BY <1>4 DEF RequestFails, EnterCatch, TypeOK, PC, Packet, Busy, Fetching
<1>5. ASSUME NEW w \in Worker, ReceiveUnusable(w) PROVE TypeOK'
  BY <1>5 DEF ReceiveUnusable, EnterCatch, TypeOK, PC, Packet, Busy, Fetching
<1>6. ASSUME NEW w \in Worker, ReceiveGood(w) PROVE TypeOK'
  <2>1. WorkerTypeOK'
    BY <1>6, LoopTurnType DEF ReceiveGood, TypeOK
  <2>2. peer' \in [Worker -> Peer] /\ cursor' \in Peer
    BY <1>6, PeerNat DEF ReceiveGood, NextPeer, TypeOK
  <2>3. completed' \in [Chunk -> Stored] /\ failures' \in [Chunk -> Nat]
    BY <1>6 DEF ReceiveGood, TypeOK, Stored, Content, Busy, Fetching
  <2> QED
    BY <1>6, <2>1, <2>2, <2>3 DEF ReceiveGood, TypeOK, WorkerTypeOK
<1>7. ASSUME NEW w \in Worker, RetryBadHash(w) PROVE TypeOK'
  <2>1. WorkerTypeOK'
    BY <1>7, LoopTurnType DEF RetryBadHash, TypeOK, Busy, Fetching
  <2>2. failures' \in [Chunk -> Nat]
    BY <1>7 DEF RetryBadHash, TypeOK, Busy, Fetching
  <2> QED
    BY <1>7, <2>1, <2>2 DEF RetryBadHash, TypeOK, WorkerTypeOK
<1>8. ASSUME NEW w \in Worker, ThrowBadHash(w) PROVE TypeOK'
  BY <1>8 DEF ThrowBadHash, EnterCatch, TypeOK, PC, Packet, Busy, Fetching
<1>9. ASSUME NEW w \in Worker, GiveBack(w) PROVE TypeOK'
  <2>1. peer' \in [Worker -> Peer] /\ cursor' \in Peer
    BY <1>9, PeerNat DEF GiveBack, NextPeer, TypeOK
  <2>2. failures' \in [Chunk -> Nat]
    BY <1>9 DEF GiveBack, Caught, TypeOK, Busy, Fetching
  <2> QED
    BY <1>9, <2>1, <2>2 DEF GiveBack, Caught, TypeOK, PC, Busy, Fetching
<1>10. ASSUME NEW w \in Worker, GiveUp(w) PROVE TypeOK'
  <2>1. failures' \in [Chunk -> Nat]
    BY <1>10 DEF GiveUp, Caught, TypeOK, Busy, Fetching
  <2>2. outcome' \in Outcome
    BY <1>10 DEF GiveUp, Outcome, TypeOK
  <2> QED
    BY <1>10, <2>1, <2>2 DEF GiveUp, Caught, TypeOK, PC, Busy, Fetching
<1>11. ASSUME NEW w \in Worker, Finish(w) PROVE TypeOK'
  BY <1>11 DEF Finish, TypeOK, PC, Busy, Fetching
<1>12. ASSUME Reassemble PROVE TypeOK'
  BY <1>12
     DEF Reassemble, StartReassembly, Resolve, ReassemblyFails, TypeOK, Outcome,
         Busy, Fetching
<1>13. ASSUME NEW w \in Worker, SocketDestroyed(w) PROVE TypeOK'
  BY <1>13 DEF SocketDestroyed, TypeOK, Busy, Fetching
<1>14. ASSUME NEW w \in Worker, HandleChunkReq(w) PROVE TypeOK'
  <2>1. chunkStore[sock[w]][chunk[w]] \in Stored
    BY <1>14 DEF HandleChunkReq, TypeOK, Busy, Fetching
  <2>2. wire' \in [Worker -> Packet]
    BY <1>14, <2>1 DEF HandleChunkReq, TypeOK, Packet, Stored
  <2> QED
    BY <1>14, <2>2 DEF HandleChunkReq, TypeOK, Busy, Fetching
<1>15. ASSUME NEW p \in Peer, NEW c \in Chunk, NEW content \in Content,
              StoreChunk(p, c, content)
       PROVE  TypeOK'
  <2>1. pushes' \in 0 .. MaxPushes
    BY <1>15, SizeAssumption DEF StoreChunk, TypeOK
  <2> QED
    BY <1>15, <2>1 DEF StoreChunk, TypeOK, Stored, Busy, Fetching
<1>16. CASE UNCHANGED vars
  BY <1>16 DEF vars, TypeOK, Busy, Fetching
<1> QED
  BY <1>1, <1>2, <1>3, <1>4, <1>5, <1>6, <1>7, <1>8, <1>9, <1>10, <1>11,
     <1>12, <1>13, <1>14, <1>15, <1>16
     DEF Next, WorkerStep, Environment

(***************************************************************************)
(* Every variable keeps its type, and a worker that has a chunk or waits   *)
(* for a reply knows which chunk and has a socket to a peer.               *)
(***************************************************************************)
THEOREM TypeCorrect == Spec => []TypeOK
<1>1. Init => TypeOK
  BY InitTypeOK
<1>2. TypeOK /\ [Next]_vars => TypeOK'
  BY NextTypeOK
<1> QED
  BY <1>1, <1>2, PTL DEF Spec

-----------------------------------------------------------------------------
(***************************************************************************)
(* The steps of a worker other than w leave it as it is.                   *)
(***************************************************************************)
LEMMA RestsElsewhere ==
    ASSUME TypeOK, NEW w \in Worker, NEW q, Rests(w, q)
    PROVE  /\ pc'[w] = q
           /\ \A v \in Worker \ {w} : /\ pc'[v] = pc[v]
                                      /\ chunk'[v] = chunk[v]
                                      /\ Fetching(v)' = Fetching(v)
                                      /\ Busy(v)' = Busy(v)
BY DEF TypeOK, Rests, Fetching, Busy

(***************************************************************************)
(* The same when w takes chunk c: w then fetches it, and the other workers *)
(* are as they were.                                                       *)
(***************************************************************************)
LEMMA TakesElsewhere ==
    ASSUME TypeOK, NEW w \in Worker, NEW c, NEW q, NEW x, Takes(w, c, q, x)
    PROVE  /\ pc'[w] = q
           /\ Fetching(w)'
           /\ Busy(w)'
           /\ chunk'[w] = c
           /\ \A v \in Worker \ {w} : /\ pc'[v] = pc[v]
                                      /\ chunk'[v] = chunk[v]
                                      /\ Fetching(v)' = Fetching(v)
                                      /\ Busy(v)' = Busy(v)
BY DEF TypeOK, Takes, Fetching, Busy

(***************************************************************************)
(* One turn of worker w's loop establishes Bookkeeping when the other      *)
(* workers' part of it holds of the sets it is given.                      *)
(***************************************************************************)
LEMMA LoopTurnBookkeeping ==
    ASSUME TypeOK, Bookkeeping,
           NEW w \in Worker,
           NEW pend \in SUBSET pending, NEW claimed \in SUBSET pend,
           LoopTurn(w, pend, claimed),
           pending' = pend,
           pend = {c \in Chunk : completed'[c] = "absent"},
           \A c \in claimed : \E v \in Worker \ {w} : Busy(v) /\ chunk[v] = c,
           \A v \in Worker \ {w} : Busy(v) => completed'[chunk[v]] # "bad",
           outcome' = outcome,
           outcome = "resolved" => completed' = completed
    PROVE  Bookkeeping'
<1>1. ASSUME NEW q \in {"leaving", "idle"}, Rests(w, q), inProgress' = claimed,
             q = "leaving" => pend = {}
      PROVE  Bookkeeping'
  <2>1. \A c \in inProgress' : \E v \in Worker : (Busy(v) /\ chunk[v] = c)'
    BY <1>1, RestsElsewhere
  <2>2. \A v \in Worker : pc'[v] \in {"leaving", "done"} => pending' = {}
    BY <1>1, RestsElsewhere DEF Bookkeeping
  <2>3. \A v \in Worker : Busy(v)' => completed'[chunk'[v]] # "bad"
    BY <1>1, RestsElsewhere DEF Busy, Fetching
  <2> QED
    BY <1>1, <2>1, <2>2, <2>3 DEF Bookkeeping
<1>2. ASSUME NEW c \in Chunk, NEW q, NEW x, c \in pend \ claimed,
             Takes(w, c, q, x), inProgress' = claimed \cup {c}
      PROVE  Bookkeeping'
  <2>1. \A d \in inProgress' : \E v \in Worker : (Busy(v) /\ chunk[v] = d)'
    BY <1>2, TakesElsewhere
  <2>2. \A v \in Worker : pc'[v] \in {"leaving", "done"} => pending' = {}
    BY <1>2, TakesElsewhere DEF Bookkeeping, Takes
  <2>3. \A v \in Worker : Busy(v)' => completed'[chunk'[v]] # "bad"
    BY <1>2, TakesElsewhere
  <2> QED
    BY <1>2, <2>1, <2>2, <2>3 DEF Bookkeeping
<1> QED
  BY <1>1, <1>2, LoopTurnCases

SpentNext(c) == failures'[c] >= MaxRetries \/ c \notin pending'

(***************************************************************************)
(* The same for Claims: the chunk that w takes has no other worker at it,  *)
(* but for one in its catch block that lost its claim on it.               *)
(***************************************************************************)
LEMMA LoopTurnClaims ==
    ASSUME TypeOK,
           NEW w \in Worker,
           NEW pend, NEW claimed,
           LoopTurn(w, pend, claimed),
           \A v \in Worker \ {w} : Fetching(v) => chunk[v] \in claimed,
           \A v \in Worker \ {w} :
               pc[v] = "closing" => chunk[v] \in claimed \/ SpentNext(chunk[v]),
           \A u, v \in Worker \ {w} :
               u # v /\ Busy(u) /\ Busy(v) /\ chunk[u] = chunk[v] =>
                   SpentNext(chunk[u]) /\ ~(Fetching(u) /\ Fetching(v))
    PROVE  Claims'
<1>1. ASSUME NEW q \in {"leaving", "idle"}, Rests(w, q), inProgress' = claimed
      PROVE  Claims'
  <2>1. ~Busy(w)' /\ ~Fetching(w)' /\ pc'[w] # "closing"
    BY <1>1, RestsElsewhere DEF Busy, Fetching
  <2>2. \A v \in Worker : Fetching(v)' => chunk'[v] \in inProgress'
    BY <1>1, <2>1, RestsElsewhere
  <2>3. \A v \in Worker :
           pc'[v] = "closing" => chunk'[v] \in inProgress' \/ SpentNext(chunk'[v])
    BY <1>1, <2>1, RestsElsewhere
  <2>4. \A u, v \in Worker :
           u # v /\ Busy(u)' /\ Busy(v)' /\ chunk'[u] = chunk'[v] =>
               SpentNext(chunk'[u]) /\ ~(Fetching(u)' /\ Fetching(v)')
    BY <1>1, <2>1, RestsElsewhere
  <2> QED
    BY <2>2, <2>3, <2>4 DEF Claims, Spent, SpentNext
<1>2. ASSUME NEW c \in Chunk, NEW q, NEW x, c \in pend \ claimed,
             Takes(w, c, q, x), inProgress' = claimed \cup {c}
      PROVE  Claims'
  <2>1. pc'[w] # "closing"
    <3>1. pc'[w] = q
      BY <1>2, TakesElsewhere
    <3> QED
      BY <3>1, <1>2 DEF Takes
  <2>2. \A v \in Worker : Fetching(v)' => chunk'[v] \in inProgress'
    BY <1>2, TakesElsewhere
  <2>3. \A v \in Worker :
           pc'[v] = "closing" => chunk'[v] \in inProgress' \/ SpentNext(chunk'[v])
    BY <1>2, <2>1, TakesElsewhere
  <2>4. \A v \in Worker \ {w} :
           Busy(v)' /\ chunk'[v] = c => SpentNext(c) /\ ~Fetching(v)'
    BY <1>2, TakesElsewhere DEF Busy
  <2>5. \A u, v \in Worker :
           u # v /\ Busy(u)' /\ Busy(v)' /\ chunk'[u] = chunk'[v] =>
               SpentNext(chunk'[u]) /\ ~(Fetching(u)' /\ Fetching(v)')
    <3> SUFFICES ASSUME NEW u \in Worker, NEW v \in Worker, u # v,
                        Busy(u)', Busy(v)', chunk'[u] = chunk'[v]
                 PROVE  SpentNext(chunk'[u]) /\ ~(Fetching(u)' /\ Fetching(v)')
      OBVIOUS
    <3>1. CASE u = w
      BY <3>1, <2>4, <1>2, TakesElsewhere
    <3>2. CASE v = w
      BY <3>2, <2>4, <1>2, TakesElsewhere
    <3>3. CASE u # w /\ v # w
      BY <3>3, <1>2, TakesElsewhere
    <3> QED
      BY <3>1, <3>2, <3>3
  <2> QED
    BY <2>2, <2>3, <2>5 DEF Claims, Spent, SpentNext
<1> QED
  BY <1>1, <1>2, LoopTurnCases

-----------------------------------------------------------------------------
(***************************************************************************)
(* When download() is called, pendingChunks is what completedChunks lacks  *)
(* and there are no claims.                                                *)
(***************************************************************************)
LEMMA InitBookkeeping == Init => Bookkeeping /\ Claims
BY DEF Init, Bookkeeping, Claims, Busy, Fetching

(***************************************************************************)
(* Every step keeps Bookkeeping: the steps of the loop through             *)
(* LoopTurnBookkeeping, the catch block because it releases only its own   *)
(* claim.                                                                  *)
(***************************************************************************)
LEMMA NextBookkeeping ==
    TypeOK /\ Bookkeeping /\ [Next]_vars => Bookkeeping'
<1> SUFFICES ASSUME TypeOK, Bookkeeping, [Next]_vars PROVE Bookkeeping'
  OBVIOUS
<1> USE DEF local, worker, server
<1>1. ASSUME NEW w \in Worker, Wake(w) PROVE Bookkeeping'
  <2>1. \A c \in inProgress : \E v \in Worker \ {w} : Busy(v) /\ chunk[v] = c
    BY <1>1 DEF Bookkeeping, Wake, Busy, Fetching
  <2>2. /\ pending' = pending /\ completed' = completed /\ outcome' = outcome
        /\ LoopTurn(w, pending, inProgress)
    BY <1>1 DEF Wake
  <2>3. /\ pending = {c \in Chunk : completed'[c] = "absent"}
        /\ inProgress \in SUBSET pending
        /\ \A v \in Worker \ {w} : Busy(v) => completed'[chunk[v]] # "bad"
    BY <2>2 DEF Bookkeeping
  <2> QED
    BY <2>1, <2>2, <2>3, LoopTurnBookkeeping
<1>2. ASSUME NEW w \in Worker, ReceiveGood(w) PROVE Bookkeeping'
  <2> DEFINE c == chunk[w]
             pend == pending \ {c}
             claimed == inProgress \ {c}
  <2>1. /\ c \in Chunk
        /\ completed' = [completed EXCEPT ![c] = "good"]
        /\ pending' = pend /\ outcome' = outcome
        /\ LoopTurn(w, pend, claimed)
    BY <1>2 DEF ReceiveGood, TypeOK, Busy, Fetching
  <2>2. /\ pend = {d \in Chunk : completed'[d] = "absent"}
        /\ pend \in SUBSET pending /\ claimed \in SUBSET pend
    BY <2>1 DEF Bookkeeping, TypeOK
  <2>3. \A d \in claimed : \E v \in Worker \ {w} : Busy(v) /\ chunk[v] = d
    BY DEF Bookkeeping
  <2>4. \A v \in Worker \ {w} : Busy(v) => completed'[chunk[v]] # "bad"
    BY <2>1 DEF Bookkeeping, TypeOK
  <2>5. outcome = "resolved" => completed' = completed
    BY <2>1 DEF Bookkeeping, TypeOK
  <2> HIDE DEF c, pend, claimed
  <2> QED
    BY <2>1, <2>2, <2>3, <2>4, <2>5, LoopTurnBookkeeping
<1>3. ASSUME NEW w \in Worker, RetryBadHash(w) PROVE Bookkeeping'
  <2> DEFINE claimed == inProgress \ {chunk[w]}
  <2>1. /\ completed' = completed /\ pending' = pending /\ outcome' = outcome
        /\ LoopTurn(w, pending, claimed)
    BY <1>3 DEF RetryBadHash
  <2>2. /\ pending = {d \in Chunk : completed'[d] = "absent"}
        /\ claimed \in SUBSET pending
        /\ \A v \in Worker \ {w} : Busy(v) => completed'[chunk[v]] # "bad"
    BY <2>1 DEF Bookkeeping
  <2>3. \A d \in claimed : \E v \in Worker \ {w} : Busy(v) /\ chunk[v] = d
    BY DEF Bookkeeping
  <2> HIDE DEF claimed
  <2> QED
    BY <2>1, <2>2, <2>3, LoopTurnBookkeeping
<1>4. ASSUME NEW w \in Worker, ConnectOk(w) PROVE Bookkeeping'
  BY <1>4 DEF ConnectOk, TypeOK, Bookkeeping, Busy, Fetching
<1>5. ASSUME NEW w \in Worker,
             ConnectFails(w) \/ RequestFails(w) \/ ReceiveUnusable(w)
      PROVE  Bookkeeping'
  <2>1. /\ Busy(w)
        /\ pc' = [pc EXCEPT ![w] = "closing"]
        /\ UNCHANGED <<pending, inProgress, completed, chunk, outcome>>
    BY <1>5 DEF ConnectFails, RequestFails, ReceiveUnusable, EnterCatch, Busy,
                Fetching
  <2>2. \A v \in Worker : Busy(v)' <=> Busy(v)
    BY <2>1 DEF TypeOK, Busy, Fetching
  <2>3. \A v \in Worker : pc'[v] \in {"leaving", "done"} => pending' = {}
    BY <2>1 DEF Bookkeeping, TypeOK
  <2> QED
    BY <2>1, <2>2, <2>3 DEF Bookkeeping
<1>6. ASSUME NEW w \in Worker, ThrowBadHash(w) PROVE Bookkeeping'
  BY <1>6 DEF ThrowBadHash, EnterCatch, TypeOK, Bookkeeping, Busy, Fetching
<1>7. ASSUME NEW w \in Worker, GiveBack(w) \/ GiveUp(w) PROVE Bookkeeping'
  <2>1. /\ inProgress' = inProgress \ {chunk[w]}
        /\ chunk' = [chunk EXCEPT ![w] = NoChunk]
        /\ \E q \in {"idle", "failed"} : pc' = [pc EXCEPT ![w] = q]
        /\ pending' = pending /\ completed' = completed
        /\ outcome' \in {outcome, "rejected"}
    BY <1>7 DEF GiveBack, GiveUp, Caught
  <2>2. \A v \in Worker : /\ Busy(v)' => v # w /\ Busy(v) /\ chunk'[v] = chunk[v]
                          /\ Busy(v) /\ v # w => Busy(v)' /\ chunk'[v] = chunk[v]
    BY <2>1 DEF TypeOK, Busy, Fetching
  <2>3. \A c \in inProgress' : \E v \in Worker : (Busy(v) /\ chunk[v] = c)'
    BY <2>1, <2>2 DEF Bookkeeping
  <2>4. \A v \in Worker : pc'[v] \in {"leaving", "done"} => pending' = {}
    BY <2>1 DEF Bookkeeping, TypeOK
  <2> QED
    BY <2>1, <2>2, <2>3, <2>4 DEF Bookkeeping
<1>8. ASSUME NEW w \in Worker, Finish(w) PROVE Bookkeeping'
  BY <1>8 DEF Finish, TypeOK, Bookkeeping, Busy, Fetching
<1>9. ASSUME NEW w \in Worker, SocketDestroyed(w) \/ HandleChunkReq(w)
      PROVE  Bookkeeping'
  BY <1>9 DEF SocketDestroyed, HandleChunkReq, Bookkeeping, Busy, Fetching
<1>10. ASSUME NEW p \in Peer, NEW c \in Chunk, NEW content \in Content,
              StoreChunk(p, c, content)
       PROVE  Bookkeeping'
  BY <1>10 DEF StoreChunk, Bookkeeping, Busy, Fetching
<1>11. CASE StartReassembly
  <2>1. pending = {}
    BY <1>11, SizeAssumption DEF StartReassembly, Bookkeeping, Worker
  <2> QED
    BY <1>11, <2>1 DEF StartReassembly, Bookkeeping, Busy, Fetching
<1>12. CASE Resolve \/ ReassemblyFails
  BY <1>12 DEF Resolve, ReassemblyFails, Bookkeeping, Busy, Fetching
<1>13. CASE UNCHANGED vars
  BY <1>13 DEF vars, Bookkeeping, Busy, Fetching
<1> QED
  BY <1>1, <1>2, <1>3, <1>4, <1>5, <1>6, <1>7, <1>8, <1>9, <1>10, <1>11,
     <1>12, <1>13
     DEF Next, WorkerStep, Reassemble, Environment

(***************************************************************************)
(* Every step after which no worker has failed keeps Claims: a claim is    *)
(* released by the worker that holds it, or by one whose chunk is spent.   *)
(***************************************************************************)
LEMMA NextClaims ==
    /\ TypeOK /\ Bookkeeping /\ (NoWorkerFailed => Claims)
    /\ [Next]_vars
    => (NoWorkerFailed => Claims)'
<1> SUFFICES ASSUME TypeOK, Bookkeeping, NoWorkerFailed => Claims, [Next]_vars,
                    NoWorkerFailed'
             PROVE  Claims'
  OBVIOUS
<1> USE DEF local, worker, server
<1>a. NoWorkerFailed
  <2> SUFFICES ASSUME NEW u \in Worker, pc[u] = "failed" PROVE pc'[u] = "failed"
    BY DEF NoWorkerFailed
  <2>1. ASSUME NEW w \in Worker, NEW pend, NEW claimed, pc[w] # "failed",
               LoopTurn(w, pend, claimed)
        PROVE  pc'[u] = "failed"
    BY <2>1, LoopTurnCases DEF Rests, Takes, TypeOK
  <2>2. ASSUME NEW w \in Worker, Wake(w) \/ ReceiveGood(w) \/ RetryBadHash(w)
        PROVE  pc'[u] = "failed"
    BY <2>1, <2>2 DEF Wake, ReceiveGood, RetryBadHash
  <2>3. ASSUME NEW w \in Worker,
               \/ ConnectOk(w) \/ ConnectFails(w) \/ RequestFails(w)
               \/ ReceiveUnusable(w) \/ ThrowBadHash(w) \/ GiveBack(w)
               \/ GiveUp(w) \/ Finish(w)
        PROVE  pc'[u] = "failed"
    BY <2>3 DEF ConnectOk, ConnectFails, RequestFails, ReceiveUnusable,
                ThrowBadHash, GiveBack, GiveUp, Finish, EnterCatch, Caught,
                TypeOK
  <2>4. CASE Reassemble \/ Environment \/ UNCHANGED vars
    BY <2>4 DEF Reassemble, StartReassembly, Resolve, ReassemblyFails,
                Environment, SocketDestroyed, HandleChunkReq, StoreChunk, vars
  <2> QED
    BY <2>2, <2>3, <2>4 DEF Next, WorkerStep
<1>b. Claims
  BY <1>a
<1>1. ASSUME NEW w \in Worker, Wake(w) PROVE Claims'
  <2>1. /\ pending' = pending /\ failures' = failures
        /\ LoopTurn(w, pending, inProgress)
    BY <1>1 DEF Wake
  <2>2. \A c : Spent(c) => SpentNext(c)
    BY <2>1 DEF Spent, SpentNext
  <2> QED
    BY <1>b, <2>1, <2>2, LoopTurnClaims DEF Claims
<1>2. ASSUME NEW w \in Worker, ReceiveGood(w) PROVE Claims'
  <2> DEFINE c == chunk[w]
  <2>1. /\ c \in Chunk
        /\ Fetching(w) /\ Busy(w)
        /\ failures' = [failures EXCEPT ![c] = 0]
        /\ pending' = pending \ {c}
        /\ LoopTurn(w, pending \ {c}, inProgress \ {c})
    BY <1>2 DEF ReceiveGood, TypeOK, Busy, Fetching
  <2>2. \A d : Spent(d) \/ d = c => SpentNext(d)
    BY <2>1 DEF Spent, SpentNext, TypeOK
  <2>3. \A v \in Worker \ {w} : Fetching(v) => chunk[v] \in inProgress \ {c}
    BY <1>b, <2>1 DEF Claims, Busy
  <2>4. \A v \in Worker \ {w} :
           pc[v] = "closing" => chunk[v] \in inProgress \ {c} \/ SpentNext(chunk[v])
    BY <1>b, <2>2 DEF Claims
  <2> QED
    BY <1>b, <2>1, <2>2, <2>3, <2>4, LoopTurnClaims DEF Claims
<1>3. ASSUME NEW w \in Worker, RetryBadHash(w) PROVE Claims'
  <2> DEFINE c == chunk[w]
  <2>1. /\ c \in Chunk
        /\ Fetching(w) /\ Busy(w)
        /\ failures' = [failures EXCEPT ![c] = @ + 1]
        /\ failures[c] + 1 < MaxRetries
        /\ pending' = pending
        /\ LoopTurn(w, pending, inProgress \ {c})
    BY <1>3 DEF RetryBadHash, TypeOK, Busy, Fetching
  <2>2. \A v \in Worker : Busy(v) /\ Spent(chunk[v]) => SpentNext(chunk[v])
    BY <2>1, SizeAssumption DEF Spent, SpentNext, TypeOK
  <2>3. \A v \in Worker \ {w} : Busy(v) => chunk[v] # c
    <3>1. c \in pending /\ failures[c] < MaxRetries
      BY <1>b, <2>1, SizeAssumption DEF Claims, Bookkeeping, TypeOK
    <3> QED
      BY <1>b, <2>1, <3>1, SizeAssumption DEF Claims, Spent, TypeOK
  <2>4. \A v \in Worker \ {w} : Fetching(v) => chunk[v] \in inProgress \ {c}
    BY <1>b, <2>3 DEF Claims, Busy
  <2>5. \A v \in Worker \ {w} :
           pc[v] = "closing" => chunk[v] \in inProgress \ {c} \/ SpentNext(chunk[v])
    BY <1>b, <2>2, <2>3 DEF Claims, Busy
  <2> QED
    BY <1>b, <2>1, <2>2, <2>4, <2>5, LoopTurnClaims DEF Claims
<1>4. ASSUME NEW w \in Worker, ConnectOk(w) PROVE Claims'
  BY <1>4, <1>b DEF ConnectOk, TypeOK, Claims, Spent, Busy, Fetching
<1>5. ASSUME NEW w \in Worker,
             ConnectFails(w) \/ RequestFails(w) \/ ReceiveUnusable(w)
      PROVE  Claims'
  BY <1>5, <1>b
     DEF ConnectFails, RequestFails, ReceiveUnusable, EnterCatch, TypeOK,
         Claims, Spent, Busy, Fetching
<1>6. ASSUME NEW w \in Worker, ThrowBadHash(w) PROVE Claims'
  <2> DEFINE c == chunk[w]
  <2>1. /\ c \in Chunk
        /\ Fetching(w) /\ Busy(w)
        /\ failures' = [failures EXCEPT ![c] = @ + 1]
        /\ failures[c] + 1 >= MaxRetries
        /\ pending' = pending /\ chunk' = chunk
        /\ inProgress' = inProgress \ {c}
        /\ pc' = [pc EXCEPT ![w] = "closing"]
    BY <1>6 DEF ThrowBadHash, EnterCatch, TypeOK, Busy, Fetching
  <2>2. \A d \in Chunk : Spent(d) \/ d = c => SpentNext(d)
    BY <2>1, SizeAssumption DEF Spent, SpentNext, TypeOK
  <2>3. \A v \in Worker : /\ Busy(v)' <=> Busy(v)
                          /\ Fetching(v)' <=> Fetching(v) /\ v # w
                          /\ pc'[v] = "closing" <=> pc[v] = "closing" \/ v = w
                          /\ Busy(v) => chunk[v] \in Chunk
    BY <2>1 DEF TypeOK, Busy, Fetching
  <2>4. \A v \in Worker : Fetching(v)' => chunk'[v] \in inProgress'
    BY <1>b, <2>1, <2>3 DEF Claims, Busy
  <2>5. \A v \in Worker :
           pc'[v] = "closing" => chunk'[v] \in inProgress' \/ SpentNext(chunk'[v])
    BY <1>b, <2>1, <2>2, <2>3 DEF Claims, Busy
  <2>6. \A u, v \in Worker :
           u # v /\ Busy(u)' /\ Busy(v)' /\ chunk'[u] = chunk'[v] =>
               SpentNext(chunk'[u]) /\ ~(Fetching(u)' /\ Fetching(v)')
    BY <1>b, <2>1, <2>2, <2>3 DEF Claims
  <2> QED
    BY <2>4, <2>5, <2>6 DEF Claims, Spent, SpentNext
<1>7. ASSUME NEW w \in Worker, GiveBack(w) PROVE Claims'
  <2> DEFINE c == chunk[w]
  <2>1. /\ c \in Chunk
        /\ Busy(w)
        /\ failures' = [failures EXCEPT ![c] = @ + 1]
        /\ failures[c] + 1 < MaxRetries
        /\ pending' = pending
        /\ chunk' = [chunk EXCEPT ![w] = NoChunk]
        /\ inProgress' = inProgress \ {c}
        /\ pc' = [pc EXCEPT ![w] = "idle"]
    BY <1>7 DEF GiveBack, Caught, TypeOK, Busy, Fetching
  <2>2. \A d \in Chunk : Spent(d) => SpentNext(d)
    BY <2>1, SizeAssumption DEF Spent, SpentNext, TypeOK
  <2>3. \A v \in Worker : /\ Busy(v)' <=> Busy(v) /\ v # w
                          /\ Fetching(v)' <=> Fetching(v) /\ v # w
                          /\ pc'[v] = "closing" <=> pc[v] = "closing" /\ v # w
                          /\ Busy(v) => chunk[v] \in Chunk
                          /\ v # w => chunk'[v] = chunk[v]
    BY <1>7, <2>1 DEF GiveBack, Caught, TypeOK, Busy, Fetching
  <2>4. \A v \in Worker \ {w} : Busy(v) /\ chunk[v] = c => c \notin pending
    BY <1>b, <2>1, SizeAssumption DEF Claims, Spent, TypeOK
  <2>5. \A v \in Worker : Fetching(v)' => chunk'[v] \in inProgress'
    BY <1>b, <2>1, <2>3, <2>4 DEF Claims, Busy, Bookkeeping
  <2>6. \A v \in Worker :
           pc'[v] = "closing" => chunk'[v] \in inProgress' \/ SpentNext(chunk'[v])
    BY <1>b, <2>1, <2>2, <2>3, <2>4 DEF Claims, Busy, SpentNext
  <2>7. \A u, v \in Worker :
           u # v /\ Busy(u)' /\ Busy(v)' /\ chunk'[u] = chunk'[v] =>
               SpentNext(chunk'[u]) /\ ~(Fetching(u)' /\ Fetching(v)')
    BY <1>b, <2>1, <2>2, <2>3 DEF Claims
  <2> QED
    BY <2>5, <2>6, <2>7 DEF Claims, Spent, SpentNext
<1>8. ASSUME NEW w \in Worker, GiveUp(w) PROVE Claims'
  BY <1>8 DEF GiveUp, TypeOK, NoWorkerFailed
<1>9. ASSUME NEW w \in Worker, Finish(w) PROVE Claims'
  BY <1>9, <1>b DEF Finish, TypeOK, Claims, Spent, Busy, Fetching
<1>10. ASSUME NEW w \in Worker, SocketDestroyed(w) \/ HandleChunkReq(w)
       PROVE  Claims'
  BY <1>10, <1>b
     DEF SocketDestroyed, HandleChunkReq, Claims, Spent, Busy, Fetching
<1>11. CASE \/ Reassemble \/ UNCHANGED vars
            \/ \E p \in Peer, c \in Chunk, content \in Content :
                   StoreChunk(p, c, content)
  BY <1>11, <1>b
     DEF Reassemble, StartReassembly, Resolve, ReassemblyFails, StoreChunk,
         vars, Claims, Spent, Busy, Fetching
<1> QED
  BY <1>1, <1>2, <1>3, <1>4, <1>5, <1>6, <1>7, <1>8, <1>9, <1>10, <1>11
     DEF Next, WorkerStep, Environment

-----------------------------------------------------------------------------
(***************************************************************************)
(* The sets of workers that RetryBudget counts are finite, and no worker   *)
(* is in two of them.                                                      *)
(***************************************************************************)
LEMMA WorkerCount ==
    /\ IsFiniteSet(Worker) /\ Cardinality(Worker) = NWorkers
    /\ \A S \in SUBSET Worker : IsFiniteSet(S) /\ Cardinality(S) \in 0 .. NWorkers
    /\ \A T \in SUBSET Worker : \A S \in SUBSET T : Cardinality(S) <= Cardinality(T)
<1>1. 0 \in Int /\ NWorkers - 1 \in Int
  BY SizeAssumption
<1>2. IsFiniteSet(Worker) /\ Cardinality(Worker) = NWorkers
  BY <1>1, FS_Interval, SizeAssumption DEF Worker
<1>3. \A S \in SUBSET Worker :
         /\ IsFiniteSet(S) /\ Cardinality(S) \in Nat
         /\ Cardinality(S) <= NWorkers
  BY <1>2, FS_Subset, FS_CardinalityType
<1>4. \A T \in SUBSET Worker : \A S \in SUBSET T : Cardinality(S) <= Cardinality(T)
  BY <1>3, FS_Subset
<1> QED
  BY <1>2, <1>3, <1>4, SizeAssumption

(***************************************************************************)
(* A worker that joins a set of workers makes it larger by one.            *)
(***************************************************************************)
LEMMA OneMore ==
    ASSUME NEW S \in SUBSET Worker, NEW w \in Worker, w \notin S
    PROVE  Cardinality(S \cup {w}) = Cardinality(S) + 1
BY WorkerCount, FS_AddElement

(***************************************************************************)
(* The budget of a chunk stays when its count does not grow and nobody     *)
(* stops closing on it, or when its count is below the limit.              *)
(***************************************************************************)
Within(c) ==
    failures[c] < MaxRetries + 2 * Cardinality(GivenUp) + Cardinality(ClosingOn(c))

(***************************************************************************)
(* Within(c) is kept by a step that leaves the count of the chunk below    *)
(* the limit, or that adds no try and lets nobody stop closing on it.      *)
(***************************************************************************)
LEMMA BudgetStays ==
    ASSUME TypeOK, TypeOK', NEW c \in Chunk, Within(c),
           \/ failures'[c] < MaxRetries
           \/ /\ failures'[c] <= failures[c]
              /\ GivenUp \subseteq GivenUp'
              /\ ClosingOn(c) \subseteq ClosingOn(c)'
    PROVE  Within(c)'
<1>1. failures[c] \in Nat /\ failures'[c] \in Nat /\ MaxRetries \in Nat
  BY SizeAssumption DEF TypeOK
<1>2. /\ GivenUp \in SUBSET Worker /\ GivenUp' \in SUBSET Worker
      /\ ClosingOn(c) \in SUBSET Worker /\ ClosingOn(c)' \in SUBSET Worker
  BY DEF GivenUp, ClosingOn
<1>3. /\ Cardinality(GivenUp) \in Nat /\ Cardinality(GivenUp') \in Nat
      /\ Cardinality(ClosingOn(c)) \in Nat /\ Cardinality(ClosingOn(c)') \in Nat
  BY <1>2, WorkerCount
<1>4. CASE failures'[c] < MaxRetries
  BY <1>1, <1>3, <1>4 DEF Within
<1>5. CASE /\ failures'[c] <= failures[c]
           /\ GivenUp \subseteq GivenUp'
           /\ ClosingOn(c) \subseteq ClosingOn(c)'
  <2>1. /\ Cardinality(GivenUp) <= Cardinality(GivenUp')
        /\ Cardinality(ClosingOn(c)) <= Cardinality(ClosingOn(c)')
    BY <1>2, <1>5, WorkerCount
  <2> QED
    BY <1>1, <1>3, <1>5, <2>1 DEF Within
<1> QED
  BY <1>4, <1>5

(***************************************************************************)
(* A try is paid for: below the limit, or by the worker that now closes on *)
(* the chunk or has given up.                                              *)
(***************************************************************************)
LEMMA ThrowIsPaid ==
    ASSUME TypeOK, TypeOK', NEW w \in Worker, ThrowBadHash(w), Within(chunk[w])
    PROVE  \A c \in Chunk : c = chunk[w] => Within(c)'
<1> SUFFICES ASSUME NEW c \in Chunk, c = chunk[w] PROVE Within(c)'
  OBVIOUS
<1>1. failures[c] \in Nat /\ failures'[c] = failures[c] + 1 /\ MaxRetries \in Nat
  BY SizeAssumption DEF ThrowBadHash, TypeOK
<1>2. GivenUp' = GivenUp
  BY DEF ThrowBadHash, EnterCatch, GivenUp, TypeOK
<1>3. w \notin ClosingOn(c) /\ ClosingOn(c)' = ClosingOn(c) \cup {w}
  BY DEF ThrowBadHash, EnterCatch, ClosingOn, TypeOK
<1>4. GivenUp \in SUBSET Worker /\ ClosingOn(c) \in SUBSET Worker
  BY DEF GivenUp, ClosingOn
<1>5. Cardinality(ClosingOn(c)') = Cardinality(ClosingOn(c)) + 1
  BY <1>3, <1>4, OneMore
<1>6. Cardinality(GivenUp) \in Nat /\ Cardinality(ClosingOn(c)) \in Nat
  BY <1>4, WorkerCount
<1> QED
  BY <1>1, <1>2, <1>5, <1>6 DEF Within

(***************************************************************************)
(* The try that the catch block adds is paid for: the worker stops closing *)
(* on the chunk and has given up, which counts twice.                      *)
(***************************************************************************)
LEMMA GiveUpIsPaid ==
    ASSUME TypeOK, TypeOK', NEW w \in Worker, GiveUp(w), Within(chunk[w])
    PROVE  \A c \in Chunk : c = chunk[w] => Within(c)'
<1> SUFFICES ASSUME NEW c \in Chunk, c = chunk[w] PROVE Within(c)'
  OBVIOUS
<1>1. failures[c] \in Nat /\ failures'[c] = failures[c] + 1 /\ MaxRetries \in Nat
  BY SizeAssumption DEF GiveUp, Caught, TypeOK
<1>2. w \notin GivenUp /\ GivenUp' = GivenUp \cup {w}
  BY DEF GiveUp, Caught, GivenUp, TypeOK
<1>3. w \notin ClosingOn(c)' /\ ClosingOn(c) = ClosingOn(c)' \cup {w}
  BY DEF GiveUp, Caught, ClosingOn, TypeOK
<1>4. GivenUp \in SUBSET Worker /\ ClosingOn(c)' \in SUBSET Worker
  BY DEF GivenUp, ClosingOn
<1>5. /\ Cardinality(GivenUp') = Cardinality(GivenUp) + 1
      /\ Cardinality(ClosingOn(c)) = Cardinality(ClosingOn(c)') + 1
  BY <1>2, <1>3, <1>4, OneMore
<1>6. Cardinality(GivenUp) \in Nat /\ Cardinality(ClosingOn(c)') \in Nat
  BY <1>4, WorkerCount
<1> QED
  BY <1>1, <1>5, <1>6 DEF Within

(***************************************************************************)
(* Every step keeps the budget of every chunk.                             *)
(***************************************************************************)
LEMMA NextWithin ==
    ASSUME TypeOK, TypeOK', [Next]_vars, NEW c \in Chunk, Within(c)
    PROVE  Within(c)'
<1> USE DEF local, worker, server
<1>1. ASSUME failures'[c] <= failures[c],
             \A v \in Worker : pc[v] = "failed" => pc'[v] = "failed",
             \A v \in Worker : pc[v] = "closing" => pc'[v] = "closing" /\ chunk'[v] = chunk[v]
      PROVE  Within(c)'
  <2>1. GivenUp \subseteq GivenUp'
    BY <1>1 DEF GivenUp
  <2>2. ClosingOn(c) \subseteq ClosingOn(c)'
    BY <1>1 DEF ClosingOn
  <2> QED
    BY <1>1, <2>1, <2>2, BudgetStays
<1>2. ASSUME NEW w \in Worker, NEW pend, NEW claimed, LoopTurn(w, pend, claimed),
             pc[w] \in {"idle", "requesting"}
      PROVE  /\ \A v \in Worker : pc[v] = "failed" => pc'[v] = "failed"
             /\ \A v \in Worker : pc[v] = "closing" => pc'[v] = "closing" /\ chunk'[v] = chunk[v]
  <2>1. \A v \in Worker \ {w} : pc'[v] = pc[v] /\ chunk'[v] = chunk[v]
    BY <1>2, LoopTurnCases, RestsElsewhere, TakesElsewhere
  <2>2. pc[w] # "failed" /\ pc[w] # "closing"
    BY <1>2
  <2> QED
    BY <2>1, <2>2
<1>3. ASSUME NEW w \in Worker, Wake(w) PROVE Within(c)'
  <2>1. LoopTurn(w, pending, inProgress) /\ pc[w] \in {"idle", "requesting"}
    BY <1>3 DEF Wake
  <2>2. /\ \A v \in Worker : pc[v] = "failed" => pc'[v] = "failed"
        /\ \A v \in Worker : pc[v] = "closing" => pc'[v] = "closing" /\ chunk'[v] = chunk[v]
    BY <1>2, <2>1
  <2>3. failures'[c] <= failures[c]
    BY <1>3 DEF Wake, TypeOK
  <2> QED
    BY <1>1, <2>2, <2>3
<1>4. ASSUME NEW w \in Worker, ReceiveGood(w) \/ RetryBadHash(w) PROVE Within(c)'
  <2>1. \/ failures'[c] = 0
        \/ failures'[c] < MaxRetries
        \/ failures'[c] = failures[c] /\ c # chunk[w]
    BY <1>4 DEF ReceiveGood, RetryBadHash, TypeOK, Busy, Fetching
  <2>2. CASE failures'[c] < MaxRetries
    BY <2>2, BudgetStays
  <2>3. CASE failures'[c] = failures[c]
    <3>1. PICK pend, claimed : LoopTurn(w, pend, claimed)
      BY <1>4 DEF ReceiveGood, RetryBadHash
    <3>2. pc[w] \in {"idle", "requesting"}
      BY <1>4 DEF ReceiveGood, RetryBadHash
    <3>3. /\ \A v \in Worker : pc[v] = "failed" => pc'[v] = "failed"
          /\ \A v \in Worker : pc[v] = "closing" => pc'[v] = "closing" /\ chunk'[v] = chunk[v]
      BY <1>2, <3>1, <3>2
    <3>4. failures'[c] <= failures[c]
      BY <2>3 DEF TypeOK
    <3> QED
      BY <1>1, <3>3, <3>4
  <2> QED
    BY <2>1, <2>2, <2>3, SizeAssumption
<1>5. ASSUME NEW w \in Worker,
             \/ ConnectOk(w) \/ ConnectFails(w) \/ RequestFails(w) \/ ReceiveUnusable(w)
             \/ Finish(w) \/ SocketDestroyed(w) \/ HandleChunkReq(w)
      PROVE  Within(c)'
  BY <1>1, <1>5 DEF ConnectOk, ConnectFails, RequestFails, ReceiveUnusable, EnterCatch,
                    Finish, SocketDestroyed, HandleChunkReq, TypeOK
<1>6. ASSUME NEW w \in Worker, ThrowBadHash(w) \/ GiveBack(w) \/ GiveUp(w), c # chunk[w]
      PROVE  Within(c)'
  <2>1. failures'[c] = failures[c]
    BY <1>6 DEF ThrowBadHash, GiveBack, GiveUp, Caught, TypeOK
  <2>2. GivenUp \subseteq GivenUp'
    BY <1>6 DEF ThrowBadHash, EnterCatch, GiveBack, GiveUp, Caught, TypeOK, GivenUp
  <2>3. ClosingOn(c) \subseteq ClosingOn(c)'
    BY <1>6 DEF ThrowBadHash, EnterCatch, GiveBack, GiveUp, Caught, TypeOK, ClosingOn
  <2>4. failures'[c] <= failures[c]
    BY <2>1 DEF TypeOK
  <2> QED
    BY <2>2, <2>3, <2>4, BudgetStays
<1>7. ASSUME NEW w \in Worker, GiveBack(w), c = chunk[w] PROVE Within(c)'
  <2>1. failures'[c] < MaxRetries
    BY <1>7 DEF GiveBack, Caught, TypeOK
  <2> QED
    BY <2>1, BudgetStays
<1>8. CASE Reassemble \/ UNCHANGED vars
  BY <1>1, <1>8 DEF Reassemble, StartReassembly, Resolve, ReassemblyFails, vars, TypeOK
<1>9. ASSUME NEW p \in Peer, NEW d \in Chunk, NEW content \in Content,
             StoreChunk(p, d, content)
      PROVE  Within(c)'
  BY <1>1, <1>9 DEF StoreChunk, TypeOK
<1> QED
  BY <1>3, <1>4, <1>5, <1>6, <1>7, <1>8, <1>9, ThrowIsPaid, GiveUpIsPaid
     DEF Next, WorkerStep, Environment

(***************************************************************************)
(* A worker that has given up has rejected the download, and the chunks    *)
(* are put together only when all workers are done.                        *)
(***************************************************************************)
LEMMA NextSettled ==
    ASSUME TypeOK, RetryBudget, [Next]_vars
    PROVE  /\ GivenUp' # {} => outcome' = "rejected"
           /\ outcome' \in {"reassembling", "resolved"} => \A w \in Worker : pc'[w] = "done"
<1> USE DEF local, worker, server
<1>1. ASSUME outcome' = outcome, \A v \in Worker : pc'[v] = "failed" => pc[v] = "failed",
             \A v \in Worker : pc[v] = "done" => pc'[v] = "done"
      PROVE  /\ GivenUp' # {} => outcome' = "rejected"
             /\ outcome' \in {"reassembling", "resolved"} => \A w \in Worker : pc'[w] = "done"
  BY <1>1 DEF RetryBudget, GivenUp
<1>2. ASSUME NEW w \in Worker, NEW pend, NEW claimed, LoopTurn(w, pend, claimed),
             pc[w] \in {"idle", "requesting"}
      PROVE  /\ \A v \in Worker : pc'[v] = "failed" => pc[v] = "failed"
             /\ \A v \in Worker : pc[v] = "done" => pc'[v] = "done"
  <2>1. /\ \A v \in Worker \ {w} : pc'[v] = pc[v]
        /\ pc'[w] # "failed"
    BY <1>2, LoopTurnCases, RestsElsewhere, TakesElsewhere DEF Fetching
  <2> QED
    BY <1>2, <2>1
<1>3. ASSUME NEW w \in Worker, Wake(w) \/ ReceiveGood(w) \/ RetryBadHash(w)
      PROVE  /\ outcome' = outcome
             /\ pc[w] \in {"idle", "requesting"}
             /\ \E pend, claimed : LoopTurn(w, pend, claimed)
  BY <1>3 DEF Wake, ReceiveGood, RetryBadHash
<1>4. ASSUME NEW w \in Worker, Wake(w) \/ ReceiveGood(w) \/ RetryBadHash(w)
      PROVE  /\ GivenUp' # {} => outcome' = "rejected"
             /\ outcome' \in {"reassembling", "resolved"} => \A v \in Worker : pc'[v] = "done"
  BY <1>1, <1>2, <1>3, <1>4
<1>5. ASSUME NEW w \in Worker,
             \/ ConnectOk(w) \/ ConnectFails(w) \/ RequestFails(w) \/ ReceiveUnusable(w)
             \/ ThrowBadHash(w) \/ GiveBack(w)
             \/ Finish(w) \/ SocketDestroyed(w) \/ HandleChunkReq(w)
      PROVE  /\ GivenUp' # {} => outcome' = "rejected"
             /\ outcome' \in {"reassembling", "resolved"} => \A v \in Worker : pc'[v] = "done"
  BY <1>1, <1>5 DEF ConnectOk, ConnectFails, RequestFails, ReceiveUnusable, EnterCatch,
                    ThrowBadHash, GiveBack, Caught, Finish, SocketDestroyed,
                    HandleChunkReq, TypeOK
<1>6. ASSUME NEW w \in Worker, GiveUp(w)
      PROVE  outcome' = "rejected"
  <2>1. outcome \notin {"reassembling", "resolved"}
    BY <1>6 DEF GiveUp, Caught, RetryBudget
  <2> QED
    BY <1>6, <2>1 DEF GiveUp, TypeOK, Outcome
<1>7. CASE Reassemble
  <2>1. pc' = pc /\ outcome \in {"running", "reassembling"}
    BY <1>7 DEF Reassemble, StartReassembly, Resolve, ReassemblyFails
  <2>2. GivenUp = {}
    BY <2>1 DEF RetryBudget
  <2>3. GivenUp' = {}
    BY <2>1, <2>2 DEF GivenUp
  <2>4. outcome' \in {"reassembling", "resolved"} => \A v \in Worker : pc[v] = "done"
    BY <1>7 DEF Reassemble, StartReassembly, Resolve, ReassemblyFails, RetryBudget
  <2> QED
    BY <2>1, <2>3, <2>4
<1>8. ASSUME NEW p \in Peer, NEW d \in Chunk, NEW content \in Content,
             StoreChunk(p, d, content)
      PROVE  outcome' = outcome /\ pc' = pc
  BY <1>8 DEF StoreChunk
<1>9. UNCHANGED vars => outcome' = outcome /\ pc' = pc
  BY DEF vars
<1> QED
  BY <1>1, <1>4, <1>5, <1>6, <1>7, <1>8, <1>9 DEF Next, WorkerStep, Environment

(***************************************************************************)
(* The budget is kept.                                                     *)
(***************************************************************************)
LEMMA NextBudget ==
    ASSUME TypeOK, RetryBudget, [Next]_vars
    PROVE  RetryBudget'
<1>1. \A c \in Chunk : Within(c)
  BY DEF RetryBudget, Within
<1>2. \A c \in Chunk : Within(c)'
  BY <1>1, NextTypeOK, NextWithin
<1> QED
  BY <1>2, NextSettled DEF RetryBudget, Within

(***************************************************************************)
(* No chunk has been tried before the download begins.                     *)
(***************************************************************************)
LEMMA InitBudget == Init => RetryBudget
<1> SUFFICES ASSUME Init PROVE RetryBudget
  OBVIOUS
<1>1. GivenUp = {} /\ \A c \in Chunk : ClosingOn(c) \in SUBSET Worker
  BY DEF Init, GivenUp, ClosingOn
<1>2. Cardinality(GivenUp) = 0 /\ \A c \in Chunk : Cardinality(ClosingOn(c)) \in Nat
  BY <1>1, FS_EmptySet, WorkerCount
<1> QED
  BY <1>1, <1>2, SizeAssumption DEF Init, RetryBudget

-----------------------------------------------------------------------------
(***************************************************************************)
(* IInv is an invariant: the conjunction of the lemmas above.              *)
(***************************************************************************)
THEOREM Inductive == Spec => []IInv
<1>1. Init => IInv
  BY InitTypeOK, InitBookkeeping, InitBudget DEF IInv
<1>2. IInv /\ [Next]_vars => IInv'
  BY NextTypeOK, NextBookkeeping, NextClaims, NextBudget DEF IInv
<1> QED
  BY <1>1, <1>2, PTL DEF Spec

(***************************************************************************)
(* As long as no worker has given up, no two workers fetch the same chunk. *)
(***************************************************************************)
THEOREM Exclusive == Spec => []ExclusiveFetch
<1>1. IInv => ExclusiveFetch
  BY DEF IInv, Claims, ExclusiveFetch, Busy
<1> QED
  BY <1>1, Inductive, PTL

(***************************************************************************)
(* Every claim has a worker behind it that will release it.                *)
(***************************************************************************)
THEOREM Backed == Spec => []ClaimsAreBacked
<1>1. IInv => ClaimsAreBacked
  BY DEF IInv, Bookkeeping, ClaimsAreBacked
<1> QED
  BY <1>1, Inductive, PTL

(***************************************************************************)
(* When the workers have all returned, no chunk is missing.                *)
(***************************************************************************)
THEOREM Complete == Spec => []NoChunkMissing
<1>1. IInv => NoChunkMissing
  BY DEF IInv, Bookkeeping, NoChunkMissing
<1> QED
  BY <1>1, Inductive, PTL

(***************************************************************************)
(* download() is resolved only with chunks that were all verified.         *)
(***************************************************************************)
THEOREM Verified == Spec => []ResolvedIsVerified
<1>1. IInv => ResolvedIsVerified
  BY DEF IInv, Bookkeeping, ResolvedIsVerified
<1> QED
  BY <1>1, Inductive, PTL

(***************************************************************************)
(* The tries of a chunk are limited, and a chunk that has used them up     *)
(* ends the download.                                                      *)
(***************************************************************************)
THEOREM Bounded == Spec => []RetriesAreBounded
<1>1. IInv => RetriesAreBounded
  <2> SUFFICES ASSUME IInv, NEW c \in Chunk
               PROVE  /\ failures[c] < MaxRetries + 2 * NWorkers
                      /\ failures[c] >= MaxRetries =>
                            outcome = "rejected" \/ ClosingOn(c) # {}
    BY DEF RetriesAreBounded
  <2> DEFINE G == Cardinality(GivenUp)
             C == Cardinality(ClosingOn(c))
  <2>1. /\ failures[c] < MaxRetries + 2 * G + C
        /\ GivenUp # {} => outcome = "rejected"
        /\ failures[c] \in Nat /\ MaxRetries \in Nat /\ NWorkers \in Nat
    BY SizeAssumption DEF IInv, RetryBudget, TypeOK
  <2>2. /\ GivenUp \in SUBSET Worker /\ ClosingOn(c) \in SUBSET Worker
        /\ GivenUp \cap ClosingOn(c) = {}
    BY DEF GivenUp, ClosingOn
  <2>3. G \in Nat /\ C \in Nat /\ G + C <= NWorkers
    <3>1. IsFiniteSet(GivenUp) /\ IsFiniteSet(ClosingOn(c))
      BY <2>2, WorkerCount
    <3>2. Cardinality(GivenUp \cup ClosingOn(c)) = G + C - Cardinality({})
      BY <2>2, <3>1, FS_Union
    <3>3. Cardinality({}) = 0
      BY FS_EmptySet
    <3>4. Cardinality(GivenUp \cup ClosingOn(c)) \in 0 .. NWorkers
      BY <2>2, WorkerCount
    <3>5. G \in Nat /\ C \in Nat
      BY <2>2, WorkerCount
    <3> QED
      BY <2>1, <3>2, <3>3, <3>4, <3>5
  <2>4. G = 0 /\ C = 0 => failures[c] < MaxRetries
    BY <2>1
  <2>5. GivenUp = {} /\ ClosingOn(c) = {} => G = 0 /\ C = 0
    BY FS_EmptySet
  <2> HIDE DEF G, C
  <2>6. failures[c] < MaxRetries + 2 * NWorkers
    BY <2>1, <2>3
  <2> QED
    BY <2>1, <2>4, <2>5, <2>6
<1> QED
  BY <1>1, Inductive, PTL

(***************************************************************************)
(* The step obtains chunk c.                                               *)
(***************************************************************************)
Gains(c) ==
    /\ completed[c] = "absent"
    /\ completed' = [completed EXCEPT ![c] = "good"]

(***************************************************************************)
(* A step leaves completedChunks alone or adds one verified chunk that was *)
(* missing; the promise of download() does not change in such a step.      *)
(***************************************************************************)
LEMMA CompletedStep ==
    IInv /\ [Next]_vars =>
        completed' = completed \/ \E c \in Chunk : Gains(c) /\ outcome' = outcome
<1> SUFFICES ASSUME IInv, [Next]_vars
             PROVE  \/ completed' = completed
                    \/ \E c \in Chunk : Gains(c) /\ outcome' = outcome
  OBVIOUS
<1> USE DEF local, worker, server
<1>1. ASSUME NEW w \in Worker, ReceiveGood(w)
      PROVE  \/ completed' = completed
             \/ \E c \in Chunk : Gains(c) /\ outcome' = outcome
  <2>1. /\ chunk[w] \in Chunk
        /\ completed' = [completed EXCEPT ![chunk[w]] = "good"]
        /\ outcome' = outcome
    BY <1>1 DEF ReceiveGood, IInv, TypeOK, Busy, Fetching
  <2>2. completed[chunk[w]] \in {"absent", "good"}
    BY <1>1, <2>1
       DEF ReceiveGood, IInv, TypeOK, Bookkeeping, Busy, Fetching, Stored, Content
  <2>3. CASE completed[chunk[w]] = "absent"
    BY <2>1, <2>3 DEF Gains
  <2>4. CASE completed[chunk[w]] = "good"
    BY <2>1, <2>4 DEF IInv, TypeOK
  <2> QED
    BY <2>2, <2>3, <2>4
<1>2. CASE \E w \in Worker : WorkerStep(w) /\ ~ReceiveGood(w)
  BY <1>2 DEF WorkerStep, Wake, ConnectOk, ConnectFails, RequestFails,
              ReceiveUnusable, RetryBadHash, ThrowBadHash, GiveBack, GiveUp,
              Finish
<1>3. CASE Reassemble \/ Environment \/ UNCHANGED vars
  BY <1>3 DEF Reassemble, StartReassembly, Resolve, ReassemblyFails,
              Environment, SocketDestroyed, HandleChunkReq, StoreChunk, vars
<1> QED
  BY <1>1, <1>2, <1>3 DEF Next

(***************************************************************************)
(* completedChunks only gains verified chunks and loses none, in any step  *)
(* of any worker.                                                          *)
(***************************************************************************)
THEOREM OnlyGrows == Spec => CompletedOnlyGrows
<1> DEFINE Grows ==
      \A c \in Chunk :
          completed'[c] # completed[c] =>
              completed[c] = "absent" /\ completed'[c] = "good"
<1>1. IInv /\ [Next]_vars => [Grows]_vars
  <2> SUFFICES ASSUME IInv, [Next]_vars PROVE Grows
    OBVIOUS
  <2> QED
    BY CompletedStep DEF Gains, IInv, TypeOK
<1> QED
  BY <1>1, Inductive, PTL DEF Spec, CompletedOnlyGrows

(***************************************************************************)
(* The verdict changes only from running, and to resolved only when every  *)
(* chunk is verified; completedChunks does not change then.                *)
(***************************************************************************)
LEMMA VerdictStep ==
    IInv /\ [Next]_vars =>
        \/ Verdict' = Verdict
        \/ Verdict = "running" /\ Verdict' = "rejected" /\ completed' = completed
        \/ /\ Verdict = "running" /\ Verdict' = "resolved"
           /\ completed' = completed
           /\ \A c \in Chunk : completed[c] = "good"
<1> SUFFICES ASSUME IInv, [Next]_vars
             PROVE  \/ Verdict' = Verdict
                    \/ /\ Verdict = "running" /\ Verdict' = "rejected"
                       /\ completed' = completed
                    \/ /\ Verdict = "running" /\ Verdict' = "resolved"
                       /\ completed' = completed
                       /\ \A c \in Chunk : completed[c] = "good"
  OBVIOUS
<1> USE DEF local, worker, server
<1>1. CASE \E w \in Worker : GiveUp(w)
  BY <1>1 DEF GiveUp, Verdict
<1>2. CASE Resolve \/ ReassemblyFails
  BY <1>2 DEF Resolve, ReassemblyFails, Verdict
<1>3. CASE StartReassembly
  BY <1>3 DEF StartReassembly, Verdict
<1>4. CASE \E w \in Worker : WorkerStep(w) /\ ~GiveUp(w)
  <2>1. outcome' = outcome
    BY <1>4 DEF WorkerStep, Wake, ConnectOk, ConnectFails, RequestFails,
                ReceiveUnusable, ReceiveGood, RetryBadHash, ThrowBadHash,
                GiveBack, Finish
  <2> QED
    BY <2>1 DEF Verdict
<1>5. CASE Environment \/ UNCHANGED vars
  BY <1>5 DEF Environment, SocketDestroyed, HandleChunkReq, StoreChunk, vars,
              Verdict
<1> QED
  BY <1>1, <1>2, <1>3, <1>4, <1>5 DEF Next, Reassemble

(***************************************************************************)
(* The workers implement the abstract download of FileDownload: each step  *)
(* obtains one missing chunk, settles the promise, or changes nothing its  *)
(* caller sees.                                                            *)
(***************************************************************************)
THEOREM Implements == Spec => ImplementsFileDownload
<1>1. Init => Abstract!Init
  BY ContentAssumption DEF Init, Abstract!Init, Verdict, Stored, Content
<1>2. IInv /\ [Next]_vars => [Abstract!Next]_(Abstract!vars)
  <2> SUFFICES ASSUME IInv, [Next]_vars
               PROVE  Abstract!Next \/ UNCHANGED Abstract!vars
    OBVIOUS
  <2>1. ASSUME NEW c \in Chunk, Gains(c), outcome' = outcome
        PROVE  Abstract!Next
    <3>1. Verdict' = Verdict
      BY <2>1 DEF Verdict
    <3>2. Abstract!Obtain(c)
      BY <2>1, <3>1 DEF Gains, Abstract!Obtain
    <3> QED
      BY <3>2 DEF Abstract!Next
  <2>2. CASE completed' = completed
    BY <2>2, VerdictStep
       DEF Abstract!Next, Abstract!Resolve, Abstract!Reject, Abstract!vars
  <2> QED
    BY <2>1, <2>2, CompletedStep
<1> QED
  BY <1>1, <1>2, Inductive, PTL DEF Spec, ImplementsFileDownload, Abstract!Spec
=============================================================================
