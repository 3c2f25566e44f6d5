------------------------------- MODULE Messaging -------------------------------
(***************************************************************************)
(* Encrypted messages between nodes: sendMessage() and the MSG handler of  *)
(* ArpelNode (src/cli/node.ts), as POST /api/messages calls them.          *)
(*                                                                         *)
(* A send is one call.  It takes the caller's session key into its map,    *)
(* and then awaits the connection, the write and the closing of the        *)
(* socket; other sends, incoming packets and restarts come in between.     *)
(* Every send has a connection of its own, so that packets overtake each   *)
(* other.  The receiver tries the key it has itself for the sender, or     *)
(* the default key.  Sessions are kept in memory: a restart loses them.    *)
(*                                                                         *)
(* AES-GCM is modelled by what it promises: a packet can be read with the  *)
(* key it was encrypted with and with no other.                            *)
(***************************************************************************)
EXTENDS Integers, FiniteSets

CONSTANTS
    Node,
    Key,           \* the session keys that callers use
    DefaultKey,    \* defaultSessionKey
    NoKey,         \* no entry in sessionKeys
    NSends,        \* bound: calls of sendMessage
    MaxRestarts    \* bound: restarts of each node

Send == 1 .. NSends    \* calls are numbered in the order they are made

ASSUME MessagingAssumption ==
    /\ NSends \in Nat
    /\ MaxRestarts \in Nat
    /\ NoKey \notin Key \cup {DefaultKey}

VARIABLES
    keys,      \* sessionKeys of each node: a key or none for each other node
    starts,    \* how often each node was restarted (bounded)
    pc,        \* the await each send is suspended in, or how it ended
    call,      \* its caller, target and key
    wire,      \* its packet
    since,     \* history: restarts of its caller when it was called
    heard      \* history: the packets its caller had received from its target

vars == <<keys, starts, pc, call, wire, since, heard>>

-----------------------------------------------------------------------------
Active == {"connecting", "writing", "closing", "aborting"}
Ended  == {"sent", "failed", "crashed"}
Call   == [from : Node, to : Node, key : Key]

TypeOK ==
    /\ keys \in [Node -> [Node -> Key \cup {NoKey}]]
    /\ starts \in [Node -> 0 .. MaxRestarts]
    /\ pc \in [Send -> {"idle"} \cup Active \cup Ended]
    /\ call \in [Send -> Call \cup {NoKey}]
    /\ wire \in [Send -> {"none", "flying", "received", "dropped", "lost"}]
    /\ since \in [Send -> 0 .. MaxRestarts]
    /\ heard \in [Send -> SUBSET Send]
    /\ \A j \in Send : pc[j] # "idle" => call[j] \in Call

Init ==
    /\ keys = [n \in Node |-> [m \in Node |-> NoKey]]
    /\ starts = [n \in Node |-> 0]
    /\ pc = [j \in Send |-> "idle"]
    /\ call = [j \in Send |-> NoKey]
    /\ wire = [j \in Send |-> "none"]
    /\ since = [j \in Send |-> 0]
    /\ heard = [j \in Send |-> {}]

-----------------------------------------------------------------------------
(***************************************************************************)
(* Mutant: the first key stays.                                            *)
(***************************************************************************)
SetKeyOnce(n, m, k) ==
    keys' = [keys EXCEPT ![n][m] = IF @ = NoKey THEN k ELSE @]

(***************************************************************************)
(* The node's sessionKeys, and the server's copy of them for chunks.       *)
(***************************************************************************)
SetKey(n, m, k) == keys' = [keys EXCEPT ![n][m] = k]

(***************************************************************************)
(* sendMessage(to, message, key) is called.  The key is stored before the  *)
(* connection is tried, whatever becomes of it.  (An unknown target is     *)
(* refused before anything changes.)                                       *)
(***************************************************************************)
SendMessage(j, n, m, k) ==
    /\ pc[j] = "idle"
    /\ \A i \in Send : i < j => pc[i] # "idle"
    /\ n # m
    /\ SetKey(n, m, k)
    /\ pc' = [pc EXCEPT ![j] = "connecting"]
    /\ call' = [call EXCEPT ![j] = [from |-> n, to |-> m, key |-> k]]
    /\ since' = [since EXCEPT ![j] = starts[n]]
    /\ heard' = [heard EXCEPT ![j] =
                   {i \in Send : /\ wire[i] = "received"
                                 /\ call[i].from = m
                                 /\ call[i].to = n}]
    /\ UNCHANGED <<starts, wire>>

ConnectFails(j) ==
    /\ pc[j] = "connecting"
    /\ pc' = [pc EXCEPT ![j] = "failed"]
    /\ UNCHANGED <<keys, starts, call, wire, since, heard>>

(***************************************************************************)
(* Connected: sendPacket() writes the packet in the same turn.             *)
(***************************************************************************)
ConnectOk(j) ==
    /\ pc[j] = "connecting"
    /\ pc' = [pc EXCEPT ![j] = "writing"]
    /\ wire' = [wire EXCEPT ![j] = "flying"]
    /\ UNCHANGED <<keys, starts, call, since, heard>>

(***************************************************************************)
(* Mutant: a send that fails forgets the key.                              *)
(***************************************************************************)
WriteFailsForgetting(j) ==
    /\ pc[j] = "writing"
    /\ pc' = [pc EXCEPT ![j] = "aborting"]
    /\ SetKey(call[j].from, call[j].to, NoKey)
    /\ UNCHANGED <<starts, call, wire, since, heard>>

(***************************************************************************)
(* The callback of the write: done, or an error, in which case the packet  *)
(* may have gone out all the same.  Either way the finally block closes    *)
(* the socket.                                                             *)
(***************************************************************************)
WriteDone(j) ==
    /\ pc[j] = "writing"
    /\ pc' = [pc EXCEPT ![j] = "closing"]
    /\ UNCHANGED <<keys, starts, call, wire, since, heard>>

WriteFails(j) ==
    /\ pc[j] = "writing"
    /\ pc' = [pc EXCEPT ![j] = "aborting"]
    /\ UNCHANGED <<keys, starts, call, wire, since, heard>>

(***************************************************************************)
(* disconnectGraceful() returns, after 5 s at the latest.  The message is  *)
(* entered as sent, or the error is thrown.                                *)
(***************************************************************************)
Close(j) ==
    /\ pc[j] \in {"closing", "aborting"}
    /\ pc' = [pc EXCEPT ![j] = IF pc[j] = "closing" THEN "sent" ELSE "failed"]
    /\ UNCHANGED <<keys, starts, call, wire, since, heard>>

-----------------------------------------------------------------------------
(***************************************************************************)
(* The key with which node n reads what node m sends.                      *)
(***************************************************************************)
ReadingKey(n, m) == IF keys[n][m] = NoKey THEN DefaultKey ELSE keys[n][m]

(***************************************************************************)
(* Mutant: sendMessage() does not tell the server the key.                 *)
(***************************************************************************)
ServingKeyDefault(n, m) == DefaultKey

(***************************************************************************)
(* The keys of a chunk that node n downloads from node m: that with which  *)
(* m's server encrypts it for n, and that with which a download started    *)
(* now decrypts it.                                                        *)
(***************************************************************************)
ServingKey(m, n)  == IF keys[m][n] = NoKey THEN DefaultKey ELSE keys[m][n]
FetchingKey(n, m) == IF keys[n][m] = NoKey THEN DefaultKey ELSE keys[n][m]

(***************************************************************************)
(* The packet handler: the message is entered as received, or the packet   *)
(* is ignored when it does not decrypt.                                    *)
(***************************************************************************)
HandleMsg(j) ==
    /\ wire[j] = "flying"
    /\ wire' = [wire EXCEPT ![j] =
                  IF ReadingKey(call[j].to, call[j].from) = call[j].key
                  THEN "received" ELSE "dropped"]
    /\ UNCHANGED <<keys, starts, pc, call, since, heard>>

(***************************************************************************)
(* The connection breaks before the packet has arrived.                    *)
(***************************************************************************)
LosePacket(j) ==
    /\ wire[j] = "flying"
    /\ wire' = [wire EXCEPT ![j] = "lost"]
    /\ UNCHANGED <<keys, starts, pc, call, since, heard>>

(***************************************************************************)
(* The node's process ends and a new one is started: its keys and the      *)
(* calls that were under way are gone, and so are the packets on their way *)
(* to it.  (stop() by itself keeps the keys.)                              *)
(***************************************************************************)
Restart(n) ==
    /\ starts[n] < MaxRestarts
    /\ starts' = [starts EXCEPT ![n] = @ + 1]
    /\ keys' = [keys EXCEPT ![n] = [m \in Node |-> NoKey]]
    /\ pc' = [j \in Send |->
                IF pc[j] \in Active /\ call[j].from = n THEN "crashed" ELSE pc[j]]
    /\ wire' = [j \in Send |->
                  IF wire[j] = "flying" /\ call[j].to = n THEN "lost" ELSE wire[j]]
    /\ UNCHANGED <<call, since, heard>>

-----------------------------------------------------------------------------
Next ==
    \/ \E j \in Send, n, m \in Node, k \in Key : SendMessage(j, n, m, k)
    \/ \E j \in Send :
          \/ ConnectFails(j)
          \/ ConnectOk(j)
          \/ WriteDone(j)
          \/ WriteFails(j)
          \/ Close(j)
          \/ HandleMsg(j)
          \/ LosePacket(j)
    \/ \E n \in Node : Restart(n)

Spec == Init /\ [][Next]_vars

-----------------------------------------------------------------------------
(***************************************************************************)
(* Node n called sendMessage() for m with key k in send i, and nothing has *)
(* replaced that key since: no restart, no later call for m with another.  *)
(***************************************************************************)
KeyStands(i) ==
    /\ since[i] = starts[call[i].from]
    /\ \A l \in Send :
          /\ l > i /\ pc[l] # "idle"
          /\ call[l].from = call[i].from
          /\ call[l].to = call[i].to
          => call[l].key = call[i].key

(***************************************************************************)
(* An answer can be read: when node m has received a message from n and    *)
(* then sends n one with the same key, n does not drop it, however slowly  *)
(* n's own send ends and also when it fails in the end.  n may have        *)
(* restarted or used another key for m since.                              *)
(***************************************************************************)
AnswerIsReadable ==
    \A i, j \in Send :
        /\ pc[j] # "idle" /\ i \in heard[j]
        /\ call[i].key = call[j].key
        /\ wire[j] = "dropped"
        => ~KeyStands(i)

(***************************************************************************)
(* The inductive strengthening: calls are made in the order of their       *)
(* numbers, the history variables say what they are meant to, and a key    *)
(* that stands is in the map of the node that set it.                      *)
(***************************************************************************)
Called(j) == pc[j] # "idle"

History ==
    /\ \A i, j \in Send : i < j /\ Called(j) => Called(i)
    /\ \A j \in Send :
          /\ ~Called(j) => wire[j] = "none"
          /\ Called(j) => since[j] <= starts[call[j].from]
          /\ Called(j) => \A i \in heard[j] :
                /\ Called(i)
                /\ call[i].from = call[j].to
                /\ call[i].to = call[j].from

KeysStand ==
    \A i \in Send :
        Called(i) /\ KeyStands(i) => keys[call[i].from][call[i].to] = call[i].key

(***************************************************************************)
(* Two nodes that have sent each other a message with one key, which no    *)
(* restart and no other key has replaced, can download from each other,    *)
(* whether those messages arrived or not; after a message in one direction *)
(* only, they cannot.                                                      *)
(***************************************************************************)
PairReadsChunks ==
    \A i, j \in Send :
        /\ Called(i) /\ KeyStands(i)
        /\ Called(j) /\ KeyStands(j)
        /\ call[i].from = call[j].to
        /\ call[i].to = call[j].from
        /\ call[i].key = call[j].key
        => /\ FetchingKey(call[i].from, call[i].to) = ServingKey(call[i].to, call[i].from)
           /\ ServingKey(call[i].to, call[i].from) = call[i].key

IInv == TypeOK /\ History /\ KeysStand /\ AnswerIsReadable

(***************************************************************************)
(* A message that is in the sender's history as sent is not dropped by its *)
(* receiver: what the chat test asserts after one sendMessage() between    *)
(* two fresh nodes, 'Message A -> B non recu'.                             *)
(***************************************************************************)
SentIsNotDropped == \A j \in Send : pc[j] = "sent" => wire[j] # "dropped"
=============================================================================
