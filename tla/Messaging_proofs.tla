--------------------------- MODULE Messaging_proofs ---------------------------
(***************************************************************************)
(* Proofs about Messaging, for any number of nodes, keys, sends and        *)
(* restarts.                                                               *)
(***************************************************************************)
EXTENDS Messaging, TLAPS

(***************************************************************************)
(* A fresh node has no keys and no sends.                                  *)
(***************************************************************************)
LEMMA InitIInv == Init => IInv
<1> SUFFICES ASSUME Init PROVE IInv
  OBVIOUS
<1>1. TypeOK
  BY MessagingAssumption DEF Init, TypeOK
<1>2. History /\ KeysStand /\ AnswerIsReadable
  BY DEF Init, History, KeysStand, AnswerIsReadable, Called
<1> QED
  BY <1>1, <1>2 DEF IInv

(***************************************************************************)
(* Every step keeps every variable's type: one case per action.            *)
(***************************************************************************)
LEMMA NextTypeOK == TypeOK /\ [Next]_vars => TypeOK'
<1> SUFFICES ASSUME TypeOK, [Next]_vars PROVE TypeOK'
  OBVIOUS
<1> USE DEF TypeOK, Active, Ended
<1>1. ASSUME NEW j \in Send, NEW n \in Node, NEW m \in Node, NEW k \in Key,
             SendMessage(j, n, m, k)
      PROVE  TypeOK'
  <2>1. keys' \in [Node -> [Node -> Key \cup {NoKey}]]
    BY <1>1 DEF SendMessage, SetKey
  <2>2. call' \in [Send -> Call \cup {NoKey}]
    BY <1>1 DEF SendMessage, Call
  <2>3. \A i \in Send : pc'[i] # "idle" => call'[i] \in Call
    BY <1>1 DEF SendMessage, Call
  <2>4. heard' \in [Send -> SUBSET Send]
    BY <1>1 DEF SendMessage
  <2> QED
    BY <1>1, <2>1, <2>2, <2>3, <2>4 DEF SendMessage
<1>2. ASSUME NEW j \in Send, ConnectFails(j) PROVE TypeOK'
  BY <1>2 DEF ConnectFails
<1>3. ASSUME NEW j \in Send, ConnectOk(j) PROVE TypeOK'
  BY <1>3 DEF ConnectOk
<1>4. ASSUME NEW j \in Send, WriteDone(j) PROVE TypeOK'
  BY <1>4 DEF WriteDone
<1>5. ASSUME NEW j \in Send, WriteFails(j) PROVE TypeOK'
  BY <1>5 DEF WriteFails
<1>6. ASSUME NEW j \in Send, Close(j) PROVE TypeOK'
  BY <1>6 DEF Close
<1>7. ASSUME NEW j \in Send, HandleMsg(j) PROVE TypeOK'
  BY <1>7 DEF HandleMsg
<1>8. ASSUME NEW j \in Send, LosePacket(j) PROVE TypeOK'
  BY <1>8 DEF LosePacket
<1>9. ASSUME NEW n \in Node, Restart(n) PROVE TypeOK'
  BY <1>9, MessagingAssumption DEF Restart
<1>10. CASE UNCHANGED vars
  BY <1>10 DEF vars
<1> QED
  BY <1>1, <1>2, <1>3, <1>4, <1>5, <1>6, <1>7, <1>8, <1>9, <1>10 DEF Next

(***************************************************************************)
(* The steps of a send and of its packet leave the keys, the calls and the *)
(* history variables as they are, and call nothing.                        *)
(***************************************************************************)
Quiet ==
    /\ UNCHANGED <<keys, starts, call, since, heard>>
    /\ \A j \in Send : Called(j)' <=> Called(j)
    /\ \A j \in Send : ~Called(j) => wire'[j] = wire[j]

(***************************************************************************)
(* After its call a send is quiet, and drops no packet.                    *)
(***************************************************************************)
LEMMA SendStepIsQuiet ==
    ASSUME TypeOK, NEW j \in Send,
           \/ ConnectFails(j) \/ ConnectOk(j) \/ WriteDone(j) \/ WriteFails(j)
           \/ Close(j)
    PROVE  /\ Quiet
           /\ \A i \in Send : wire'[i] = "dropped" => wire[i] = "dropped"
<1> USE DEF TypeOK, Quiet, Called
<1>1. CASE ConnectFails(j)
  BY <1>1 DEF ConnectFails
<1>2. CASE ConnectOk(j)
  BY <1>2 DEF ConnectOk
<1>3. CASE WriteDone(j)
  BY <1>3 DEF WriteDone
<1>4. CASE WriteFails(j)
  BY <1>4 DEF WriteFails
<1>5. CASE Close(j)
  BY <1>5 DEF Close
<1> QED
  BY <1>1, <1>2, <1>3, <1>4, <1>5

(***************************************************************************)
(* So do the steps of a packet, for only the packet of a send that was     *)
(* called is under way.                                                    *)
(***************************************************************************)
LEMMA PacketStepIsQuiet ==
    ASSUME TypeOK, History, NEW j \in Send, HandleMsg(j) \/ LosePacket(j)
    PROVE  Quiet
BY DEF TypeOK, History, Quiet, Called, HandleMsg, LosePacket

(***************************************************************************)
(* A quiet step keeps History and KeysStand.                               *)
(***************************************************************************)
LEMMA QuietKeeps ==
    ASSUME TypeOK, History, KeysStand, Quiet
    PROVE  /\ History'
           /\ KeysStand'
           /\ \A i \in Send : KeyStands(i)' <=> KeyStands(i)
<1>1. History'
  BY DEF History, Quiet, TypeOK
<1>2. \A i \in Send : KeyStands(i)' <=> KeyStands(i)
  BY DEF KeyStands, Quiet, Called
<1> QED
  BY <1>1, <1>2 DEF KeysStand, Quiet

(***************************************************************************)
(* A new send: its own key is in the map, and a key that it replaced does  *)
(* not stand any more.                                                     *)
(***************************************************************************)
LEMMA SendMessageKeeps ==
    ASSUME IInv,
           NEW j \in Send, NEW n \in Node, NEW m \in Node, NEW k \in Key,
           SendMessage(j, n, m, k)
    PROVE  History' /\ KeysStand' /\ AnswerIsReadable'
<1> USE DEF IInv
<1>1. /\ ~Called(j) /\ Called(j)' /\ wire' = wire /\ starts' = starts
      /\ call'[j] = [from |-> n, to |-> m, key |-> k]
      /\ since'[j] = starts[n]
      /\ heard'[j] = {i \in Send : /\ wire[i] = "received"
                                   /\ call[i].from = m
                                   /\ call[i].to = n}
  BY DEF SendMessage, Called, TypeOK
<1>2. \A i \in Send \ {j} : /\ Called(i)' <=> Called(i)
                            /\ call'[i] = call[i]
                            /\ since'[i] = since[i]
                            /\ heard'[i] = heard[i]
  BY DEF SendMessage, Called, TypeOK
<1>3. \A i \in Send : Called(i) <=> i < j
  <2>1. \A i \in Send : i < j => Called(i)
    BY DEF SendMessage, Called
  <2>2. \A i \in Send : j < i => ~Called(i)
    BY <1>1 DEF History
  <2> QED
    BY <1>1, <2>1, <2>2 DEF Send
<1>4. History'
  <2>1. \A i, l \in Send : i < l /\ Called(l)' => Called(i)'
    BY <1>1, <1>2, <1>3 DEF Send
  <2>2. \A l \in Send : ~Called(l)' => wire'[l] = "none"
    BY <1>1, <1>2 DEF History
  <2>3. \A l \in Send : Called(l)' => since'[l] <= starts'[call'[l].from]
    BY <1>1, <1>2 DEF History, TypeOK
  <2>4. ASSUME NEW l \in Send, Called(l)', NEW i \in heard'[l]
        PROVE  /\ Called(i)'
               /\ call'[i].from = call'[l].to
               /\ call'[i].to = call'[l].from
    <3>1. CASE l = j
      <4>1. i \in Send /\ wire[i] = "received" /\ call[i].from = m /\ call[i].to = n
        BY <1>1, <2>4, <3>1
      <4>2. Called(i) /\ i # j
        BY <4>1, <1>1 DEF History
      <4> QED
        BY <1>1, <1>2, <3>1, <4>1, <4>2
    <3>2. CASE l # j
      <4>1. Called(l) /\ i \in heard[l] /\ i \in Send
        BY <1>2, <2>4, <3>2 DEF TypeOK
      <4>2. Called(i) /\ call[i].from = call[l].to /\ call[i].to = call[l].from
        BY <4>1 DEF History
      <4> QED
        BY <1>1, <1>2, <3>2, <4>1, <4>2
    <3> QED
      BY <3>1, <3>2
  <2> QED
    BY <2>1, <2>2, <2>3, <2>4 DEF History
<1>5. \A i \in Send \ {j} : Called(i) /\ KeyStands(i)' => KeyStands(i)
  BY <1>1, <1>2 DEF KeyStands, Called
<1>6. KeysStand'
  <2> SUFFICES ASSUME NEW i \in Send, Called(i)', KeyStands(i)'
               PROVE  keys'[call'[i].from][call'[i].to] = call'[i].key
    BY DEF KeysStand
  <2>1. CASE i = j
    BY <1>1, <2>1 DEF SendMessage, SetKey, TypeOK
  <2>2. CASE i # j
    <3>1. /\ Called(i) /\ call'[i] = call[i] /\ call[i] \in Call
          /\ keys[call[i].from][call[i].to] = call[i].key
      BY <1>2, <1>5, <2>2 DEF KeysStand, TypeOK, Called
    <3>2. CASE call[i].from = n /\ call[i].to = m
      <4>1. call'[i].key = k
        BY <1>1, <1>3, <3>1, <3>2 DEF KeyStands, Called, Send
      <4> QED
        BY <3>1, <3>2, <4>1 DEF SendMessage, SetKey, TypeOK
    <3>3. CASE ~(call[i].from = n /\ call[i].to = m)
      BY <3>1, <3>3 DEF SendMessage, SetKey, TypeOK, Call
    <3> QED
      BY <3>2, <3>3
  <2> QED
    BY <2>1, <2>2
<1>7. AnswerIsReadable'
  <2> SUFFICES ASSUME NEW i \in Send, NEW l \in Send, i \in heard'[l],
                      call'[i].key = call'[l].key, wire'[l] = "dropped",
                      pc'[l] # "idle"
               PROVE  ~KeyStands(i)'
    BY DEF AnswerIsReadable
  <2>1. l # j
    BY <1>1 DEF History
  <2>2. Called(l) /\ i \in heard[l]
    BY <1>2, <2>1 DEF Called
  <2>3. Called(i) /\ i # j
    BY <1>1, <2>2 DEF History
  <2>4. ~KeyStands(i)
    BY <1>1, <1>2, <2>1, <2>2, <2>3 DEF AnswerIsReadable, Called
  <2> QED
    BY <1>5, <2>3, <2>4
<1> QED
  BY <1>4, <1>6, <1>7

(***************************************************************************)
(* A restart: the keys it loses do not stand any more.                     *)
(***************************************************************************)
LEMMA RestartKeeps ==
    ASSUME IInv, NEW n \in Node, Restart(n)
    PROVE  History' /\ KeysStand' /\ AnswerIsReadable'
<1> USE DEF IInv
<1>1. /\ UNCHANGED <<call, since, heard>>
      /\ \A i \in Send : Called(i)' <=> Called(i)
      /\ \A i \in Send : ~Called(i) => wire'[i] = wire[i]
      /\ \A i \in Send : wire'[i] = "dropped" => wire[i] = "dropped"
      /\ starts'[n] = starts[n] + 1
      /\ \A o \in Node \ {n} : starts'[o] = starts[o] /\ keys'[o] = keys[o]
  BY DEF Restart, Called, TypeOK, History, Active
<1>2. \A i \in Send : Called(i) => call[i].from \in Node
  BY DEF TypeOK, Called, Call
<1>3. History'
  <2>1. \A i \in Send : Called(i) => since[i] <= starts'[call[i].from]
    BY <1>1, <1>2 DEF History, TypeOK
  <2> QED
    BY <1>1, <2>1 DEF History, TypeOK
<1>4. \A i \in Send : Called(i) /\ KeyStands(i)' =>
          KeyStands(i) /\ call[i].from # n
  <2> SUFFICES ASSUME NEW i \in Send, Called(i), KeyStands(i)'
               PROVE  KeyStands(i) /\ call[i].from # n
    OBVIOUS
  <2>1. call[i].from # n
    BY <1>1 DEF KeyStands, History, TypeOK
  <2> QED
    BY <1>1, <1>2, <2>1 DEF KeyStands, Called
<1>5. KeysStand'
  BY <1>1, <1>2, <1>4 DEF KeysStand
<1>6. AnswerIsReadable'
  BY <1>1, <1>4 DEF AnswerIsReadable, History, Called
<1> QED
  BY <1>3, <1>5, <1>6

(***************************************************************************)
(* The inductive step: the only packets that are dropped are those for     *)
(* which no key stands.                                                    *)
(***************************************************************************)
LEMMA NextIInv == IInv /\ [Next]_vars => IInv'
<1> SUFFICES ASSUME IInv, [Next]_vars PROVE IInv'
  OBVIOUS
<1> USE DEF IInv
<1>0. TypeOK'
  BY NextTypeOK
<1>1. ASSUME NEW j \in Send, NEW n \in Node, NEW m \in Node, NEW k \in Key,
             SendMessage(j, n, m, k)
      PROVE  IInv'
  BY <1>0, <1>1, SendMessageKeeps
<1>2. ASSUME Quiet, \A i \in Send : wire'[i] = "dropped" => wire[i] = "dropped"
      PROVE  IInv'
  <2>1. AnswerIsReadable'
    BY <1>2, QuietKeeps DEF AnswerIsReadable, Quiet, Called, History
  <2> QED
    BY <1>0, <1>2, <2>1, QuietKeeps
<1>3. ASSUME NEW j \in Send,
             \/ ConnectFails(j) \/ ConnectOk(j) \/ WriteDone(j) \/ WriteFails(j)
             \/ Close(j)
      PROVE  IInv'
  BY <1>2, <1>3, SendStepIsQuiet
<1>4. ASSUME NEW j \in Send, HandleMsg(j) PROVE IInv'
  <2>1. Quiet
    BY <1>4, PacketStepIsQuiet
  <2>2. \A i \in Send : wire'[i] = "dropped" =>
            \/ wire[i] = "dropped"
            \/ i = j /\ ReadingKey(call[j].to, call[j].from) # call[j].key
    BY <1>4 DEF HandleMsg, TypeOK
  <2>3. AnswerIsReadable'
    <3> SUFFICES ASSUME NEW i \in Send, NEW l \in Send, i \in heard'[l],
                        call'[i].key = call'[l].key, wire'[l] = "dropped",
                        pc'[l] # "idle"
                 PROVE  ~KeyStands(i)'
      BY DEF AnswerIsReadable
    <3>1. /\ Called(l) /\ i \in heard[l] /\ call[i].key = call[l].key
          /\ Called(i) /\ call[i].from = call[l].to /\ call[i].to = call[l].from
      BY <2>1 DEF Quiet, Called, History
    <3>2. CASE wire[l] = "dropped"
      BY <2>1, <3>1, <3>2, QuietKeeps DEF AnswerIsReadable, Called
    <3>3. CASE l = j /\ ReadingKey(call[j].to, call[j].from) # call[j].key
      <4>1. call[i].key \in Key /\ call[i].key # NoKey
        BY <3>1, MessagingAssumption DEF TypeOK, Called, Call
      <4>2. keys[call[i].from][call[i].to] # call[i].key
        BY <3>1, <3>3, <4>1 DEF ReadingKey
      <4> QED
        BY <2>1, <3>1, <4>2, QuietKeeps DEF KeysStand
    <3> QED
      BY <2>2, <3>2, <3>3
  <2> QED
    BY <1>0, <2>1, <2>3, QuietKeeps
<1>5. ASSUME NEW j \in Send, LosePacket(j) PROVE IInv'
  <2>1. \A i \in Send : wire'[i] = "dropped" => wire[i] = "dropped"
    BY <1>5 DEF LosePacket, TypeOK
  <2> QED
    BY <1>2, <1>5, <2>1, PacketStepIsQuiet
<1>6. ASSUME NEW n \in Node, Restart(n) PROVE IInv'
  BY <1>0, <1>6, RestartKeeps
<1>7. CASE UNCHANGED vars
  BY <1>2, <1>7 DEF vars, Quiet, Called
<1> QED
  BY <1>1, <1>3, <1>4, <1>5, <1>6, <1>7 DEF Next

(***************************************************************************)
(* IInv holds in every reachable state.                                    *)
(***************************************************************************)
THEOREM Inductive == Spec => []IInv
<1> QED
  BY InitIInv, NextIInv, PTL DEF Spec

(***************************************************************************)
(* A message that answers one the sender received, with the same key, is   *)
(* not dropped while that key stands.                                      *)
(***************************************************************************)
THEOREM AnswerReadable == Spec => []AnswerIsReadable
<1>1. IInv => AnswerIsReadable
  BY DEF IInv
<1> QED
  BY <1>1, Inductive, PTL

(***************************************************************************)
(* Two nodes whose keys for each other stand can download from each other. *)
(***************************************************************************)
THEOREM ChunksReadable == Spec => []PairReadsChunks
<1>1. IInv => PairReadsChunks
  <2> SUFFICES ASSUME IInv,
                      NEW i \in Send, Called(i), KeyStands(i),
                      NEW j \in Send, Called(j), KeyStands(j),
                      call[i].from = call[j].to, call[i].to = call[j].from,
                      call[i].key = call[j].key
               PROVE  /\ FetchingKey(call[i].from, call[i].to) = call[i].key
                      /\ ServingKey(call[i].to, call[i].from) = call[i].key
    BY DEF PairReadsChunks
  <2>1. call[i].key # NoKey
    BY MessagingAssumption DEF IInv, TypeOK, Called, Call
  <2>2. /\ keys[call[i].from][call[i].to] = call[i].key
        /\ keys[call[i].to][call[i].from] = call[i].key
    BY DEF IInv, KeysStand
  <2> QED
    BY <2>1, <2>2 DEF FetchingKey, ServingKey
<1> QED
  BY <1>1, Inductive, PTL
=============================================================================
