--------------------------- MODULE Discovery_proofs ---------------------------
(***************************************************************************)
(* Proofs about Discovery, for any nodes, directories, ports, intervals    *)
(* and starts.                                                             *)
(***************************************************************************)
EXTENDS Discovery, TLAPS

(***************************************************************************)
(* No node is up, no peer is known and nothing is in the air at first.     *)
(***************************************************************************)
LEMMA InitIInv == Init => IInv
<1> SUFFICES ASSUME Init PROVE IInv
  OBVIOUS
<1>1. TypeOK
  BY DiscoveryAssumption DEF Init, TypeOK, Nobody, LongSilence
<1>2. \A n \in Node : Known(n) = {}
  BY DEF Init, Known, IsEntry, Nobody
<1>3. AirIsFresh
  BY DEF Init, AirIsFresh
<1> QED
  BY <1>1, <1>2, <1>3 DEF IInv, AgeIsSilence, AgeIsBounded

(***************************************************************************)
(* What an identity is: two of its users have the same ids.                *)
(***************************************************************************)
LEMMA NextIdType ==
    ASSUME TypeOK, NEW n \in Node, starts[n] > 0
    PROVE  <<n, starts[n]>> \in Id
BY DiscoveryAssumption DEF TypeOK, Id

(***************************************************************************)
(* A HELLO of a running node, or of one that goes online, is fresh.        *)
(***************************************************************************)
LEMMA SendHelloIsFresh ==
    ASSUME TypeOK, AirIsFresh, AgeIsSilence,
           NEW n \in Node, NEW i \in Id, NEW p \in Port, SendHello(n, i, p),
           \A m \in Node : Up(m) => Up(m)', table' = table
    PROVE  /\ air' \subseteq Hello
           /\ helloDue' \in [Node -> 0 .. HelloInterval]
           /\ silent' \in [Id -> 0 .. LongSilence]
           /\ AirIsFresh'
           /\ AgeIsSilence'
<1> USE DEF TypeOK, SendHello
<1>1. air' \subseteq Hello
  BY DEF Hello
<1>2. helloDue' \in [Node -> 0 .. HelloInterval]
  BY DiscoveryAssumption
<1>3. LongSilence \in Nat
  BY DiscoveryAssumption DEF LongSilence
<1>4. silent' \in [Id -> 0 .. LongSilence]
  BY <1>3
<1>5. \A j \in Id : silent'[j] <= silent[j]
  BY <1>3
<1>6. AirIsFresh'
  BY DEF AirIsFresh, Hello
<1>7. ASSUME NEW m \in Node, NEW j \in Known(m)
      PROVE  silent'[j] <= table[m][j].age
  <2>1. j \in Id /\ table[m][j].age \in Nat
    BY DEF Known, IsEntry, Entry
  <2>2. silent[j] \in Nat /\ silent'[j] \in Nat /\ silent[j] <= table[m][j].age
    BY <2>1, <1>3, <1>4, <1>7 DEF AgeIsSilence
  <2> QED
    BY <2>1, <2>2, <1>5
<1>8. AgeIsSilence'
  BY <1>7 DEF AgeIsSilence, Known
<1> QED
  BY <1>1, <1>2, <1>4, <1>6, <1>8

(***************************************************************************)
(* A node that is not up knows nobody, hence can go online with any timer  *)
(* for its table.                                                          *)
(***************************************************************************)
LEMMA GoOnlineIInv ==
    ASSUME IInv, NEW n \in Node, GoOnline(n)
    PROVE  IInv'
<1> USE DEF IInv
<1>0. /\ pc[n] = "binding" /\ ~Up(n) /\ id[n] \in Id /\ port[n] \in Port
      /\ SendHello(n, id[n], port[n]) /\ UNCHANGED <<file, starts, id, port, table>>
  BY DEF GoOnline, Up, TypeOK
<1>1. \A m \in Node : Up(m) => Up(m)'
  BY DEF GoOnline, Up, TypeOK
<1>2. /\ air' \subseteq Hello
      /\ helloDue' \in [Node -> 0 .. HelloInterval]
      /\ silent' \in [Id -> 0 .. LongSilence]
      /\ AirIsFresh' /\ AgeIsSilence'
  BY <1>0, <1>1, SendHelloIsFresh
<1>3. TypeOK'
  <2>1. /\ pc' = [pc EXCEPT ![n] = "up"]
        /\ cleanDue' = [cleanDue EXCEPT ![n] = HelloInterval]
    BY DEF GoOnline
  <2>2. HelloInterval \in 0 .. HelloInterval
    BY DiscoveryAssumption
  <2>3. /\ pc' \in [Node -> {"off", "loading", "creating", "writing", "binding", "up"}]
        /\ cleanDue' \in [Node -> 0 .. HelloInterval]
    BY <2>1, <2>2 DEF TypeOK
  <2>4. \A m \in Node : pc'[m] \in {"creating", "writing", "binding", "up"} => id[m] \in Id
    BY <1>0, <2>1 DEF TypeOK
  <2>5. starts[n] > 0
    BY <1>0 DEF TypeOK
  <2>6. \A m \in Node : pc'[m] # "off" => port[m] \in Port /\ starts[m] > 0
    BY <1>0, <2>1, <2>5 DEF TypeOK
  <2> QED
    BY <1>0, <1>2, <2>3, <2>4, <2>6 DEF TypeOK
<1>4. ASSUME NEW m \in Node, NEW j \in Known(m)
      PROVE  Up(m)' /\ table[m][j].age + cleanDue'[m] <= PeerTimeout + HelloInterval
  <2>1. Up(m) /\ m # n
    BY <1>0, <1>4 DEF AgeIsBounded
  <2> QED
    BY <1>4, <1>1, <2>1 DEF AgeIsBounded, GoOnline, TypeOK
<1>5. AgeIsBounded'
  BY <1>0, <1>4 DEF AgeIsBounded, Known
<1> QED
  BY <1>2, <1>3, <1>5

(***************************************************************************)
(* The steps of a start before the node is online say nothing to anybody.  *)
(***************************************************************************)
LEMMA QuietStartIInv ==
    ASSUME IInv, NEW n \in Node,
           \/ \E p \in Port : Start(n, p)
           \/ LoadIdentity(n) \/ LoadFails(n) \/ GenerateIdentity(n)
           \/ OpenIdentityFile(n) \/ WriteIdentity(n) \/ BindFails(n)
    PROVE  IInv'
<1> USE DEF IInv
<1>1. TypeOK'
  <2>1. ASSUME NEW p \in Port, Start(n, p) PROVE TypeOK'
    BY <2>1, DiscoveryAssumption DEF TypeOK, Start, process, timers
  <2>2. CASE LoadFails(n)
    BY <2>2 DEF TypeOK, LoadFails, timers
  <2>3. CASE GenerateIdentity(n)
    <3>1. <<n, starts[n]>> \in Id
      BY <2>3, NextIdType DEF TypeOK, GenerateIdentity
    <3> QED
      BY <2>3, <3>1 DEF TypeOK, GenerateIdentity, timers
  <2>4. CASE OpenIdentityFile(n)
    BY <2>4, DiscoveryAssumption DEF TypeOK, OpenIdentityFile, timers
  <2>5. CASE LoadIdentity(n)
    BY <2>5 DEF TypeOK, LoadIdentity, timers
  <2>6. CASE WriteIdentity(n)
    BY <2>6, DiscoveryAssumption DEF TypeOK, WriteIdentity, timers
  <2>7. CASE BindFails(n)
    BY <2>7 DEF TypeOK, BindFails, timers
  <2> QED
    BY <2>1, <2>2, <2>3, <2>4, <2>5, <2>6, <2>7
<1>2. /\ UNCHANGED <<table, air, silent, cleanDue>>
      /\ \A m \in Node : Up(m)' <=> Up(m)
  BY DEF TypeOK, Up, Start, LoadIdentity, LoadFails, GenerateIdentity, OpenIdentityFile,
         WriteIdentity, BindFails, timers
<1>3. AirIsFresh'
  BY <1>2 DEF AirIsFresh, TypeOK, Hello
<1>4. AgeIsSilence' /\ AgeIsBounded'
  BY <1>2 DEF AgeIsSilence, AgeIsBounded, Known
<1> QED
  BY <1>1, <1>3, <1>4

(***************************************************************************)
(* A node that stops forgets its peers, and the datagrams sent to it are   *)
(* lost.                                                                   *)
(***************************************************************************)
LEMMA StopIInv == ASSUME IInv, NEW n \in Node, Stop(n) PROVE IInv'
<1> USE DEF IInv
<1>1. TypeOK'
  <2>1. Nobody \in [Id -> Entry \cup {NoEntry}]
    BY DEF Nobody
  <2>2. table' \in [Node -> [Id -> Entry \cup {NoEntry}]]
    BY <2>1 DEF TypeOK, Stop
  <2>3. /\ helloDue' \in [Node -> 0 .. HelloInterval]
        /\ cleanDue' \in [Node -> 0 .. HelloInterval]
    BY DiscoveryAssumption DEF TypeOK, Stop
  <2> QED
    BY <2>2, <2>3 DEF TypeOK, Stop
<1>2. AirIsFresh'
  BY DEF TypeOK, AirIsFresh, Stop, Up, Hello
<1>3. ASSUME NEW m \in Node, NEW i \in Known(m)'
      PROVE  m # n /\ i \in Known(m) /\ table'[m] = table[m]
  BY <1>3 DEF Known, IsEntry, Nobody, Stop, TypeOK
<1>4. AgeIsSilence'
  BY <1>3 DEF AgeIsSilence, Stop
<1>5. AgeIsBounded'
  BY <1>3 DEF AgeIsBounded, Stop, Up, TypeOK
<1> QED
  BY <1>1, <1>2, <1>4, <1>5

(***************************************************************************)
(* The HELLO of a running node.                                            *)
(***************************************************************************)
LEMMA HelloTimerIInv == ASSUME IInv, NEW n \in Node, HelloTimer(n) PROVE IInv'
<1> USE DEF IInv
<1>1. /\ id[n] \in Id /\ port[n] \in Port /\ SendHello(n, id[n], port[n])
      /\ UNCHANGED <<process, table, cleanDue>>
  BY DEF HelloTimer, Up, TypeOK
<1>2. \A m \in Node : Up(m)' <=> Up(m)
  BY <1>1 DEF Up, process
<1>3. /\ air' \subseteq Hello
      /\ helloDue' \in [Node -> 0 .. HelloInterval]
      /\ silent' \in [Id -> 0 .. LongSilence]
      /\ AirIsFresh' /\ AgeIsSilence'
  BY <1>1, <1>2, SendHelloIsFresh
<1>4. TypeOK'
  BY <1>1, <1>3 DEF TypeOK, process
<1>5. AgeIsBounded'
  BY <1>1, <1>2 DEF AgeIsBounded, Known
<1> QED
  BY <1>3, <1>4, <1>5

(***************************************************************************)
(* An entry that is created or refreshed is as young as its HELLO.         *)
(***************************************************************************)
LEMMA ReceiveHelloIInv ==
    ASSUME IInv, NEW n \in Node, NEW h \in air, ReceiveHello(n, h)
    PROVE  IInv'
<1> USE DEF IInv
<1>1. /\ h \in Hello /\ h.to = n /\ h.id \in Id /\ h.port \in Port
      /\ UNCHANGED <<process, timers, air, silent>>
      /\ table' = [table EXCEPT ![n][h.id] =
                     IF IsSelf(n, h) THEN @ ELSE [port |-> h.port, age |-> 0]]
  BY DEF ReceiveHello, TypeOK, Hello, Upsert
<1>2. [port |-> h.port, age |-> 0] \in Entry
  BY <1>1 DEF Entry
<1>3. TypeOK'
  <2>1. table' \in [Node -> [Id -> Entry \cup {NoEntry}]]
    BY <1>1, <1>2 DEF TypeOK
  <2> QED
    BY <1>1, <2>1 DEF TypeOK, process, timers
<1>4. AirIsFresh'
  BY <1>1 DEF AirIsFresh, Up, process
<1>5. ASSUME NEW m \in Node, NEW i \in Known(m)', table'[m][i] # table[m][i]
      PROVE  m = n /\ i = h.id /\ table'[m][i] = [port |-> h.port, age |-> 0]
  BY <1>1, <1>5 DEF TypeOK
<1>6. ASSUME NEW m \in Node, NEW i \in Known(m)', table'[m][i] = table[m][i]
      PROVE  i \in Known(m)
  BY <1>6 DEF Known, IsEntry
<1>7. ASSUME NEW m \in Node, NEW i \in Known(m)'
      PROVE  silent'[i] <= table'[m][i].age
  <2>1. CASE table'[m][i] = table[m][i]
    BY <1>1, <1>6, <2>1 DEF AgeIsSilence
  <2>2. CASE table'[m][i] # table[m][i]
    <3>1. i = h.id /\ table'[m][i].age = 0 /\ silent'[i] = 0
      BY <1>1, <1>5, <2>2 DEF AirIsFresh
    <3> QED
      BY <3>1
  <2> QED
    BY <2>1, <2>2
<1>8. ASSUME NEW m \in Node, NEW i \in Known(m)'
      PROVE  Up(m)' /\ table'[m][i].age + cleanDue'[m] <= PeerTimeout + HelloInterval
  <2>1. Up(m)' = Up(m) /\ cleanDue'[m] = cleanDue[m]
    BY <1>1 DEF Up, process, timers
  <2>2. CASE table'[m][i] = table[m][i]
    BY <1>6, <2>1, <2>2 DEF AgeIsBounded
  <2>3. CASE table'[m][i] # table[m][i]
    <3>1. m = n /\ table'[m][i].age = 0 /\ Up(n)
      BY <1>1, <1>5, <2>3 DEF AirIsFresh
    <3>2. cleanDue[n] \in 0 .. HelloInterval
      BY DEF TypeOK
    <3> QED
      BY <2>1, <3>1, <3>2, DiscoveryAssumption
  <2> QED
    BY <2>2, <2>3
<1>9. AgeIsSilence' /\ AgeIsBounded'
  BY <1>7, <1>8 DEF AgeIsSilence, AgeIsBounded
<1> QED
  BY <1>3, <1>4, <1>9

(***************************************************************************)
(* What cleanup() leaves is within the timeout.                            *)
(***************************************************************************)
LEMMA CleanupIInv == ASSUME IInv, NEW n \in Node, Cleanup(n) PROVE IInv'
<1> USE DEF IInv
<1>1. /\ UNCHANGED <<process, helloDue, air, silent>>
      /\ cleanDue' = [cleanDue EXCEPT ![n] = HelloInterval]
      /\ table' = [table EXCEPT ![n] =
                     [i \in Id |-> IF IsEntry(@[i]) /\ Expired(@[i])
                                   THEN NoEntry ELSE @[i]]]
      /\ Up(n)
  BY DEF Cleanup
<1>2. TypeOK'
  <2>1. table' \in [Node -> [Id -> Entry \cup {NoEntry}]]
    BY <1>1 DEF TypeOK
  <2>2. cleanDue' \in [Node -> 0 .. HelloInterval]
    BY <1>1, DiscoveryAssumption DEF TypeOK
  <2> QED
    BY <1>1, <2>1, <2>2 DEF TypeOK, process
<1>3. AirIsFresh'
  BY <1>1 DEF AirIsFresh, Up, process
<1>4. ASSUME NEW m \in Node, NEW i \in Known(m)'
      PROVE  /\ i \in Known(m) /\ table'[m][i] = table[m][i]
             /\ m = n => ~Expired(table[m][i])
  BY <1>1, <1>4 DEF Known, IsEntry, TypeOK
<1>5. AgeIsSilence'
  BY <1>1, <1>4 DEF AgeIsSilence
<1>6. ASSUME NEW m \in Node, NEW i \in Known(m)'
      PROVE  Up(m)' /\ table'[m][i].age + cleanDue'[m] <= PeerTimeout + HelloInterval
  <2>1. Up(m)' = Up(m) /\ table[m][i].age \in Nat
    BY <1>1, <1>4 DEF Up, process, Known, IsEntry, TypeOK, Entry
  <2>2. CASE m = n
    <3>1. table'[m][i].age <= PeerTimeout
      BY <1>4, <2>1, <2>2, DiscoveryAssumption DEF Expired
    <3>2. cleanDue'[m] = HelloInterval
      BY <1>1, <2>2 DEF TypeOK
    <3> QED
      BY <1>1, <1>4, <2>1, <2>2, <3>1, <3>2, DiscoveryAssumption
  <2>3. CASE m # n
    BY <1>1, <1>4, <2>1, <2>3 DEF AgeIsBounded, TypeOK
  <2> QED
    BY <2>2, <2>3
<1>7. AgeIsBounded'
  BY <1>6 DEF AgeIsBounded
<1> QED
  BY <1>2, <1>3, <1>5, <1>7

(***************************************************************************)
(* An entry and the silence of its peer age together, and the cleanup of   *)
(* the table comes nearer.                                                 *)
(***************************************************************************)
LEMMA TickIInv == ASSUME IInv, Tick PROVE IInv'
<1> USE DEF IInv
<1>1. LongSilence \in Nat
  BY DiscoveryAssumption DEF LongSilence
<1>2. UNCHANGED process /\ air' = {}
  BY DEF Tick
<1>3. ASSUME NEW m \in Node, NEW i \in Id
      PROVE  IF IsEntry(table[m][i])
             THEN /\ table[m][i] \in Entry
                  /\ table'[m][i] = [table[m][i] EXCEPT !.age = table[m][i].age + 1]
                  /\ table'[m][i].age = table[m][i].age + 1
             ELSE table'[m][i] = NoEntry
  BY DEF Tick, TypeOK, IsEntry, Entry
<1>4. TypeOK'
  <2>1. ASSUME NEW m \in Node, NEW i \in Id
        PROVE  table'[m][i] \in Entry \cup {NoEntry}
    <3>1. CASE IsEntry(table[m][i])
      <4>1. PICK e \in Entry : table[m][i] = e
        BY <1>3, <3>1
      <4>2. table'[m][i] = [e EXCEPT !.age = e.age + 1] /\ e.age + 1 \in Nat
        BY <1>3, <3>1, <4>1 DEF Entry
      <4> QED
        BY <4>1, <4>2 DEF Entry
    <3>2. CASE ~IsEntry(table[m][i])
      BY <1>3, <3>2
    <3> QED
      BY <3>1, <3>2
  <2>2. table' \in [Node -> [Id -> Entry \cup {NoEntry}]]
    BY <2>1 DEF Tick
  <2>3. ASSUME NEW m \in Node
        PROVE  /\ (IF Up(m) THEN helloDue[m] - 1 ELSE 0) \in 0 .. HelloInterval
               /\ (IF Up(m) THEN cleanDue[m] - 1 ELSE 0) \in 0 .. HelloInterval
    <3>1. HelloInterval \in Nat
      BY DiscoveryAssumption
    <3>2. helloDue[m] \in 0 .. HelloInterval /\ cleanDue[m] \in 0 .. HelloInterval
      BY DEF TypeOK
    <3>3. Up(m) => helloDue[m] > 0 /\ cleanDue[m] > 0
      BY DEF Tick
    <3> QED
      BY <3>1, <3>2, <3>3
  <2>4. /\ helloDue' \in [Node -> 0 .. HelloInterval]
        /\ cleanDue' \in [Node -> 0 .. HelloInterval]
    BY <2>3 DEF Tick
  <2>5. silent' \in [Id -> 0 .. LongSilence]
    BY <1>1 DEF Tick, TypeOK
  <2> QED
    BY <1>2, <2>2, <2>4, <2>5 DEF TypeOK, process
<1>5. AirIsFresh'
  BY <1>2 DEF AirIsFresh
<1>6. ASSUME NEW m \in Node, NEW i \in Known(m)'
      PROVE  /\ i \in Known(m) /\ table[m][i].age \in Nat
             /\ table'[m][i].age = table[m][i].age + 1
  BY <1>3, <1>6 DEF Known, IsEntry, Entry
<1>7. ASSUME NEW m \in Node, NEW i \in Known(m)'
      PROVE  silent'[i] <= table'[m][i].age
  <2>1. i \in Id /\ silent[i] \in Nat /\ silent[i] <= table[m][i].age
    BY <1>1, <1>6 DEF AgeIsSilence, TypeOK, Known
  <2>2. silent'[i] <= silent[i] + 1
    BY <1>1, <2>1 DEF Tick
  <2>3. silent'[i] \in Nat
    BY <1>1, <1>4, <2>1 DEF TypeOK
  <2> QED
    BY <1>6, <2>1, <2>2, <2>3
<1>8. ASSUME NEW m \in Node, NEW i \in Known(m)'
      PROVE  Up(m)' /\ table'[m][i].age + cleanDue'[m] <= PeerTimeout + HelloInterval
  <2>1. Up(m) /\ table[m][i].age + cleanDue[m] <= PeerTimeout + HelloInterval
    BY <1>6 DEF AgeIsBounded
  <2>2. Up(m)' /\ cleanDue'[m] = cleanDue[m] - 1
    BY <1>2, <2>1 DEF Tick, Up, process
  <2>3. cleanDue[m] \in 0 .. HelloInterval
    BY DEF TypeOK
  <2> QED
    BY <1>6, <2>1, <2>2, <2>3, DiscoveryAssumption
<1>9. AgeIsSilence' /\ AgeIsBounded'
  BY <1>7, <1>8 DEF AgeIsSilence, AgeIsBounded
<1> QED
  BY <1>4, <1>5, <1>9

(***************************************************************************)
(* Every step keeps the inductive invariant: one case per action.          *)
(***************************************************************************)
LEMMA NextIInv == IInv /\ [Next]_vars => IInv'
<1> SUFFICES ASSUME IInv, [Next]_vars PROVE IInv'
  OBVIOUS
<1>1. ASSUME NEW n \in Node, NEW p \in Port, Start(n, p) PROVE IInv'
  BY <1>1, QuietStartIInv
<1>2. ASSUME NEW n \in Node,
             \/ LoadIdentity(n) \/ LoadFails(n) \/ GenerateIdentity(n)
             \/ OpenIdentityFile(n) \/ WriteIdentity(n) \/ BindFails(n)
      PROVE  IInv'
  BY <1>2, QuietStartIInv
<1>3. ASSUME NEW n \in Node, GoOnline(n) PROVE IInv'
  BY <1>3, GoOnlineIInv
<1>4. ASSUME NEW n \in Node, Stop(n) PROVE IInv'
  BY <1>4, StopIInv
<1>5. ASSUME NEW n \in Node, HelloTimer(n) PROVE IInv'
  BY <1>5, HelloTimerIInv
<1>6. ASSUME NEW n \in Node, Cleanup(n) PROVE IInv'
  BY <1>6, CleanupIInv
<1>7. ASSUME NEW n \in Node, NEW h \in air, ReceiveHello(n, h) PROVE IInv'
  BY <1>7, ReceiveHelloIInv
<1>8. CASE Tick
  BY <1>8, TickIInv
<1>9. CASE UNCHANGED vars
  BY <1>9 DEF vars, process, timers, IInv, TypeOK, AirIsFresh, AgeIsSilence,
               AgeIsBounded, Known, Up
<1> QED
  BY <1>1, <1>2, <1>3, <1>4, <1>5, <1>6, <1>7, <1>8, <1>9 DEF Next, Starting

(***************************************************************************)
(* The inductive invariant holds: no HELLO is older than the tick it is    *)
(* received in, no entry is younger than the silence of its peer, and none *)
(* outlives its cleanup, for any timeout and any interval.                 *)
(***************************************************************************)
THEOREM Inductive == Spec => []IInv
<1>1. Init => IInv
  BY InitIInv
<1>2. IInv /\ [Next]_vars => IInv'
  BY NextIInv
<1> QED
  BY <1>1, <1>2, PTL DEF Spec

(***************************************************************************)
(* getAll() lists nobody who was silent for PEER_TIMEOUT, and one interval *)
(* later the table does not hold him (PeerTable, Discovery).               *)
(***************************************************************************)
THEOREM Forgotten == Spec => []GoneIsForgotten
<1>1. IInv => GoneIsForgotten
  <2> SUFFICES ASSUME IInv, NEW n \in Node, NEW i \in Known(n)
               PROVE  /\ silent[i] >= PeerTimeout => i \notin GetAll(n)
                      /\ silent[i] <= PeerTimeout + HelloInterval
    BY DEF GoneIsForgotten
  <2>1. /\ i \in Id /\ table[n][i].age \in Nat
        /\ silent[i] \in Int /\ cleanDue[n] \in Nat
    BY DiscoveryAssumption DEF IInv, TypeOK, Known, IsEntry, Entry, LongSilence
  <2>2. /\ silent[i] <= table[n][i].age
        /\ table[n][i].age + cleanDue[n] <= PeerTimeout + HelloInterval
    BY DEF IInv, AgeIsSilence, AgeIsBounded
  <2> QED
    BY <2>1, <2>2, DiscoveryAssumption DEF GetAll, Recent
<1> QED
  BY <1>1, Inductive, PTL

(***************************************************************************)
(* No step of a running node removes a peer from the table that getAll()   *)
(* lists.                                                                  *)
(***************************************************************************)
THEOREM ListedStays == Spec => ListedIsNotRemoved
<1> DEFINE Stays == \A n \in Node : Up(n) /\ Up(n)' => GetAll(n) \subseteq Known(n)'
<1>1. ASSUME IInv, Next PROVE Stays
  <2> SUFFICES ASSUME NEW n \in Node, Up(n), Up(n)', NEW i \in GetAll(n)
               PROVE  IsEntry(table'[n][i])
    BY DEF GetAll, Known
  <2>1. i \in Id /\ IsEntry(table[n][i]) /\ table[n][i] \in Entry /\ Recent(table[n][i])
    BY <1>1 DEF GetAll, Known, IsEntry, IInv, TypeOK
  <2>2. CASE UNCHANGED table
    BY <2>1, <2>2
  <2>3. ASSUME NEW m \in Node, Stop(m) PROVE m # n
    BY <1>1, <2>3 DEF Stop, Up, IInv, TypeOK
  <2>4. ASSUME NEW m \in Node, Stop(m) PROVE IsEntry(table'[n][i])
    BY <1>1, <2>1, <2>3, <2>4 DEF Stop, IInv, TypeOK
  <2>5. ASSUME NEW m \in Node, Cleanup(m) PROVE IsEntry(table'[n][i])
    <3>1. ~Expired(table[n][i])
      BY <2>1, DiscoveryAssumption DEF Recent, Expired, Entry
    <3> QED
      BY <1>1, <2>1, <2>5, <3>1 DEF Cleanup, IInv, TypeOK
  <2>6. ASSUME NEW m \in Node, NEW h \in air, ReceiveHello(m, h)
        PROVE  IsEntry(table'[n][i])
    <3>1. \/ table'[n][i] = table[n][i]
          \/ table'[n][i] = [port |-> h.port, age |-> 0]
      BY <1>1, <2>1, <2>6 DEF ReceiveHello, Upsert, IInv, TypeOK
    <3>2. h.port \in Port
      BY <1>1, <2>6 DEF IInv, TypeOK, Hello
    <3> QED
      BY <2>1, <3>1, <3>2, DiscoveryAssumption DEF IsEntry
  <2>7. CASE Tick
    <3>1. table'[n][i] = [table[n][i] EXCEPT !.age = table[n][i].age + 1]
      BY <1>1, <2>1, <2>7 DEF Tick
    <3>2. table'[n][i] \in Entry
      BY <2>1, <3>1 DEF Entry
    <3> QED
      BY <3>2, DiscoveryAssumption DEF IsEntry, Entry
  <2>8. ASSUME NEW m \in Node, Starting(m) PROVE UNCHANGED table
    BY <2>8 DEF Starting, LoadIdentity, LoadFails, GenerateIdentity, OpenIdentityFile,
                WriteIdentity, GoOnline, BindFails
  <2>9. ASSUME NEW m \in Node, HelloTimer(m) PROVE UNCHANGED table
    BY <2>9 DEF HelloTimer
  <2>10. ASSUME NEW m \in Node, NEW p \in Port, Start(m, p) PROVE UNCHANGED table
    BY <2>10 DEF Start
  <2> QED
    BY <1>1, <2>2, <2>4, <2>5, <2>6, <2>7, <2>8, <2>9, <2>10 DEF Next
<1>2. ASSUME IInv, UNCHANGED vars PROVE Stays
  BY <1>2 DEF vars, GetAll, Known
<1>3. IInv /\ [Next]_vars => [Stays]_vars
  BY <1>1, <1>2
<1> QED
  BY <1>3, Inductive, PTL DEF Spec, ListedIsNotRemoved

(***************************************************************************)
(* An identity is on disk before the node binds its ports with it.         *)
(***************************************************************************)
KeptOnDisk == \A n \in Node : pc[n] \in {"binding", "up"} => file[DirOf[n]] = id[n]

(***************************************************************************)
(* When no two nodes are started in one directory, a node that is online   *)
(* has its identity on disk, whatever crashes and restarts came before.    *)
(***************************************************************************)
THEOREM OnDisk ==
    ASSUME \A n, m \in Node : DirOf[n] = DirOf[m] => n = m
    PROVE  Spec => []IdentityIsOnDisk
<1>1. Init => KeptOnDisk
  BY DEF Init, KeptOnDisk
<1>2. ASSUME TypeOK, KeptOnDisk, [Next]_vars
      PROVE  KeptOnDisk'
  <2> SUFFICES ASSUME NEW n \in Node, pc'[n] \in {"binding", "up"}
               PROVE  file'[DirOf[n]] = id'[n]
    BY DEF KeptOnDisk
  <2> USE <1>2, DiscoveryAssumption DEF TypeOK, KeptOnDisk
  <2>1. ASSUME NEW m \in Node, NEW p \in Port, Start(m, p)
        PROVE  file'[DirOf[n]] = id'[n]
    BY <2>1 DEF Start
  <2>2. ASSUME NEW m \in Node, LoadIdentity(m) PROVE file'[DirOf[n]] = id'[n]
    BY <2>2 DEF LoadIdentity
  <2>3. ASSUME NEW m \in Node, LoadFails(m) PROVE file'[DirOf[n]] = id'[n]
    BY <2>3 DEF LoadFails
  <2>4. ASSUME NEW m \in Node, GenerateIdentity(m) PROVE file'[DirOf[n]] = id'[n]
    BY <2>4 DEF GenerateIdentity
  <2>5. ASSUME NEW m \in Node, OpenIdentityFile(m) PROVE file'[DirOf[n]] = id'[n]
    BY <2>5 DEF OpenIdentityFile
  <2>6. ASSUME NEW m \in Node, WriteIdentity(m) PROVE file'[DirOf[n]] = id'[n]
    BY <2>6 DEF WriteIdentity
  <2>7. ASSUME NEW m \in Node, Stop(m) PROVE file'[DirOf[n]] = id'[n]
    BY <2>7 DEF Stop
  <2>8. ASSUME UNCHANGED process PROVE file'[DirOf[n]] = id'[n]
    BY <2>8 DEF process
  <2>9. ASSUME NEW m \in Node, HelloTimer(m) \/ Cleanup(m) PROVE UNCHANGED process
    BY <2>9 DEF HelloTimer, Cleanup
  <2>10. ASSUME NEW m \in Node, NEW h \in air, ReceiveHello(m, h)
         PROVE  UNCHANGED process
    BY <2>10 DEF ReceiveHello
  <2>11. CASE Tick
    BY <2>8, <2>11 DEF Tick
  <2>12. CASE UNCHANGED vars
    BY <2>8, <2>12 DEF vars
  <2>13. ASSUME NEW m \in Node, GoOnline(m) \/ BindFails(m) PROVE file'[DirOf[n]] = id'[n]
    BY <2>13 DEF GoOnline, BindFails
  <2> QED
    BY <2>1, <2>2, <2>3, <2>4, <2>5, <2>6, <2>7, <2>8, <2>9, <2>10, <2>11, <2>12, <2>13
       DEF Next, Starting
<1>3. IInv => TypeOK
  BY DEF IInv
<1>4. KeptOnDisk => IdentityIsOnDisk
  BY DEF KeptOnDisk, IdentityIsOnDisk, Up
<1> QED
  BY <1>1, <1>2, <1>3, <1>4, Inductive, PTL DEF Spec
=============================================================================
