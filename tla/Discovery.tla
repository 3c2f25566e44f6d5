------------------------------ MODULE Discovery ------------------------------
(***************************************************************************)
(* How nodes find each other: the identity a node starts with              *)
(* (src/crypto/identity.ts), the HELLO packets it sends every              *)
(* HELLO_INTERVAL (src/network/discovery.ts), and the table of the peers   *)
(* it heard (src/network/peerTable.ts), from which entries disappear.      *)
(*                                                                         *)
(* Time is counted in ticks.  A timer fires in the tick in which it is due *)
(* (the clock waits for it), and a datagram arrives in the tick in which   *)
(* it was sent or never: on the local networks these nodes are for, both   *)
(* delays are far below one HELLO_INTERVAL.  An entry has the time since   *)
(* its last HELLO instead of the date of it.                               *)
(*                                                                         *)
(* A node is a process that works in a directory.  Its identity is in the  *)
(* file .archipel/identity.json there, and is written at the first start.  *)
(* Nodes stop and crash at any moment, without a word to the others.       *)
(***************************************************************************)
EXTENDS Integers

CONSTANTS
    Node,
    Dir,            \* working directories
    DirOf,          \* the directory each node is started in
    Port,           \* TCP ports; a node may be started with any
    HelloInterval,  \* HELLO_INTERVAL: 3 s, one tick at least
    PeerTimeout,    \* PEER_TIMEOUT: 90 s
    MaxStarts,      \* bound: starts of each node
    Absent, Torn,   \* no identity.json, and one that does not parse
    NoId, NoPort, NoEntry

(***************************************************************************)
(* Identities are generated: a node's next one is named after it and the   *)
(* start that generates it.                                                *)
(***************************************************************************)
Id == Node \X (1 .. MaxStarts)

ASSUME DiscoveryAssumption ==
    /\ DirOf \in [Node -> Dir]
    /\ HelloInterval \in Nat \ {0}
    /\ PeerTimeout \in Nat \ {0}
    /\ MaxStarts \in Nat
    /\ {NoId, Absent, Torn} \cap Id = {}
    /\ Absent # Torn
    /\ NoPort \notin Port
    /\ NoEntry \notin [port : Port, age : Nat]

VARIABLES
    file,      \* identity.json in each directory: an identity, absent or torn
    pc,        \* where each node is in its start
    starts,    \* how often each node was started (bounded)
    id, port,  \* identity and TCP port of each node
    table,     \* peers of each node's PeerTable
    helloDue,  \* ticks until each node's next HELLO
    cleanDue,  \* ticks until the next cleanup of its table
    air,       \* datagrams under way
    silent     \* history: ticks since a HELLO of an identity was sent

process == <<file, pc, starts, id, port>>
timers  == <<helloDue, cleanDue>>
vars    == <<process, table, timers, air, silent>>

-----------------------------------------------------------------------------
Up(n) == pc[n] = "up"
Entry == [port : Port, age : Nat]
Hello == [id : Id, port : Port, to : Node]

(***************************************************************************)
(* Longer than any entry is kept: silence is not counted any further.      *)
(***************************************************************************)
LongSilence == PeerTimeout + HelloInterval + 1

IsEntry(e) == e # NoEntry
Known(n)   == {i \in Id : IsEntry(table[n][i])}

(***************************************************************************)
(* Mutants: getAll() still lists what is exactly as old as the timeout;    *)
(* cleanup() with a timeout of its own, longer or shorter.                 *)
(***************************************************************************)
RecentInclusive(e) == e.age <= PeerTimeout
ExpiredLate(e)     == e.age > PeerTimeout + 1
ExpiredEarly(e)    == e.age > PeerTimeout - HelloInterval

(***************************************************************************)
(* getAll() lists the peers heard within the timeout; cleanup() forgets    *)
(* the others, except that both leave one that is exactly as old alone.    *)
(***************************************************************************)
Recent(e)  == e.age < PeerTimeout
Expired(e) == e.age > PeerTimeout
GetAll(n)  == {i \in Known(n) : Recent(table[n][i])}

TypeOK ==
    /\ file \in [Dir -> {Absent, Torn} \cup Id]
    /\ pc \in [Node -> {"off", "loading", "creating", "writing", "binding", "up"}]
    /\ starts \in [Node -> 0 .. MaxStarts]
    /\ id \in [Node -> Id \cup {NoId}]
    /\ port \in [Node -> Port \cup {NoPort}]
    /\ table \in [Node -> [Id -> Entry \cup {NoEntry}]]
    /\ helloDue \in [Node -> 0 .. HelloInterval]
    /\ cleanDue \in [Node -> 0 .. HelloInterval]
    /\ air \subseteq Hello
    /\ silent \in [Id -> 0 .. LongSilence]
    /\ \A n \in Node : pc[n] \in {"creating", "writing", "binding", "up"} => id[n] \in Id
    /\ \A n \in Node : pc[n] # "off" => port[n] \in Port /\ starts[n] > 0

Nobody == [i \in Id |-> NoEntry]

Init ==
    /\ file = [d \in Dir |-> Absent]
    /\ pc = [n \in Node |-> "off"]
    /\ starts = [n \in Node |-> 0]
    /\ id = [n \in Node |-> NoId]
    /\ port = [n \in Node |-> NoPort]
    /\ table = [n \in Node |-> Nobody]
    /\ helloDue = [n \in Node |-> 0]
    /\ cleanDue = [n \in Node |-> 0]
    /\ air = {}
    /\ silent = [i \in Id |-> LongSilence]

-----------------------------------------------------------------------------
(***************************************************************************)
(* sendHello(): one datagram to the multicast group and one to the         *)
(* broadcast address reach each running node.                              *)
(***************************************************************************)
SendHello(n, i, p) ==
    /\ air' = air \cup {[id |-> i, port |-> p, to |-> m] : m \in {x \in Node : Up(x)} \ {n}}
    /\ silent' = [silent EXCEPT ![i] = 0]
    /\ helloDue' = [helloDue EXCEPT ![n] = HelloInterval]

(***************************************************************************)
(* start(port): first of all loadIdentity() reads the file.                *)
(***************************************************************************)
Start(n, p) ==
    /\ pc[n] = "off"
    /\ starts[n] < MaxStarts
    /\ starts' = [starts EXCEPT ![n] = @ + 1]
    /\ pc' = [pc EXCEPT ![n] = "loading"]
    /\ port' = [port EXCEPT ![n] = p]
    /\ UNCHANGED <<file, id, table, timers, air, silent>>

(***************************************************************************)
(* The file is there: it has the identity, and the node goes on to bind    *)
(* its ports, or the start fails with 'Identity file corrupted'.           *)
(***************************************************************************)
LoadIdentity(n) ==
    /\ pc[n] = "loading"
    /\ file[DirOf[n]] \in Id
    /\ pc' = [pc EXCEPT ![n] = "binding"]
    /\ id' = [id EXCEPT ![n] = file[DirOf[n]]]
    /\ UNCHANGED <<file, starts, port, table, timers, air, silent>>

LoadFails(n) ==
    /\ pc[n] = "loading"
    /\ file[DirOf[n]] = Torn
    /\ pc' = [pc EXCEPT ![n] = "off"]
    /\ port' = [port EXCEPT ![n] = NoPort]
    /\ UNCHANGED <<file, starts, id, table, timers, air, silent>>

(***************************************************************************)
(* There is none: generateIdentity().                                      *)
(***************************************************************************)
GenerateIdentity(n) ==
    /\ pc[n] = "loading"
    /\ file[DirOf[n]] = Absent
    /\ pc' = [pc EXCEPT ![n] = "creating"]
    /\ id' = [id EXCEPT ![n] = <<n, starts[n]>>]
    /\ UNCHANGED <<file, starts, port, table, timers, air, silent>>

(***************************************************************************)
(* Mutant: saveIdentity() is not awaited.                                  *)
(***************************************************************************)
OpenIdentityFileUnawaited(n) ==
    /\ pc[n] = "creating"
    /\ pc' = [pc EXCEPT ![n] = "binding"]
    /\ file' = [file EXCEPT ![DirOf[n]] = Torn]
    /\ UNCHANGED <<starts, id, port, table, timers, air, silent>>

(***************************************************************************)
(* saveIdentity(): writeFile() truncates the file, then writes it.         *)
(***************************************************************************)
OpenIdentityFile(n) ==
    /\ pc[n] = "creating"
    /\ pc' = [pc EXCEPT ![n] = "writing"]
    /\ file' = [file EXCEPT ![DirOf[n]] = Torn]
    /\ UNCHANGED <<starts, id, port, table, timers, air, silent>>

WriteIdentity(n) ==
    /\ pc[n] = "writing"
    /\ pc' = [pc EXCEPT ![n] = "binding"]
    /\ file' = [file EXCEPT ![DirOf[n]] = id[n]]
    /\ UNCHANGED <<starts, id, port, table, timers, air, silent>>

(***************************************************************************)
(* The server listens and the UDP socket is bound: the node is online.     *)
(* The table is new, its cleanup timer starts, and start() of Discovery    *)
(* sends the first HELLO.                                                  *)
(***************************************************************************)
GoOnline(n) ==
    /\ pc[n] = "binding"
    /\ pc' = [pc EXCEPT ![n] = "up"]
    /\ cleanDue' = [cleanDue EXCEPT ![n] = HelloInterval]
    /\ SendHello(n, id[n], port[n])
    /\ UNCHANGED <<file, starts, id, port, table>>

(***************************************************************************)
(* One of the two cannot be bound: start() is rejected, and the process    *)
(* exits before anybody heard of it.                                       *)
(***************************************************************************)
BindFails(n) ==
    /\ pc[n] = "binding"
    /\ pc' = [pc EXCEPT ![n] = "off"]
    /\ id' = [id EXCEPT ![n] = NoId]
    /\ port' = [port EXCEPT ![n] = NoPort]
    /\ UNCHANGED <<file, starts, table, timers, air, silent>>

(***************************************************************************)
(* stop(), a crash, or an error while the identity is saved, which ends    *)
(* the process too: memory is lost.                                        *)
(***************************************************************************)
Stop(n) ==
    /\ pc[n] # "off"
    /\ pc' = [pc EXCEPT ![n] = "off"]
    /\ id' = [id EXCEPT ![n] = NoId]
    /\ port' = [port EXCEPT ![n] = NoPort]
    /\ table' = [table EXCEPT ![n] = Nobody]
    /\ helloDue' = [helloDue EXCEPT ![n] = 0]
    /\ cleanDue' = [cleanDue EXCEPT ![n] = 0]
    /\ air' = {h \in air : h.to # n}
    /\ UNCHANGED <<file, starts, silent>>

-----------------------------------------------------------------------------
(***************************************************************************)
(* The interval of Discovery.                                              *)
(***************************************************************************)
HelloTimer(n) ==
    /\ Up(n)
    /\ helloDue[n] = 0
    /\ SendHello(n, id[n], port[n])
    /\ UNCHANGED <<process, table, cleanDue>>

(***************************************************************************)
(* Mutant: the entry keeps the address it was created with.                *)
(***************************************************************************)
UpsertKeepingAddress(e, h) ==
    IF IsEntry(e) THEN [e EXCEPT !.age = 0] ELSE [port |-> h.port, age |-> 0]

(***************************************************************************)
(* upsert(): an existing entry is updated, a new one is created; either    *)
(* way the address is that of the datagram and lastSeen is now.            *)
(***************************************************************************)
Upsert(e, h) == [port |-> h.port, age |-> 0]

(***************************************************************************)
(* Mutant: a node takes the packets that carry its own port for its own.   *)
(***************************************************************************)
IsSelfByPort(n, h) == h.port = port[n]

(***************************************************************************)
(* The 'message' handler ignores what carries the node's own identity,     *)
(* whoever sent it.  A datagram comes twice (multicast and broadcast), so  *)
(* it stays in the air until time passes; receiving it again changes       *)
(* nothing unless another came in between.                                 *)
(***************************************************************************)
IsSelf(n, h) == h.id = id[n]

ReceiveHello(n, h) ==
    /\ h \in air /\ h.to = n
    /\ table' = [table EXCEPT ![n][h.id] = IF IsSelf(n, h) THEN @ ELSE Upsert(@, h)]
    /\ UNCHANGED <<process, timers, air, silent>>

(***************************************************************************)
(* cleanup(), every HELLO_INTERVAL.                                        *)
(***************************************************************************)
Cleanup(n) ==
    /\ Up(n)
    /\ cleanDue[n] = 0
    /\ table' = [table EXCEPT ![n] =
                   [i \in Id |-> IF IsEntry(@[i]) /\ Expired(@[i]) THEN NoEntry ELSE @[i]]]
    /\ cleanDue' = [cleanDue EXCEPT ![n] = HelloInterval]
    /\ UNCHANGED <<process, helloDue, air, silent>>

(***************************************************************************)
(* Time passes when no timer is due; what is in the air is lost.           *)
(***************************************************************************)
Tick ==
    /\ \A n \in Node : Up(n) => helloDue[n] > 0 /\ cleanDue[n] > 0
    /\ table' = [n \in Node |-> [i \in Id |->
                   IF IsEntry(table[n][i])
                   THEN [table[n][i] EXCEPT !.age = @ + 1] ELSE NoEntry]]
    /\ helloDue' = [n \in Node |-> IF Up(n) THEN helloDue[n] - 1 ELSE 0]
    /\ cleanDue' = [n \in Node |-> IF Up(n) THEN cleanDue[n] - 1 ELSE 0]
    /\ silent' = [i \in Id |-> IF silent[i] < LongSilence THEN silent[i] + 1 ELSE silent[i]]
    /\ air' = {}
    /\ UNCHANGED process

-----------------------------------------------------------------------------
Starting(n) ==
    \/ LoadIdentity(n)
    \/ LoadFails(n)
    \/ GenerateIdentity(n)
    \/ OpenIdentityFile(n)
    \/ WriteIdentity(n)
    \/ GoOnline(n)
    \/ BindFails(n)

Next ==
    \/ \E n \in Node, p \in Port : Start(n, p)
    \/ \E n \in Node : Starting(n) \/ Stop(n) \/ HelloTimer(n) \/ Cleanup(n)
    \/ \E n \in Node, h \in air : ReceiveHello(n, h)
    \/ Tick

Spec == Init /\ [][Next]_vars

(***************************************************************************)
(* Time passes and timers fire.  Of the HELLOs that a node sends to        *)
(* another again and again, some arrive.  Nobody has to start or stop a    *)
(* node.                                                                   *)
(***************************************************************************)
Fairness ==
    /\ WF_vars(Tick)
    /\ \A n \in Node :
          /\ WF_vars(Starting(n))
          /\ WF_vars(HelloTimer(n))
          /\ WF_vars(Cleanup(n))
          /\ \A m \in Node \ {n} : SF_vars(\E h \in air : h.id = id[m] /\ ReceiveHello(n, h))

FairSpec == Spec /\ Fairness

-----------------------------------------------------------------------------
(***************************************************************************)
(* A peer from which no HELLO was sent for PEER_TIMEOUT is listed by no    *)
(* getAll(), and at the latest one interval later no get() finds it:       *)
(* whatever order HELLOs, restarts and cleanups came in.                   *)
(***************************************************************************)
GoneIsForgotten ==
    \A n \in Node : \A i \in Known(n) :
        /\ silent[i] >= PeerTimeout => i \notin GetAll(n)
        /\ silent[i] <= PeerTimeout + HelloInterval

(***************************************************************************)
(* What the proof needs beside: HELLOs in the air were sent in this tick,  *)
(* an entry is at least as old as the silence of its peer, and none        *)
(* outlives the next cleanup.                                              *)
(***************************************************************************)
AirIsFresh   == \A h \in air : silent[h.id] = 0 /\ Up(h.to)
AgeIsSilence == \A n \in Node : \A i \in Known(n) : silent[i] <= table[n][i].age
AgeIsBounded ==
    \A n \in Node : \A i \in Known(n) :
        Up(n) /\ table[n][i].age + cleanDue[n] <= PeerTimeout + HelloInterval

IInv == TypeOK /\ AirIsFresh /\ AgeIsSilence /\ AgeIsBounded

(***************************************************************************)
(* A peer does not vanish from the table while it is listed: it is hidden  *)
(* by getAll() first, however cleanup and HELLOs fall together.            *)
(***************************************************************************)
ListedIsNotRemoved ==
    [][\A n \in Node : Up(n) /\ Up(n)' => GetAll(n) \subseteq Known(n)']_vars

(***************************************************************************)
(* A node that is online has its identity on disk, so that it comes back   *)
(* under the same one after any crash: identities that were announced do   *)
(* not change, and no start of such a node fails.                          *)
(***************************************************************************)
IdentityIsOnDisk == \A n \in Node : Up(n) => file[DirOf[n]] = id[n]

(***************************************************************************)
(* A node that stays up finds the others that stay up, again and again,    *)
(* although HELLOs are lost: what the guide of the README promises after   *)
(* about 30 s.                                                             *)
(***************************************************************************)
NodesFindEachOther ==
    \A n, m \in Node :
        n # m /\ <>[](Up(n) /\ Up(m)) => []<>(id[m] \in GetAll(n))

(***************************************************************************)
(* The table comes to have the current address of a peer that was          *)
(* restarted with another port, or nothing, never the old one for good.    *)
(***************************************************************************)
AddressSettles ==
    \A n, m \in Node :
        n # m /\ <>[](Up(n) /\ Up(m)) =>
            <>[](id[m] \in Known(n) => table[n][id[m]].port = port[m])
=============================================================================
