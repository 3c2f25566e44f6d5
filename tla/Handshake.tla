------------------------------ MODULE Handshake ------------------------------
(***************************************************************************)
(* performHandshake() (src/crypto/handshake.ts) between the calls of       *)
(* ensureHandshake() of one node for one peer (src/cli/node.ts) and that   *)
(* peer, each call over a connection of its own.  At the other end is      *)
(* performHandshake() as responder (the rawConnectionHandler of            *)
(* tests/test-handshake.ts), or the TcpServer of a plain node, which       *)
(* answers what it does not know with an empty ACK.                        *)
(*                                                                         *)
(*     initiator   HELLO(e) -->                   AUTH(sig) -->            *)
(*     responder                <-- HELLO(e,sig)              <-- AUTH_OK  *)
(*                                                                         *)
(* A key is derived from the ephemeral keys of both sides, and is modelled *)
(* by the pair of them; a signature is good when it is over the same pair. *)
(* Each packet is awaited for 10 s only, connections break, and neither    *)
(* side learns that the other has given up.  The key of the peer has       *)
(* another writer: sendMessage() stores the key it is called with.         *)
(***************************************************************************)
EXTENDS Integers, Sequences

CONSTANTS
    Call,        \* calls of ensureHandshake()
    Kind,        \* what answers each: a "responder" or a plain "node"
    MessageKey,  \* keys that sendMessage() is called with for the peer
    Nothing

(***************************************************************************)
(* Every call, and every accepted connection, has a fresh ephemeral key.   *)
(***************************************************************************)
Ephemeral     == Call \X {"I", "R"}
Key           == Ephemeral \X Ephemeral
EphemeralI(c) == <<c, "I">>
EphemeralR(c) == <<c, "R">>

ASSUME HandshakeAssumption ==
    /\ Kind \in [Call -> {"responder", "node"}]
    /\ Nothing \notin Key \cup MessageKey
    /\ Key \cap MessageKey = {}

VARIABLES
    pcI, pcR,    \* where the two sides of each connection are
    keyI, keyR,  \* the shared secrets they computed
    toI, toR,    \* packets under way to each, or in its reader's queue
    link,        \* the connections
    stored       \* the peer's entry of sessionKeys

initiator == <<pcI, keyI, stored>>
responder == <<pcR, keyR>>
wire      == <<toI, toR, link>>
vars      == <<initiator, responder, wire>>

-----------------------------------------------------------------------------
Failed    == {"lost", "timeout", "refused"}
AwaitingI == {"awaitReply", "awaitOk"}
AwaitingR == {"awaitHello", "awaitAuth"}
Type      == {"HELLO", "AUTH", "AUTH_OK", "ACK"}

Packet == [type : Type, e : Ephemeral \cup {Nothing}, sig : Key \cup {Nothing}]
Pkt(type, e, sig) == [type |-> type, e |-> e, sig |-> sig]

TypeOK ==
    /\ pcI \in [Call -> {"idle", "connecting", "done", "existing"} \cup AwaitingI \cup Failed]
    /\ pcR \in [Call -> {"idle", "done"} \cup AwaitingR \cup Failed]
    /\ keyI \in [Call -> Key \cup MessageKey \cup {Nothing}]
    /\ keyR \in [Call -> Key \cup {Nothing}]
    /\ toI \in [Call -> Seq(Packet)]
    /\ toR \in [Call -> Seq(Packet)]
    /\ link \in [Call -> {"none", "open", "broken"}]
    /\ stored \in Key \cup MessageKey \cup {Nothing}

Init ==
    /\ pcI = [c \in Call |-> "idle"]
    /\ pcR = [c \in Call |-> "idle"]
    /\ keyI = [c \in Call |-> Nothing]
    /\ keyR = [c \in Call |-> Nothing]
    /\ toI = [c \in Call |-> <<>>]
    /\ toR = [c \in Call |-> <<>>]
    /\ link = [c \in Call |-> "none"]
    /\ stored = Nothing

(***************************************************************************)
(* writePacket(): the packet is sent, and the side goes on.  SendI is      *)
(* towards the initiator.                                                  *)
(***************************************************************************)
SendI(c, pkt) == toI' = [toI EXCEPT ![c] = Append(@, pkt)]
SendR(c, pkt) == toR' = [toR EXCEPT ![c] = Append(@, pkt)]

(***************************************************************************)
(* readNext() resolves with the next packet.                               *)
(***************************************************************************)
ReadI(c) == toI[c] # <<>> /\ toI' = [toI EXCEPT ![c] = Tail(@)]
ReadR(c) == toR[c] # <<>> /\ toR' = [toR EXCEPT ![c] = Tail(@)]

-----------------------------------------------------------------------------
(***************************************************************************)
(* sendMessage() to the peer stores the key it was called with, before it  *)
(* connects and whether it succeeds or not.                                *)
(***************************************************************************)
SetKey(k) ==
    /\ stored' = k
    /\ UNCHANGED <<pcI, keyI, responder, wire>>

(***************************************************************************)
(* ensureHandshake(): the stored key, or a connection.  Calls that come    *)
(* before the first has stored its key connect as well.                    *)
(***************************************************************************)
UseStored(c) ==
    /\ pcI[c] = "idle"
    /\ stored # Nothing
    /\ pcI' = [pcI EXCEPT ![c] = "existing"]
    /\ keyI' = [keyI EXCEPT ![c] = stored]
    /\ UNCHANGED <<stored, responder, wire>>

Connect(c) ==
    /\ pcI[c] = "idle"
    /\ stored = Nothing
    /\ pcI' = [pcI EXCEPT ![c] = "connecting"]
    /\ UNCHANGED <<keyI, stored, responder, wire>>

ConnectFails(c) ==
    /\ pcI[c] = "connecting"
    /\ pcI' = [pcI EXCEPT ![c] = "lost"]
    /\ UNCHANGED <<keyI, stored, responder, wire>>

(***************************************************************************)
(* The connection is accepted, and the initiator writes its HELLO.         *)
(***************************************************************************)
SendHello(c) ==
    /\ pcI[c] = "connecting"
    /\ pcI' = [pcI EXCEPT ![c] = "awaitReply"]
    /\ pcR' = [pcR EXCEPT ![c] = IF Kind[c] = "responder" THEN "awaitHello" ELSE "idle"]
    /\ link' = [link EXCEPT ![c] = "open"]
    /\ SendR(c, Pkt("HELLO", EphemeralI(c), Nothing))
    /\ UNCHANGED <<keyI, stored, keyR, toI>>

-----------------------------------------------------------------------------
(***************************************************************************)
(* Mutants: the initiator needs no AUTH_OK, or stores the key before it.   *)
(***************************************************************************)
ReceiveReplyAs(c, pc) ==
    LET shared == <<EphemeralI(c), Head(toI[c]).e>>
    IN  /\ pcI[c] = "awaitReply"
        /\ link[c] = "open"
        /\ ReadI(c)
        /\ Head(toI[c]).type = "HELLO"
        /\ keyI' = [keyI EXCEPT ![c] = shared]
        /\ pcI' = [pcI EXCEPT ![c] = pc]
        /\ stored' = shared
        /\ SendR(c, Pkt("AUTH", Nothing, shared))
        /\ UNCHANGED <<responder, link>>
ReceiveReplyAsOk(c)     == ReceiveReplyAs(c, "done")
ReceiveReplyStoring(c)  == ReceiveReplyAs(c, "awaitOk")

(***************************************************************************)
(* The initiator gets the other's HELLO, which has a signature of the      *)
(* secret they share now, and writes AUTH with its own; or throws.         *)
(***************************************************************************)
ReceiveReply(c) ==
    LET pkt    == Head(toI[c])
        shared == <<EphemeralI(c), pkt.e>>
    IN  /\ pcI[c] = "awaitReply"
        /\ link[c] = "open"
        /\ ReadI(c)
        /\ IF pkt.type = "HELLO" /\ pkt.sig = shared
           THEN /\ keyI' = [keyI EXCEPT ![c] = shared]
                /\ pcI' = [pcI EXCEPT ![c] = "awaitOk"]
                /\ SendR(c, Pkt("AUTH", Nothing, shared))
           ELSE /\ pcI' = [pcI EXCEPT ![c] = "refused"]
                /\ UNCHANGED <<keyI, toR>>
        /\ UNCHANGED <<stored, responder, link>>

(***************************************************************************)
(* AUTH_OK: the key is stored for the peer and returned.                   *)
(***************************************************************************)
ReceiveOk(c) ==
    /\ pcI[c] = "awaitOk"
    /\ ReadI(c)
    /\ IF Head(toI[c]).type = "AUTH_OK"
       THEN /\ pcI' = [pcI EXCEPT ![c] = "done"]
            /\ stored' = keyI[c]
       ELSE /\ pcI' = [pcI EXCEPT ![c] = "refused"]
            /\ UNCHANGED stored
    /\ UNCHANGED <<keyI, responder, toR, link>>

-----------------------------------------------------------------------------
(***************************************************************************)
(* Mutant: AUTH_OK goes with the HELLO, to save a round trip.              *)
(***************************************************************************)
ReceiveHelloEagerly(c) ==
    LET shared == <<Head(toR[c]).e, EphemeralR(c)>>
    IN  /\ pcR[c] = "awaitHello"
        /\ link[c] = "open"
        /\ ReadR(c)
        /\ keyR' = [keyR EXCEPT ![c] = shared]
        /\ pcR' = [pcR EXCEPT ![c] = "awaitAuth"]
        /\ toI' = [toI EXCEPT ![c] = @ \o <<Pkt("HELLO", EphemeralR(c), shared),
                                           Pkt("AUTH_OK", Nothing, Nothing)>>]
        /\ UNCHANGED <<initiator, link>>

(***************************************************************************)
(* The responder gets the initiator's HELLO, and replies with its own and  *)
(* a signature of the secret they share now.                               *)
(***************************************************************************)
ReceiveHello(c) ==
    LET pkt    == Head(toR[c])
        shared == <<pkt.e, EphemeralR(c)>>
    IN  /\ pcR[c] = "awaitHello"
        /\ link[c] = "open"
        /\ ReadR(c)
        /\ IF pkt.type = "HELLO"
           THEN /\ keyR' = [keyR EXCEPT ![c] = shared]
                /\ pcR' = [pcR EXCEPT ![c] = "awaitAuth"]
                /\ SendI(c, Pkt("HELLO", EphemeralR(c), shared))
           ELSE /\ pcR' = [pcR EXCEPT ![c] = "refused"]
                /\ UNCHANGED <<keyR, toI>>
        /\ UNCHANGED <<initiator, link>>

(***************************************************************************)
(* Mutant: the two sides put their keys together in different orders.      *)
(***************************************************************************)
SignatureOkSwapped(c, sig) == sig = <<keyR[c][2], keyR[c][1]>>

SignatureOk(c, sig) == sig = keyR[c]

(***************************************************************************)
(* AUTH with a good signature: the responder writes AUTH_OK and returns    *)
(* the key.  The write is awaited, but a packet so small goes to the       *)
(* kernel in the call of write() itself, or fails there (LostR); its       *)
(* callback reports that and does not wait for the other side.             *)
(***************************************************************************)
ReceiveAuth(c) ==
    LET pkt == Head(toR[c])
    IN  /\ pcR[c] = "awaitAuth"
        /\ link[c] = "open"
        /\ ReadR(c)
        /\ IF pkt.type = "AUTH" /\ SignatureOk(c, pkt.sig)
           THEN /\ pcR' = [pcR EXCEPT ![c] = "done"]
                /\ SendI(c, Pkt("AUTH_OK", Nothing, Nothing))
           ELSE /\ pcR' = [pcR EXCEPT ![c] = "refused"]
                /\ UNCHANGED toI
        /\ UNCHANGED <<initiator, keyR, link>>

(***************************************************************************)
(* A plain node has no handler for HELLO, and acknowledges it.             *)
(***************************************************************************)
NodeAnswers(c) ==
    /\ Kind[c] = "node"
    /\ link[c] = "open"
    /\ ReadR(c)
    /\ SendI(c, Pkt("ACK", Nothing, Nothing))
    /\ UNCHANGED <<initiator, responder, link>>

-----------------------------------------------------------------------------
(***************************************************************************)
(* The connection breaks, and the last of the packets under way are lost.  *)
(***************************************************************************)
Break(c) ==
    /\ link[c] = "open"
    /\ link' = [link EXCEPT ![c] = "broken"]
    /\ \E k \in 0 .. Len(toI[c]) : toI' = [toI EXCEPT ![c] = SubSeq(@, 1, k)]
    /\ \E k \in 0 .. Len(toR[c]) : toR' = [toR EXCEPT ![c] = SubSeq(@, 1, k)]
    /\ UNCHANGED <<initiator, responder>>

(***************************************************************************)
(* An error on a broken connection rejects readNext() or the next write;   *)
(* a write also fails when the other side has failed and closed.           *)
(***************************************************************************)
LostI(c) ==
    /\ pcI[c] \in AwaitingI
    /\ link[c] = "broken" \/ (pcI[c] = "awaitReply" /\ toI[c] # <<>> /\ pcR[c] \in Failed)
    /\ pcI' = [pcI EXCEPT ![c] = "lost"]
    /\ UNCHANGED <<keyI, stored, responder, wire>>

LostR(c) ==
    /\ pcR[c] \in AwaitingR
    /\ link[c] = "broken" \/ (toR[c] # <<>> /\ pcI[c] \in Failed)
    /\ pcR' = [pcR EXCEPT ![c] = "lost"]
    /\ UNCHANGED <<initiator, keyR, wire>>

(***************************************************************************)
(* Mutant: AUTH_OK is awaited without a timeout.                           *)
(***************************************************************************)
TimeoutReplyOnly(c) ==
    /\ pcI[c] = "awaitReply"
    /\ pcI' = [pcI EXCEPT ![c] = "timeout"]
    /\ UNCHANGED <<keyI, stored, responder, wire>>

(***************************************************************************)
(* readNext() waits for 10 s; a packet that comes later is read by nobody. *)
(***************************************************************************)
TimeoutI(c) ==
    /\ pcI[c] \in AwaitingI
    /\ pcI' = [pcI EXCEPT ![c] = "timeout"]
    /\ UNCHANGED <<keyI, stored, responder, wire>>

TimeoutR(c) ==
    /\ pcR[c] \in AwaitingR
    /\ pcR' = [pcR EXCEPT ![c] = "timeout"]
    /\ UNCHANGED <<initiator, keyR, wire>>

-----------------------------------------------------------------------------
StepI(c) == ConnectFails(c) \/ SendHello(c) \/ ReceiveReply(c) \/ ReceiveOk(c)
StepR(c) == ReceiveHello(c) \/ ReceiveAuth(c)

Next ==
    \/ \E k \in MessageKey : SetKey(k)
    \/ \E c \in Call :
        \/ UseStored(c)
        \/ Connect(c)
        \/ StepI(c)
        \/ StepR(c)
        \/ NodeAnswers(c)
        \/ Break(c)
        \/ LostI(c)
        \/ LostR(c)
        \/ TimeoutI(c)
        \/ TimeoutR(c)

Spec == Init /\ [][Next]_vars

(***************************************************************************)
(* A connection attempt succeeds or fails, and the timer of readNext()     *)
(* fires unless a packet came.  Nobody has to answer.                      *)
(***************************************************************************)
Fairness ==
    \A c \in Call :
        /\ WF_vars(SendHello(c) \/ ConnectFails(c))
        /\ WF_vars(TimeoutI(c))
        /\ WF_vars(TimeoutR(c))

FairSpec == Spec /\ Fairness

-----------------------------------------------------------------------------
(***************************************************************************)
(* A key that ensureHandshake() has negotiated is held by the responder,   *)
(* whatever was lost or came too late.  One that it finds stored and       *)
(* returns unasked is held by the responder of some call, or was set by    *)
(* sendMessage(), of which the peer need not know: no key of a handshake   *)
(* that failed is ever kept.                                               *)
(***************************************************************************)
Holds(c, key) == pcR[c] = "done" /\ keyR[c] = key

SetOrHeld(key) == key \in MessageKey \/ \E d \in Call : Holds(d, key)

ReturnedIsHeld ==
    /\ \A c \in Call : pcI[c] = "done" => Holds(c, keyI[c])
    /\ \A c \in Call : pcI[c] = "existing" => SetOrHeld(keyI[c])
    /\ stored # Nothing => SetOrHeld(stored)

(***************************************************************************)
(* Every failure has its cause.  Between the two sides of the protocol     *)
(* nothing is refused, and the responder is left alone with a key only     *)
(* when the AUTH_OK was lost or came too late.  A plain node is refused    *)
(* and never gives a key, so that its messages keep the key they had.      *)
(***************************************************************************)
FailureHasCause ==
    \A c \in Call :
        /\ pcR[c] # "refused"
        /\ pcI[c] = "refused" => Kind[c] = "node"
        /\ pcR[c] = "done" /\ pcI[c] \in Failed => link[c] = "broken" \/ pcI[c] = "timeout"
        /\ Kind[c] = "node" => pcI[c] # "done"

(***************************************************************************)
(* What the proof needs beside: the secret of each side is that of their   *)
(* connection, and the two sides take turns, so that one packet at most is *)
(* under way, in the order of the diagram.                                 *)
(***************************************************************************)
Shared(c) == <<EphemeralI(c), EphemeralR(c)>>

SecretsAgree ==
    \A c \in Call :
        /\ pcI[c] \in {"awaitOk", "done"} => keyI[c] = Shared(c)
        /\ pcR[c] \in {"awaitAuth", "done"} => keyR[c] = Shared(c)

Unconnected(c) == pcI[c] \in {"idle", "connecting", "existing"}
UnderWay(c, r, i) == toR[c] = r /\ toI[c] = i

HelloTurn(c) ==
    /\ UnderWay(c, <<Pkt("HELLO", EphemeralI(c), Nothing)>>, <<>>)
    /\ pcI[c] \in {"awaitReply"} \cup Failed
    /\ pcR[c] \in {"idle", "awaitHello"} \cup Failed
ReplyTurn(c) ==
    /\ UnderWay(c, <<>>, <<Pkt("HELLO", EphemeralR(c), Shared(c))>>)
    /\ pcI[c] \in {"awaitReply"} \cup Failed
    /\ pcR[c] \in {"awaitAuth"} \cup Failed
AuthTurn(c) ==
    /\ UnderWay(c, <<Pkt("AUTH", Nothing, Shared(c))>>, <<>>)
    /\ pcI[c] \in {"awaitOk", "timeout"} \/ (pcI[c] = "lost" /\ link[c] = "broken")
    /\ pcR[c] \in {"awaitAuth"} \cup Failed
OkTurn(c) ==
    /\ UnderWay(c, <<>>, <<Pkt("AUTH_OK", Nothing, Nothing)>>)
    /\ pcI[c] \in {"awaitOk"} \cup Failed
    /\ pcR[c] = "done"
AckTurn(c) ==
    /\ UnderWay(c, <<>>, <<Pkt("ACK", Nothing, Nothing)>>)
    /\ pcI[c] \in {"awaitReply"} \cup Failed
    /\ Kind[c] = "node"

Turns ==
    \A c \in Call :
        /\ \/ UnderWay(c, <<>>, <<>>)
           \/ HelloTurn(c) \/ ReplyTurn(c) \/ AuthTurn(c) \/ OkTurn(c) \/ AckTurn(c)
        /\ Unconnected(c) => pcR[c] = "idle" /\ UnderWay(c, <<>>, <<>>)
        /\ Kind[c] = "node" => pcR[c] = "idle" /\ pcI[c] \notin {"awaitOk", "done"}

IInv == TypeOK /\ SecretsAgree /\ Turns /\ ReturnedIsHeld /\ FailureHasCause

(***************************************************************************)
(* Both sides end, whoever stays silent.                                   *)
(***************************************************************************)
HandshakeEnds ==
    \A c \in Call :
        /\ pcI[c] = "connecting" ~> pcI[c] \in Failed \cup {"done"}
        /\ pcR[c] = "awaitHello" ~> pcR[c] \in Failed \cup {"done"}

(***************************************************************************)
(* A handshake is a key agreement in which the responder decides first.    *)
(***************************************************************************)
OutcomeOf(pc) ==
    CASE pc = "done"                      -> "key"
      [] pc \in Failed                    -> "failed"
      [] pc \notin Failed \cup {"done"}   -> "none"

Agreement == INSTANCE KeyAgreement WITH
    initiator <- [c \in Call |-> OutcomeOf(pcI[c])],
    responder <- [c \in Call |-> OutcomeOf(pcR[c])]

ImplementsKeyAgreement == Agreement!Spec
=============================================================================
