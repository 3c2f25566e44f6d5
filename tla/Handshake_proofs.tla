--------------------------- MODULE Handshake_proofs ---------------------------
(***************************************************************************)
(* Proofs about Handshake, for any number of calls, answered by responders *)
(* or plain nodes in any mixture.                                          *)
(***************************************************************************)
EXTENDS Handshake, SequenceTheorems, TLAPS

(***************************************************************************)
(* No call has begun at first.                                             *)
(***************************************************************************)
LEMMA InitIInv == Init => IInv
<1> SUFFICES ASSUME Init PROVE IInv
  OBVIOUS
<1>1. TypeOK
  BY DEF Init, TypeOK
<1>2. SecretsAgree /\ ReturnedIsHeld /\ FailureHasCause
  BY DEF Init, SecretsAgree, ReturnedIsHeld, FailureHasCause, Failed
<1>3. Turns
  BY DEF Init, Turns, Unconnected, UnderWay
<1> QED
  BY <1>1, <1>2, <1>3 DEF IInv

(***************************************************************************)
(* The packets that the two sides write are packets, and what is read is   *)
(* the only packet under way.                                              *)
(***************************************************************************)
LEMMA PacketTypes ==
    ASSUME NEW c \in Call
    PROVE  /\ Pkt("HELLO", EphemeralI(c), Nothing) \in Packet
           /\ Pkt("HELLO", EphemeralR(c), Shared(c)) \in Packet
           /\ Pkt("AUTH", Nothing, Shared(c)) \in Packet
           /\ Pkt("AUTH_OK", Nothing, Nothing) \in Packet
           /\ Pkt("ACK", Nothing, Nothing) \in Packet
           /\ Shared(c) \in Key
<1>1. EphemeralI(c) \in Ephemeral /\ EphemeralR(c) \in Ephemeral
  BY DEF EphemeralI, EphemeralR, Ephemeral
<1>2. Shared(c) \in Key
  BY <1>1 DEF Shared, Key
<1> QED
  BY <1>1, <1>2 DEF Pkt, Packet, Type

(***************************************************************************)
(* A queue of one packet: its head, its tail, what a packet is put after,  *)
(* and what is left of it when the connection breaks.                      *)
(***************************************************************************)
LEMMA OnePacket ==
    ASSUME NEW p
    PROVE  /\ <<p>> # <<>> /\ Head(<<p>>) = p /\ Tail(<<p>>) = <<>>
           /\ Append(<<>>, p) = <<p>>
           /\ \A k \in 0 .. Len(<<p>>) : SubSeq(<<p>>, 1, k) \in {<<>>, <<p>>}
           /\ \A k \in 0 .. Len(<<>>) : SubSeq(<<>>, 1, k) = <<>>
<1>1. <<p>> # <<>> /\ Head(<<p>>) = p
  OBVIOUS
<1>2. Tail(<<p>>) = <<>>
  OBVIOUS
<1>3. Append(<<>>, p) = <<p>>
  OBVIOUS
<1>4. <<p>> \in Seq({p}) /\ Len(<<p>>) = 1 /\ Len(<<>>) = 0
  OBVIOUS
<1>5. SubSeq(<<p>>, 1, 1) = <<p>>
  BY <1>4, SubSeqFull
<1>6. SubSeq(<<p>>, 1, 0) = <<>> /\ SubSeq(<<>>, 1, 0) = <<>>
  BY SubSeqEmpty
<1>7. \A k \in 0 .. 1 : k = 0 \/ k = 1
  OBVIOUS
<1> QED
  BY <1>1, <1>2, <1>3, <1>4, <1>5, <1>6, <1>7

(***************************************************************************)
(* What a connection has to say for itself, and what all of them have to   *)
(* say about the stored key.                                               *)
(***************************************************************************)
Secrets(c) ==
    /\ pcI[c] \in {"awaitOk", "done"} => keyI[c] = Shared(c)
    /\ pcR[c] \in {"awaitAuth", "done"} => keyR[c] = Shared(c)

Turn(c) ==
    /\ \/ UnderWay(c, <<>>, <<>>)
       \/ HelloTurn(c) \/ ReplyTurn(c) \/ AuthTurn(c) \/ OkTurn(c) \/ AckTurn(c)
    /\ Unconnected(c) => pcR[c] = "idle" /\ UnderWay(c, <<>>, <<>>)
    /\ Kind[c] = "node" => pcR[c] = "idle" /\ pcI[c] \notin {"awaitOk", "done"}

Causes(c) ==
    /\ pcR[c] # "refused"
    /\ pcI[c] = "refused" => Kind[c] = "node"
    /\ pcR[c] = "done" /\ pcI[c] \in Failed => link[c] = "broken" \/ pcI[c] = "timeout"
    /\ Kind[c] = "node" => pcI[c] # "done"

Local(c) == Secrets(c) /\ Turn(c) /\ Causes(c) /\ (pcI[c] = "done" => Holds(c, keyI[c]))

Mine(c) == <<pcI[c], pcR[c], keyI[c], keyR[c], toI[c], toR[c], link[c]>>

(***************************************************************************)
(* What IInv says of one call depends on nothing but its own connection.   *)
(***************************************************************************)
LEMMA OthersStay == ASSUME NEW c \in Call, Local(c), Mine(c)' = Mine(c) PROVE Local(c)'
BY DEF Mine, Local, Secrets, Turn, Causes, Holds, UnderWay, Unconnected, HelloTurn,
       ReplyTurn, AuthTurn, OkTurn, AckTurn

Global ==
    /\ \A c \in Call : pcI[c] = "existing" => SetOrHeld(keyI[c])
    /\ stored # Nothing => SetOrHeld(stored)

(***************************************************************************)
(* IInv, sorted into what it says of each call alone and of the stored     *)
(* key.                                                                    *)
(***************************************************************************)
LEMMA IInvParts == IInv <=> TypeOK /\ (\A c \in Call : Local(c)) /\ Global
BY DEF IInv, SecretsAgree, Turns, ReturnedIsHeld, FailureHasCause, Local, Secrets, Turn,
       Causes, Global

Step(c) ==
    \/ UseStored(c) \/ Connect(c) \/ ConnectFails(c) \/ SendHello(c)
    \/ ReceiveReply(c) \/ ReceiveOk(c) \/ ReceiveHello(c) \/ ReceiveAuth(c)
    \/ NodeAnswers(c) \/ Break(c) \/ LostI(c) \/ LostR(c) \/ TimeoutI(c) \/ TimeoutR(c)

(***************************************************************************)
(* A call leaves the other connections alone.                              *)
(***************************************************************************)
LEMMA StepIsOwn ==
    ASSUME TypeOK, NEW c \in Call, Step(c), NEW d \in Call, d # c
    PROVE  Mine(d)' = Mine(d)
<1> USE DEF TypeOK, Mine, initiator, responder, wire
<1>1. CASE UseStored(c) \/ Connect(c) \/ ConnectFails(c)
  BY <1>1 DEF UseStored, Connect, ConnectFails
<1>2. CASE SendHello(c)
  BY <1>2 DEF SendHello, SendR
<1>3. CASE ReceiveReply(c)
  BY <1>3 DEF ReceiveReply, ReadI, SendR
<1>4. CASE ReceiveOk(c)
  BY <1>4 DEF ReceiveOk, ReadI
<1>5. CASE ReceiveHello(c)
  BY <1>5 DEF ReceiveHello, ReadR, SendI
<1>6. CASE ReceiveAuth(c)
  BY <1>6 DEF ReceiveAuth, ReadR, SendI
<1>7. CASE NodeAnswers(c)
  BY <1>7 DEF NodeAnswers, ReadR, SendI
<1>8. CASE Break(c)
  BY <1>8 DEF Break
<1>9. CASE LostI(c) \/ LostR(c) \/ TimeoutI(c) \/ TimeoutR(c)
  BY <1>9 DEF LostI, LostR, TimeoutI, TimeoutR
<1> QED
  BY <1>1, <1>2, <1>3, <1>4, <1>5, <1>6, <1>7, <1>8, <1>9 DEF Step

(***************************************************************************)
(* Each action keeps the types, and its own connection in order.           *)
(***************************************************************************)
LEMMA StartStep ==
    ASSUME TypeOK, NEW c \in Call, Local(c),
           UseStored(c) \/ Connect(c) \/ ConnectFails(c) \/ SendHello(c)
    PROVE  TypeOK' /\ Local(c)'
<1> USE DEF TypeOK, initiator, responder, wire, AwaitingI, AwaitingR, Failed
<1>1. CASE UseStored(c) \/ Connect(c) \/ ConnectFails(c)
  <2>1. TypeOK'
    BY <1>1 DEF UseStored, Connect, ConnectFails
  <2>2. Local(c)'
    BY <1>1 DEF UseStored, Connect, ConnectFails, Local, Secrets, Turn, Causes, Holds,
                UnderWay, Unconnected, HelloTurn, ReplyTurn, AuthTurn, OkTurn, AckTurn
  <2> QED
    BY <2>1, <2>2
<1>2. CASE SendHello(c)
  <2>1. toR[c] = <<>> /\ toI[c] = <<>>
    BY <1>2 DEF SendHello, Local, Turn, Unconnected, UnderWay
  <2>2. /\ toR' = [toR EXCEPT ![c] = <<Pkt("HELLO", EphemeralI(c), Nothing)>>]
        /\ toI' = toI
    BY <1>2, <2>1, OnePacket DEF SendHello, SendR
  <2>3. TypeOK'
    BY <1>2, <2>2, PacketTypes DEF SendHello
  <2>4. Local(c)'
    BY <1>2, <2>1, <2>2, HandshakeAssumption
       DEF SendHello, Local, Secrets, Turn, Causes, Holds, UnderWay, Unconnected, HelloTurn
  <2> QED
    BY <2>3, <2>4
<1> QED
  BY <1>1, <1>2

(***************************************************************************)
(* The initiator reads the other's HELLO or an ACK: it derives the secret  *)
(* of the two ephemeral keys and sends AUTH, or is refused.                *)
(***************************************************************************)
LEMMA ReceiveReplyStep ==
    ASSUME TypeOK, NEW c \in Call, Local(c), ReceiveReply(c)
    PROVE  TypeOK' /\ Local(c)' /\ UNCHANGED stored
<1> USE DEF TypeOK, initiator, responder, wire, AwaitingI, AwaitingR, Failed
<1>1. /\ pcI[c] = "awaitReply" /\ link[c] = "open" /\ toI[c] # <<>>
      /\ toI' = [toI EXCEPT ![c] = Tail(toI[c])]
      /\ UNCHANGED <<stored, responder, link>>
  BY DEF ReceiveReply, ReadI
<1>2. ReplyTurn(c) \/ AckTurn(c)
  BY <1>1 DEF Local, Turn, UnderWay, HelloTurn, AuthTurn, OkTurn
<1>3. CASE ReplyTurn(c)
  <2>1. /\ toI[c] = <<Pkt("HELLO", EphemeralR(c), Shared(c))>> /\ toR[c] = <<>>
        /\ pcR[c] \in {"awaitAuth"} \cup Failed
    BY <1>3 DEF ReplyTurn, UnderWay
  <2>2. /\ Head(toI[c]).type = "HELLO" /\ Head(toI[c]).e = EphemeralR(c)
        /\ Head(toI[c]).sig = Shared(c) /\ Tail(toI[c]) = <<>>
    BY <2>1, OnePacket DEF Pkt
  <2>3. /\ keyI' = [keyI EXCEPT ![c] = Shared(c)]
        /\ pcI' = [pcI EXCEPT ![c] = "awaitOk"]
        /\ SendR(c, Pkt("AUTH", Nothing, Shared(c)))
    BY <2>2 DEF ReceiveReply, Shared
  <2>4. /\ toR' = [toR EXCEPT ![c] = <<Pkt("AUTH", Nothing, Shared(c))>>]
        /\ toI' = [toI EXCEPT ![c] = <<>>]
    BY <1>1, <2>1, <2>2, <2>3, OnePacket DEF SendR
  <2>5. TypeOK'
    BY <1>1, <2>3, <2>4, PacketTypes
  <2>6. Local(c)'
    BY <1>1, <2>1, <2>3, <2>4
       DEF Local, Secrets, Turn, Causes, Holds, UnderWay, Unconnected, AuthTurn
  <2> QED
    BY <1>1, <2>5, <2>6
<1>4. CASE AckTurn(c)
  <2>1. /\ toI[c] = <<Pkt("ACK", Nothing, Nothing)>> /\ toR[c] = <<>>
        /\ Kind[c] = "node"
    BY <1>4 DEF AckTurn, UnderWay
  <2>2. Head(toI[c]).type = "ACK" /\ Tail(toI[c]) = <<>>
    BY <2>1, OnePacket DEF Pkt
  <2>3. pcI' = [pcI EXCEPT ![c] = "refused"] /\ UNCHANGED <<keyI, toR>>
    BY <2>2 DEF ReceiveReply
  <2>4. toI' = [toI EXCEPT ![c] = <<>>]
    BY <1>1, <2>2
  <2>5. TypeOK'
    BY <1>1, <2>3, <2>4
  <2>6. Local(c)'
    BY <1>1, <2>1, <2>3, <2>4
       DEF Local, Secrets, Turn, Causes, Holds, UnderWay, Unconnected
  <2> QED
    BY <1>1, <2>5, <2>6
<1> QED
  BY <1>2, <1>3, <1>4

(***************************************************************************)
(* The initiator reads AUTH_OK and stores the key, which the responder     *)
(* holds.                                                                  *)
(***************************************************************************)
LEMMA ReceiveOkStep ==
    ASSUME TypeOK, NEW c \in Call, Local(c), ReceiveOk(c)
    PROVE  TypeOK' /\ Local(c)' /\ stored' = keyI[c] /\ Holds(c, keyI[c])
<1> USE DEF TypeOK, initiator, responder, wire, AwaitingI, AwaitingR, Failed
<1>1. /\ pcI[c] = "awaitOk" /\ toI[c] # <<>>
      /\ toI' = [toI EXCEPT ![c] = Tail(toI[c])]
      /\ UNCHANGED <<keyI, responder, toR, link>>
  BY DEF ReceiveOk, ReadI
<1>2. OkTurn(c)
  BY <1>1 DEF Local, Turn, UnderWay, HelloTurn, AuthTurn, ReplyTurn, AckTurn
<1>3. /\ toI[c] = <<Pkt("AUTH_OK", Nothing, Nothing)>> /\ toR[c] = <<>>
      /\ pcR[c] = "done"
  BY <1>2 DEF OkTurn, UnderWay
<1>4. Head(toI[c]).type = "AUTH_OK" /\ Tail(toI[c]) = <<>>
  BY <1>3, OnePacket DEF Pkt
<1>5. pcI' = [pcI EXCEPT ![c] = "done"] /\ stored' = keyI[c]
  BY <1>4 DEF ReceiveOk
<1>6. toI' = [toI EXCEPT ![c] = <<>>]
  BY <1>1, <1>4
<1>7. TypeOK'
  BY <1>1, <1>5, <1>6
<1>8. Holds(c, keyI[c])
  BY <1>1, <1>3 DEF Local, Secrets, Holds
<1>9. Local(c)'
  BY <1>1, <1>3, <1>5, <1>6, <1>8
     DEF Local, Secrets, Turn, Causes, Holds, UnderWay, Unconnected
<1> QED
  BY <1>5, <1>7, <1>8, <1>9

(***************************************************************************)
(* The responder reads HELLO and answers with its own ephemeral key.       *)
(***************************************************************************)
LEMMA ReceiveHelloStep ==
    ASSUME TypeOK, NEW c \in Call, Local(c), ReceiveHello(c)
    PROVE  TypeOK' /\ Local(c)' /\ UNCHANGED stored
<1> USE DEF TypeOK, initiator, responder, wire, AwaitingI, AwaitingR, Failed
<1>1. /\ pcR[c] = "awaitHello" /\ toR[c] # <<>>
      /\ toR' = [toR EXCEPT ![c] = Tail(toR[c])]
      /\ UNCHANGED <<initiator, link>>
  BY DEF ReceiveHello, ReadR
<1>2. HelloTurn(c)
  BY <1>1 DEF Local, Turn, UnderWay, AuthTurn, ReplyTurn, OkTurn, AckTurn
<1>3. /\ toR[c] = <<Pkt("HELLO", EphemeralI(c), Nothing)>> /\ toI[c] = <<>>
      /\ pcI[c] \in {"awaitReply"} \cup Failed
  BY <1>2 DEF HelloTurn, UnderWay
<1>4. /\ Head(toR[c]).type = "HELLO" /\ Head(toR[c]).e = EphemeralI(c)
      /\ Tail(toR[c]) = <<>>
  BY <1>3, OnePacket DEF Pkt
<1>5. /\ keyR' = [keyR EXCEPT ![c] = Shared(c)]
      /\ pcR' = [pcR EXCEPT ![c] = "awaitAuth"]
      /\ SendI(c, Pkt("HELLO", EphemeralR(c), Shared(c)))
  BY <1>4 DEF ReceiveHello, Shared
<1>6. /\ toI' = [toI EXCEPT ![c] = <<Pkt("HELLO", EphemeralR(c), Shared(c))>>]
      /\ toR' = [toR EXCEPT ![c] = <<>>]
  BY <1>1, <1>3, <1>4, <1>5, OnePacket DEF SendI
<1>7. TypeOK'
  BY <1>1, <1>5, <1>6, PacketTypes
<1>8. Local(c)'
  BY <1>1, <1>3, <1>5, <1>6
     DEF Local, Secrets, Turn, Causes, Holds, UnderWay, Unconnected, ReplyTurn
<1> QED
  BY <1>1, <1>7, <1>8

(***************************************************************************)
(* The responder reads AUTH, whose signature is over its own secret, and   *)
(* has the key from then on.                                               *)
(***************************************************************************)
LEMMA ReceiveAuthStep ==
    ASSUME TypeOK, NEW c \in Call, Local(c), ReceiveAuth(c)
    PROVE  TypeOK' /\ Local(c)' /\ UNCHANGED stored
<1> USE DEF TypeOK, initiator, responder, wire, AwaitingI, AwaitingR, Failed
<1>1. /\ pcR[c] = "awaitAuth" /\ toR[c] # <<>> /\ link[c] = "open"
      /\ toR' = [toR EXCEPT ![c] = Tail(toR[c])]
      /\ UNCHANGED <<initiator, keyR, link>>
  BY DEF ReceiveAuth, ReadR
<1>2. AuthTurn(c)
  BY <1>1 DEF Local, Turn, UnderWay, HelloTurn, ReplyTurn, OkTurn, AckTurn
<1>3. /\ toR[c] = <<Pkt("AUTH", Nothing, Shared(c))>> /\ toI[c] = <<>>
      /\ pcI[c] \in {"awaitOk", "timeout"}
  BY <1>1, <1>2 DEF AuthTurn, UnderWay
<1>4. /\ Head(toR[c]).type = "AUTH" /\ Head(toR[c]).sig = Shared(c)
      /\ Tail(toR[c]) = <<>> /\ keyR[c] = Shared(c)
  BY <1>1, <1>3, OnePacket DEF Pkt, Local, Secrets
<1>5. /\ pcR' = [pcR EXCEPT ![c] = "done"]
      /\ SendI(c, Pkt("AUTH_OK", Nothing, Nothing))
  BY <1>4 DEF ReceiveAuth, SignatureOk
<1>6. /\ toI' = [toI EXCEPT ![c] = <<Pkt("AUTH_OK", Nothing, Nothing)>>]
      /\ toR' = [toR EXCEPT ![c] = <<>>]
  BY <1>1, <1>3, <1>4, <1>5, OnePacket DEF SendI
<1>7. TypeOK'
  BY <1>1, <1>5, <1>6, PacketTypes
<1>8. Local(c)'
  BY <1>1, <1>3, <1>5, <1>6
     DEF Local, Secrets, Turn, Causes, Holds, UnderWay, Unconnected, OkTurn
<1> QED
  BY <1>1, <1>7, <1>8

(***************************************************************************)
(* A plain node has an ACK for the HELLO it reads, and no secret.          *)
(***************************************************************************)
LEMMA NodeAnswersStep ==
    ASSUME TypeOK, NEW c \in Call, Local(c), NodeAnswers(c)
    PROVE  TypeOK' /\ Local(c)' /\ UNCHANGED stored
<1> USE DEF TypeOK, initiator, responder, wire, AwaitingI, AwaitingR, Failed
<1>1. /\ Kind[c] = "node" /\ toR[c] # <<>>
      /\ toR' = [toR EXCEPT ![c] = Tail(toR[c])]
      /\ SendI(c, Pkt("ACK", Nothing, Nothing))
      /\ UNCHANGED <<initiator, responder, link>>
  BY DEF NodeAnswers, ReadR
<1>2. HelloTurn(c)
  BY <1>1 DEF Local, Turn, UnderWay, AuthTurn, ReplyTurn, OkTurn, AckTurn
<1>3. /\ toR[c] = <<Pkt("HELLO", EphemeralI(c), Nothing)>> /\ toI[c] = <<>>
      /\ pcI[c] \in {"awaitReply"} \cup Failed
  BY <1>2 DEF HelloTurn, UnderWay
<1>4. Tail(toR[c]) = <<>>
  BY <1>3, OnePacket
<1>5. /\ toI' = [toI EXCEPT ![c] = <<Pkt("ACK", Nothing, Nothing)>>]
      /\ toR' = [toR EXCEPT ![c] = <<>>]
  BY <1>1, <1>3, <1>4, OnePacket DEF SendI
<1>6. TypeOK'
  BY <1>1, <1>5, PacketTypes
<1>7. Local(c)'
  BY <1>1, <1>3, <1>5
     DEF Local, Secrets, Turn, Causes, Holds, UnderWay, Unconnected, AckTurn
<1> QED
  BY <1>1, <1>6, <1>7

(***************************************************************************)
(* A connection breaks: a part of the packets under way is lost.           *)
(***************************************************************************)
LEMMA BreakStep ==
    ASSUME TypeOK, NEW c \in Call, Local(c), Break(c)
    PROVE  TypeOK' /\ Local(c)' /\ UNCHANGED stored
<1> USE DEF TypeOK, initiator, responder, wire, Failed
<1>1. /\ UNCHANGED <<initiator, responder>>
      /\ link' = [link EXCEPT ![c] = "broken"]
  BY DEF Break
<1>2. PICK i \in 0 .. Len(toI[c]), r \in 0 .. Len(toR[c]) :
         /\ toI' = [toI EXCEPT ![c] = SubSeq(toI[c], 1, i)]
         /\ toR' = [toR EXCEPT ![c] = SubSeq(toR[c], 1, r)]
  BY DEF Break
<1>3. PICK p : toI[c] \in {<<>>, <<p>>}
  BY DEF Local, Turn, UnderWay, HelloTurn, AuthTurn, ReplyTurn, OkTurn, AckTurn
<1>4. PICK q : toR[c] \in {<<>>, <<q>>}
  BY DEF Local, Turn, UnderWay, HelloTurn, AuthTurn, ReplyTurn, OkTurn, AckTurn
<1>5. SubSeq(toI[c], 1, i) \in {<<>>, toI[c]}
  BY <1>3, OnePacket
<1>6. SubSeq(toR[c], 1, r) \in {<<>>, toR[c]}
  BY <1>4, OnePacket
<1>7. /\ toI'[c] \in {<<>>, toI[c]} /\ toR'[c] \in {<<>>, toR[c]}
      /\ toI' \in [Call -> Seq(Packet)] /\ toR' \in [Call -> Seq(Packet)]
  <2>1. SubSeq(toI[c], 1, i) \in Seq(Packet) /\ SubSeq(toR[c], 1, r) \in Seq(Packet)
    BY <1>5, <1>6
  <2>2. toI' \in [Call -> Seq(Packet)] /\ toR' \in [Call -> Seq(Packet)]
    BY <1>2, <2>1
  <2>3. toI'[c] = SubSeq(toI[c], 1, i) /\ toR'[c] = SubSeq(toR[c], 1, r)
    BY <1>2
  <2> QED
    BY <1>5, <1>6, <2>2, <2>3
<1>8. TypeOK'
  BY <1>1, <1>7
<1>9. Turn(c)'
  BY <1>1, <1>7
     DEF Local, Turn, UnderWay, Unconnected, HelloTurn, AuthTurn, ReplyTurn, OkTurn, AckTurn
<1>10. Local(c)'
  BY <1>1, <1>9 DEF Local, Secrets, Causes, Holds
<1> QED
  BY <1>1, <1>8, <1>10

(***************************************************************************)
(* A side gives up, because the connection is lost or its timer fires.     *)
(***************************************************************************)
LEMMA GiveUpStep ==
    ASSUME TypeOK, NEW c \in Call, Local(c),
           LostI(c) \/ LostR(c) \/ TimeoutI(c) \/ TimeoutR(c)
    PROVE  TypeOK' /\ Local(c)' /\ UNCHANGED stored
<1> USE DEF TypeOK, initiator, responder, wire, AwaitingI, AwaitingR, Failed
<1>1. TypeOK' /\ UNCHANGED <<stored, keyI, keyR, wire>>
  BY DEF LostI, LostR, TimeoutI, TimeoutR
<1>2. Secrets(c)' /\ Causes(c)' /\ (pcI[c] = "done" => Holds(c, keyI[c]))'
  <2> USE DEF Local, Secrets, Causes, Holds
  <2>1. CASE LostI(c)
    BY <2>1 DEF LostI
  <2>2. CASE TimeoutI(c)
    BY <2>2 DEF TimeoutI
  <2>3. CASE LostR(c)
    BY <2>3 DEF LostR
  <2>4. CASE TimeoutR(c)
    BY <2>4 DEF TimeoutR
  <2> QED
    BY <2>1, <2>2, <2>3, <2>4
<1>3. Turn(c)'
  BY DEF LostI, LostR, TimeoutI, TimeoutR, Local, Turn, UnderWay, Unconnected, HelloTurn,
         AuthTurn, ReplyTurn, OkTurn, AckTurn
<1> QED
  BY <1>1, <1>2, <1>3 DEF Local

(***************************************************************************)
(* A responder that holds a key goes on holding it, whatever it or any     *)
(* other call does.                                                        *)
(***************************************************************************)
LEMMA HoldsStays ==
    ASSUME TypeOK, NEW c \in Call, Local(c), Step(c),
           NEW d \in Call, NEW k, Holds(d, k)
    PROVE  Holds(d, k)'
<1>1. CASE d # c
  BY <1>1, StepIsOwn DEF Mine, Holds
<1>2. CASE d = c
  <2>1. pcR[c] = "done" /\ keyR[c] = k /\ ~Unconnected(c)
    BY <1>2 DEF Holds, Local, Turn
  <2> QED
    BY <1>2, <2>1
       DEF Step, Holds, Unconnected, UseStored, Connect, ConnectFails, SendHello, ReceiveReply,
           ReceiveOk, ReceiveHello, ReceiveAuth, NodeAnswers, Break, LostI, LostR, TimeoutI,
           TimeoutR, AwaitingR, initiator, responder, wire
<1> QED
  BY <1>1, <1>2

(***************************************************************************)
(* Of the steps of the handshake, only AUTH_OK stores a key.               *)
(***************************************************************************)
LEMMA StepLocal ==
    ASSUME TypeOK, NEW c \in Call, Local(c), Step(c)
    PROVE  /\ TypeOK' /\ Local(c)'
           /\ stored' # stored => Holds(c, stored')
<1>1. CASE UseStored(c) \/ Connect(c) \/ ConnectFails(c) \/ SendHello(c)
  BY <1>1, StartStep DEF UseStored, Connect, ConnectFails, SendHello
<1>2. CASE ReceiveReply(c)
  BY <1>2, ReceiveReplyStep
<1>3. CASE ReceiveOk(c)
  BY <1>3, ReceiveOkStep
<1>4. CASE ReceiveHello(c)
  BY <1>4, ReceiveHelloStep
<1>5. CASE ReceiveAuth(c)
  BY <1>5, ReceiveAuthStep
<1>6. CASE NodeAnswers(c)
  BY <1>6, NodeAnswersStep
<1>7. CASE Break(c)
  BY <1>7, BreakStep
<1>8. CASE LostI(c) \/ LostR(c) \/ TimeoutI(c) \/ TimeoutR(c)
  BY <1>8, GiveUpStep
<1> QED
  BY <1>1, <1>2, <1>3, <1>4, <1>5, <1>6, <1>7, <1>8 DEF Step

(***************************************************************************)
(* Every step keeps IInv: the call that steps by its lemma above, the      *)
(* others because nothing of them changes.                                 *)
(***************************************************************************)
LEMMA NextIInv == IInv /\ [Next]_vars => IInv'
<1> SUFFICES ASSUME TypeOK, \A c \in Call : Local(c), Global, [Next]_vars
             PROVE  TypeOK' /\ (\A c \in Call : Local(c)') /\ Global'
  BY IInvParts DEF Global, Local, Secrets, Turn, Causes, IInv, SecretsAgree, Turns,
                   ReturnedIsHeld, FailureHasCause
<1>1. ASSUME NEW c \in Call, Step(c)
      PROVE  TypeOK' /\ (\A d \in Call : Local(d)') /\ Global'
  <2>1. /\ TypeOK' /\ Local(c)'
        /\ stored' # stored => Holds(c, stored')
    BY <1>1, StepLocal
  <2>2. \A d \in Call : Local(d)'
    BY <1>1, <2>1, StepIsOwn, OthersStay
  <2>3. ASSUME NEW d \in Call, NEW k, Holds(d, k)
        PROVE  pcR'[d] = "done" /\ keyR'[d] = k
    BY <1>1, <2>3, HoldsStays DEF Holds
  <2>4. ASSUME stored' # Nothing PROVE SetOrHeld(stored)'
    <3>1. SetOrHeld(stored')
      BY <1>1, <2>1, <2>4 DEF Global, SetOrHeld
    <3> QED
      BY <2>3, <3>1 DEF SetOrHeld, Holds
  <2>5. ASSUME NEW d \in Call, pcI'[d] = "existing"
        PROVE  SetOrHeld(keyI[d])'
    <3>1. SetOrHeld(keyI'[d])
      <4>1. CASE pcI[d] = "existing" /\ keyI'[d] = keyI[d]
        BY <4>1 DEF Global
      <4>2. CASE UseStored(c) /\ c = d
        BY <4>2 DEF UseStored, Global, TypeOK
      <4>3. CASE d # c
        BY <1>1, <2>5, <4>1, <4>3, StepIsOwn DEF Mine
      <4>4. CASE d = c /\ ~UseStored(c)
        BY <1>1, <2>5, <4>1, <4>4
           DEF TypeOK, Step, Connect, ConnectFails, SendHello, ReceiveReply, ReceiveOk,
               ReceiveHello, ReceiveAuth, NodeAnswers, Break, LostI, LostR, TimeoutI,
               TimeoutR, initiator, responder, wire
      <4> QED
        BY <4>2, <4>3, <4>4
    <3> QED
      BY <2>3, <3>1 DEF SetOrHeld, Holds
  <2> QED
    BY <2>1, <2>2, <2>4, <2>5 DEF Global
<1>2. ASSUME NEW k \in MessageKey, SetKey(k)
      PROVE  TypeOK' /\ (\A d \in Call : Local(d)') /\ Global'
  <2>1. stored' = k /\ UNCHANGED <<pcI, pcR, keyI, keyR, toI, toR, link>>
    BY <1>2 DEF SetKey, responder, wire
  <2>2. TypeOK'
    BY <2>1 DEF TypeOK
  <2>3. \A d \in Call : Local(d)'
    BY <2>1, OthersStay DEF Mine
  <2>4. Global'
    BY <2>1 DEF Global, SetOrHeld, Holds
  <2> QED
    BY <2>2, <2>3, <2>4
<1>3. CASE UNCHANGED vars
  BY <1>3, OthersStay DEF vars, initiator, responder, wire, Mine, Global, SetOrHeld, Holds,
                          TypeOK
<1> QED
  BY <1>1, <1>2, <1>3 DEF Next, Step, StepI, StepR

(***************************************************************************)
(* The inductive invariant holds: the two sides of every connection take   *)
(* turns and compute one secret.                                           *)
(***************************************************************************)
THEOREM Inductive == Spec => []IInv
<1>1. Init => IInv
  BY InitIInv
<1>2. IInv /\ [Next]_vars => IInv'
  BY NextIInv
<1> QED
  BY <1>1, <1>2, PTL DEF Spec

(***************************************************************************)
(* A key that ensureHandshake() has negotiated is held by its responder,   *)
(* and one that it finds stored by some responder unless sendMessage() set *)
(* it, for any number of calls that overlap and any messages in between.   *)
(***************************************************************************)
THEOREM Held == Spec => []ReturnedIsHeld
<1>1. IInv => ReturnedIsHeld
  BY DEF IInv
<1> QED
  BY <1>1, Inductive, PTL

(***************************************************************************)
(* No side of the protocol refuses the other; a plain node is refused; and *)
(* the responder is left alone with a key only by a lost connection or a   *)
(* timeout.                                                                *)
(***************************************************************************)
THEOREM Causal == Spec => []FailureHasCause
<1>1. IInv => FailureHasCause
  BY DEF IInv
<1> QED
  BY <1>1, Inductive, PTL

(***************************************************************************)
(* The outcomes of the states of a side, and how a step changes them.      *)
(***************************************************************************)
LEMMA OutcomeValues ==
    /\ OutcomeOf("done") = "key"
    /\ \A pc \in Failed : OutcomeOf(pc) = "failed"
    /\ \A pc \in {"idle", "connecting", "existing"} \cup AwaitingI \cup AwaitingR :
          OutcomeOf(pc) = "none"
BY DEF OutcomeOf, Failed, AwaitingI, AwaitingR

(***************************************************************************)
(* A step decides at most one side of a connection, and the initiator gets *)
(* a key only from a responder that has it.                                *)
(***************************************************************************)
LEMMA StepOutcome ==
    ASSUME TypeOK, NEW c \in Call, Local(c), Step(c)
    PROVE  \/ /\ OutcomeOf(pcI'[c]) = OutcomeOf(pcI[c])
              /\ OutcomeOf(pcR'[c]) = OutcomeOf(pcR[c])
           \/ /\ OutcomeOf(pcI[c]) = "none" /\ OutcomeOf(pcR[c]) = "key"
              /\ OutcomeOf(pcI'[c]) = "key" /\ pcR' = pcR
           \/ /\ OutcomeOf(pcI[c]) = "none" /\ OutcomeOf(pcI'[c]) = "failed" /\ pcR' = pcR
           \/ /\ OutcomeOf(pcR[c]) = "none" /\ OutcomeOf(pcR'[c]) \in {"key", "failed"}
              /\ pcI' = pcI
<1> USE OutcomeValues DEF TypeOK, AwaitingI, AwaitingR, Failed, initiator, responder, wire
<1>1. CASE UseStored(c) \/ Connect(c) \/ ConnectFails(c)
  BY <1>1 DEF UseStored, Connect, ConnectFails
<1>2. CASE SendHello(c)
  BY <1>2 DEF SendHello, Local, Turn, Unconnected
<1>3. CASE ReceiveReply(c)
  BY <1>3 DEF ReceiveReply
<1>4. CASE ReceiveOk(c)
  <2>1. pcR[c] = "done"
    BY <1>4, ReceiveOkStep DEF Holds
  <2> QED
    BY <1>4, <2>1 DEF ReceiveOk
<1>5. CASE ReceiveHello(c) \/ ReceiveAuth(c)
  BY <1>5 DEF ReceiveHello, ReceiveAuth
<1>6. CASE NodeAnswers(c) \/ Break(c)
  BY <1>6 DEF NodeAnswers, Break
<1>7. CASE LostI(c) \/ LostR(c) \/ TimeoutI(c) \/ TimeoutR(c)
  BY <1>7 DEF LostI, LostR, TimeoutI, TimeoutR
<1> QED
  BY <1>1, <1>2, <1>3, <1>4, <1>5, <1>6, <1>7 DEF Step

(***************************************************************************)
(* performHandshake() implements KeyAgreement: every step is a step of it  *)
(* or leaves the outcomes as they are.                                     *)
(***************************************************************************)
THEOREM Agrees == Spec => ImplementsKeyAgreement
<1> DEFINE outI == [c \in Call |-> OutcomeOf(pcI[c])]
           outR == [c \in Call |-> OutcomeOf(pcR[c])]
<1>1. Init => Agreement!Init
  BY OutcomeValues DEF Init, Agreement!Init
<1>2. IInv /\ [Next]_vars => [Agreement!Next]_(Agreement!vars)
  <2> SUFFICES ASSUME TypeOK, \A c \in Call : Local(c), [Next]_vars
               PROVE  Agreement!Next \/ UNCHANGED Agreement!vars
    BY IInvParts
  <2>1. ASSUME NEW c \in Call, Step(c)
        PROVE  Agreement!Next \/ UNCHANGED Agreement!vars
    <3>1. \A d \in Call \ {c} : pcI'[d] = pcI[d] /\ pcR'[d] = pcR[d]
      BY <2>1, StepIsOwn DEF Mine
    <3>2. /\ outI' = [outI EXCEPT ![c] = OutcomeOf(pcI'[c])]
          /\ outR' = [outR EXCEPT ![c] = OutcomeOf(pcR'[c])]
      BY <3>1
    <3>3. outI[c] = OutcomeOf(pcI[c]) /\ outR[c] = OutcomeOf(pcR[c])
      OBVIOUS
    <3> HIDE DEF outI, outR
    <3>4. outI = [d \in Call |-> outI[d]] /\ outR = [d \in Call |-> outR[d]]
      BY DEF outI, outR
    <3>5. CASE /\ OutcomeOf(pcI'[c]) = OutcomeOf(pcI[c])
               /\ OutcomeOf(pcR'[c]) = OutcomeOf(pcR[c])
      <4>1. outI' = outI /\ outR' = outR
        BY <3>2, <3>3, <3>4, <3>5
      <4> QED
        BY <4>1 DEF Agreement!vars, outI, outR
    <3>6. CASE /\ OutcomeOf(pcI[c]) = "none" /\ OutcomeOf(pcR[c]) = "key"
               /\ OutcomeOf(pcI'[c]) = "key" /\ pcR' = pcR
      <4>1. Agreement!InitiatorHasKey(c)
        BY <3>2, <3>3, <3>6 DEF Agreement!InitiatorHasKey, outI, outR
      <4> QED
        BY <4>1 DEF Agreement!Next
    <3>7. CASE /\ OutcomeOf(pcI[c]) = "none" /\ OutcomeOf(pcI'[c]) = "failed"
               /\ pcR' = pcR
      <4>1. Agreement!InitiatorFails(c)
        BY <3>2, <3>3, <3>7 DEF Agreement!InitiatorFails, outI, outR
      <4> QED
        BY <4>1 DEF Agreement!Next
    <3>8. CASE /\ OutcomeOf(pcR[c]) = "none" /\ OutcomeOf(pcR'[c]) \in {"key", "failed"}
               /\ pcI' = pcI
      <4>1. Agreement!ResponderHasKey(c) \/ Agreement!ResponderFails(c)
        BY <3>2, <3>3, <3>8
           DEF Agreement!ResponderHasKey, Agreement!ResponderFails, outI, outR
      <4> QED
        BY <4>1 DEF Agreement!Next
    <3> QED
      BY <2>1, <3>5, <3>6, <3>7, <3>8, StepOutcome
  <2>2. ASSUME NEW k \in MessageKey, SetKey(k) PROVE UNCHANGED Agreement!vars
    BY <2>2 DEF SetKey, responder, Agreement!vars
  <2>3. CASE UNCHANGED vars
    BY <2>3 DEF vars, initiator, responder, Agreement!vars
  <2> QED
    BY <2>1, <2>2, <2>3 DEF Next, Step, StepI, StepR
<1> QED
  BY <1>1, <1>2, Inductive, PTL DEF Spec, ImplementsKeyAgreement, Agreement!Spec
=============================================================================
