---------------------------- MODULE KeyAgreement ----------------------------
(***************************************************************************)
(* What a handshake promises: on each connection the responder decides     *)
(* first, and the initiator has a key only when the responder has it.  The *)
(* other way round nothing is promised: the responder may be left alone    *)
(* with a key.                                                             *)
(***************************************************************************)
CONSTANT Call

VARIABLES initiator, responder  \* outcome of each side

vars == <<initiator, responder>>

Init ==
    /\ initiator = [c \in Call |-> "none"]
    /\ responder = [c \in Call |-> "none"]

ResponderHasKey(c) ==
    /\ responder[c] = "none"
    /\ responder' = [responder EXCEPT ![c] = "key"]
    /\ UNCHANGED initiator

InitiatorHasKey(c) ==
    /\ initiator[c] = "none"
    /\ responder[c] = "key"
    /\ initiator' = [initiator EXCEPT ![c] = "key"]
    /\ UNCHANGED responder

InitiatorFails(c) ==
    /\ initiator[c] = "none"
    /\ initiator' = [initiator EXCEPT ![c] = "failed"]
    /\ UNCHANGED responder

ResponderFails(c) ==
    /\ responder[c] = "none"
    /\ responder' = [responder EXCEPT ![c] = "failed"]
    /\ UNCHANGED initiator

Next ==
    \E c \in Call :
        \/ ResponderHasKey(c)
        \/ InitiatorHasKey(c)
        \/ InitiatorFails(c)
        \/ ResponderFails(c)

Spec == Init /\ [][Next]_vars
=============================================================================
